--------------------------- MODULE Reproc_proofs ---------------------------
(***************************************************************************)
(* Proofs about Reproc, for any number of children, any calls, timeouts,   *)
(* deadlines and stop actions.                                             *)
(***************************************************************************)
EXTENDS Reproc, TLAPS, WellFoundedInduction

(* What the object keeps of a child and what has become of the child.      *)
Life ==
    \A p \in Process :
        /\ os[p] = "none" <=> status[p] = STATUS_NOT_STARTED
        /\ os[p] # "absent" => (status[p] >= 0 <=> os[p] = "collected")
        /\ status[p] >= 0 /\ os[p] # "absent" => status[p] = code[p]
        /\ pending[p] # {} => os[p] = "alive"
        /\ os[p] \notin {"none", "absent", "alive"} => code[p] \in Statuses

(* A call that waits or stops has a child, started before and, while it    *)
(* sleeps, not yet waited for; waitpid comes only after a closed pipe.     *)
InCall == InWait \/ InWaitpid \/ pc \in {"stop", "stopped"}

Where ==
    /\ InCall => cur \in Process /\ status[cur] # STATUS_NOT_STARTED
    /\ InWait \/ InWaitpid => status[cur] = STATUS_IN_PROGRESS
    /\ InWaitpid => held[cur] = {}

(* What reproc_stop knows of the action before the one it is at.           *)
Progress ==
    /\ pc \in {"stop.wait", "stop.waitpid"} => step <= 3 /\ actions[step].action # "noop"
    /\ pc = "stop" /\ step > 1 =>
          ret = IF actions[step - 1].action = "noop" THEN 0 ELSE REPROC_ETIMEDOUT

IndInv == TypeOK /\ Life /\ Where /\ Progress /\ SignalsOwnChild /\ StopOutcome

LEMMA StatusRange ==
  /\ Statuses \subseteq 0 .. 255
  /\ \A s \in Statuses \cup {0} : s >= 0 /\ s # REPROC_ETIMEDOUT
  /\ STATUS_NOT_STARTED < 0 /\ STATUS_IN_PROGRESS < 0
  /\ STATUS_NOT_STARTED # STATUS_IN_PROGRESS
  /\ ECHILD # REPROC_ETIMEDOUT /\ EINTR # REPROC_ETIMEDOUT
BY ReprocAssumption DEF Statuses, REPROC_ETIMEDOUT, STATUS_NOT_STARTED,
   STATUS_IN_PROGRESS, ECHILD, EINTR

LEMMA InitIndInv == Init => IndInv
<1> SUFFICES ASSUME Init PROVE IndInv
  OBVIOUS
<1>1. TypeOK
  <2>1. /\ exitPipe \in [Process -> BOOLEAN] /\ freed \in [Process -> BOOLEAN]
        /\ freeing \in BOOLEAN
    BY Zenon DEF Init
  <2>2. /\ status \in [Process -> Statuses \cup {STATUS_NOT_STARTED, STATUS_IN_PROGRESS}]
        /\ os \in [Process -> {"none", "absent", "alive", "zombie", "collected", "stolen"}]
        /\ code \in [Process -> Statuses \cup {0}]
        /\ held \in [Process -> SUBSET {"child", "heir"}]
        /\ pending \in [Process -> SUBSET {SIGTERM, SIGKILL}]
        /\ cur \in Process \cup {NULL} /\ step \in 1 .. 4 /\ pc = "idle"
        /\ stray \subseteq Process
    BY DEF Init
  <2> QED
    BY <2>1, <2>2 DEF TypeOK
<1>2. Life
  BY DEF Init, Life, STATUS_NOT_STARTED
<1>3. Where /\ Progress /\ SignalsOwnChild /\ StopOutcome
  BY DEF Init, Where, Progress, SignalsOwnChild, StopOutcome, InCall, InWait, InWaitpid
<1> QED
  BY <1>1, <1>2, <1>3 DEF IndInv

(* The children, and bash, change only what the system knows.              *)
LEMMA SystemStep ==
  ASSUME IndInv, UNCHANGED <<status, exitPipe, freed, stray>>,
         UNCHANGED <<pc, cur, actions, step, freeing, ret>>,
         os' \in [Process -> {"none", "absent", "alive", "zombie", "collected", "stolen"}],
         code' \in [Process -> Statuses \cup {0}],
         held' \in [Process -> SUBSET {"child", "heir"}],
         pending' \in [Process -> SUBSET {SIGTERM, SIGKILL}],
         \A p \in Process :
           /\ \/ os'[p] = os[p]
              \/ os[p] = "alive" /\ os'[p] = "zombie" /\ code'[p] \in Statuses
              \/ os[p] = "zombie" /\ os'[p] = "stolen"
           /\ os[p] # "alive" => code'[p] = code[p]
           /\ pending'[p] # {} => os'[p] = "alive"
           /\ held[p] = {} => held'[p] = {}
  PROVE  IndInv'
<1>1. TypeOK'
  BY DEF IndInv, TypeOK
<1>2. Life'
  BY DEF IndInv, Life
<1>3. Where'
  BY DEF IndInv, Where, InCall, InWait, InWaitpid
<1>4. Progress'
  BY DEF IndInv, Progress
<1>5. SignalsOwnChild'
  BY DEF IndInv, TypeOK, SignalsOwnChild
<1>6. StopOutcome'
  BY DEF IndInv, StopOutcome, EndsByNoop, Where, InCall
<1> QED
  BY <1>1, <1>2, <1>3, <1>4, <1>6, <1>5 DEF IndInv

LEMMA EndsStep ==
  ASSUME IndInv, NEW p \in Process, os[p] = "alive", NEW c \in Statuses, Ends(p, c),
         UNCHANGED <<objectVars, stray, pollVars, callVars>>
  PROVE  IndInv'
<1>1. /\ os' = [os EXCEPT ![p] = "zombie"]
      /\ code' = [code EXCEPT ![p] = c]
      /\ held' = [held EXCEPT ![p] = @ \ {"child"}]
      /\ pending' = [pending EXCEPT ![p] = {}]
  BY DEF Ends
<1>2. \A q \in Process :
        /\ \/ os'[q] = os[q]
           \/ os[q] = "alive" /\ os'[q] = "zombie" /\ code'[q] \in Statuses
        /\ os[q] # "alive" => code'[q] = code[q]
        /\ pending'[q] # {} => os'[q] = "alive"
        /\ held[q] = {} => held'[q] = {}
  BY <1>1 DEF IndInv, TypeOK, Life
<1>3. /\ os' \in [Process -> {"none", "absent", "alive", "zombie", "collected", "stolen"}]
      /\ code' \in [Process -> Statuses \cup {0}]
      /\ held' \in [Process -> SUBSET {"child", "heir"}]
      /\ pending' \in [Process -> SUBSET {SIGTERM, SIGKILL}]
  BY <1>1 DEF IndInv, TypeOK
<1> QED
  BY <1>2, <1>3, SystemStep DEF objectVars, callVars

LEMMA HeldStep ==
  ASSUME IndInv, NEW p \in Process, NEW S \in SUBSET {"child", "heir"},
         held' = [held EXCEPT ![p] = S], held[p] # {} \/ S = {},
         UNCHANGED <<objectVars, os, code, pending, stray, pollVars, callVars>>
  PROVE  IndInv'
<1>1. held' \in [Process -> SUBSET {"child", "heir"}]
  BY DEF IndInv, TypeOK
<1>2. \A q \in Process : held[q] = {} => held'[q] = {}
  BY DEF IndInv, TypeOK
<1>3. \A q \in Process : pending'[q] # {} => os'[q] = "alive"
  BY DEF IndInv, Life
<1> QED
  BY <1>1, <1>2, <1>3, SystemStep DEF objectVars, callVars, IndInv, TypeOK

(* The object of the system is as it was; only the call goes on.           *)
LEMMA CallStep ==
  ASSUME IndInv, UNCHANGED <<status, freed, os, code, held, pending, stray>>,
         exitPipe' \in [Process -> BOOLEAN],
         cur' \in Process \cup {NULL}, step' \in 1 .. 4, freeing' \in BOOLEAN,
         pc' \in {"idle", "wait", "stop.wait", "waitpid", "stop.waitpid", "stop", "stopped",
                  "poll", "returned", "aborted"},
         Where', Progress', StopOutcome'
  PROVE  IndInv'
<1>1. TypeOK'
  BY DEF IndInv, TypeOK
<1>2. Life' /\ SignalsOwnChild'
  BY DEF IndInv, Life, SignalsOwnChild
<1> QED
  BY <1>1, <1>2 DEF IndInv

(* A call that has nothing to do with waiting or stopping.                 *)
LEMMA OtherCallStep ==
  ASSUME IndInv, UNCHANGED <<status, freed, os, code, held, pending, stray, exitPipe>>,
         cur' \in Process \cup {NULL}, step' \in 1 .. 4, freeing' \in BOOLEAN,
         pc' \in {"idle", "poll", "returned", "aborted"}
  PROVE  IndInv'
<1>1. Where' /\ Progress' /\ StopOutcome'
  BY DEF Where, InCall, InWait, InWaitpid, Progress, StopOutcome
<1> QED
  BY <1>1, CallStep DEF IndInv, TypeOK

LEMMA AssertStep ==
  ASSUME IndInv, AssertFails, cur' \in Process \cup {NULL}
  PROVE  IndInv'
BY OtherCallStep DEF AssertFails, IndInv, TypeOK, objectVars, systemVars

LEMMA WaitpidAnyStep ==
  ASSUME IndInv, WaitpidAny
  PROVE  IndInv'
<1>1. InWaitpid /\ cur \in Process /\ status[cur] = STATUS_IN_PROGRESS /\ os[cur] = "absent"
  BY DEF WaitpidAny, IndInv, Where, InCall
<1>2. PICK c \in Statuses :
        /\ \/ UNCHANGED os
           \/ \E q \in Process : /\ os[q] = "zombie" /\ code[q] = c
                                /\ os' = [os EXCEPT ![q] = "stolen"]
        /\ status' = [status EXCEPT ![cur] = c]
        /\ WaitReturns(c)
  BY DEF WaitpidAny
<1>3. /\ exitPipe' = [exitPipe EXCEPT ![cur] = FALSE]
      /\ UNCHANGED <<freed, code, held, pending, stray, cur, actions, freeing>>
  BY DEF WaitpidAny
<1>4. c >= 0 /\ c # REPROC_ETIMEDOUT /\ c # STATUS_NOT_STARTED
  BY StatusRange DEF STATUS_NOT_STARTED
<1>5. ret' = c /\ pc' \in {"returned", "stopped"} /\ step' = step
  <2>1. pc \in {"waitpid", "stop.waitpid"}
    BY <1>1 DEF InWaitpid
  <2> QED
    BY <1>2, <1>4, <2>1, Zenon DEF WaitReturns, InWait
<1>6. /\ os' \in [Process -> {"none", "absent", "alive", "zombie", "collected", "stolen"}]
      /\ \A q \in Process : os'[q] = os[q] \/ (os[q] = "zombie" /\ os'[q] = "stolen")
  BY <1>2 DEF IndInv, TypeOK
<1>7. /\ status' \in [Process -> Statuses \cup {STATUS_NOT_STARTED, STATUS_IN_PROGRESS}]
      /\ status'[cur] = c /\ \A q \in Process \ {cur} : status'[q] = status[q]
  BY <1>1, <1>2 DEF IndInv, TypeOK
<1>8. TypeOK'
  <2>1. exitPipe' \in [Process -> BOOLEAN]
    BY <1>3 DEF IndInv, TypeOK
  <2> QED
    BY <1>3, <1>5, <1>6, <1>7, <2>1 DEF IndInv, TypeOK
<1>9. Life' /\ SignalsOwnChild'
  <2>1. TypeOK /\ Life /\ SignalsOwnChild
    BY DEF IndInv
  <2>2. os'[cur] = "absent"
    BY <1>1, <1>6
  <2>3. SignalsOwnChild'
    BY <1>3, <1>6, <2>1 DEF TypeOK, SignalsOwnChild
  <2>4. ASSUME NEW q \in Process, q # cur
        PROVE  /\ os'[q] = "none" <=> status'[q] = STATUS_NOT_STARTED
               /\ os'[q] # "absent" => (status'[q] >= 0 <=> os'[q] = "collected")
               /\ status'[q] >= 0 /\ os'[q] # "absent" => status'[q] = code'[q]
               /\ pending'[q] # {} => os'[q] = "alive"
               /\ os'[q] \notin {"none", "absent", "alive"} => code'[q] \in Statuses
    BY <1>3, <1>6, <1>7, <2>1, <2>4 DEF Life
  <2>5. pending'[cur] = {}
    BY <1>1, <1>3, <2>1 DEF Life
  <2> QED
    BY <1>1, <1>4, <1>7, <2>2, <2>3, <2>4, <2>5 DEF Life
<1>10. Where' /\ Progress' /\ StopOutcome'
  BY <1>1, <1>3, <1>4, <1>5, <1>6, <1>7 DEF Where, InCall, InWait, InWaitpid, Progress, StopOutcome
<1> QED
  BY <1>8, <1>9, <1>10 DEF IndInv

LEMMA WaitpidNoneStep ==
  ASSUME IndInv, WaitpidNone
  PROVE  IndInv'
<1>1. InWaitpid /\ os[cur] = "absent" /\ cur \in Process /\ status[cur] # STATUS_NOT_STARTED
      /\ cur' = cur
  BY DEF WaitpidNone, IndInv, Where, InCall
<1>2. CASE AssertFails
  BY <1>1, <1>2, AssertStep
<1>3. CASE /\ WaitReturns(ECHILD)
           /\ UNCHANGED <<objectVars, systemVars, pollVars, until, actions, freeing>>
  <2>1. ret' = ECHILD /\ pc' \in {"returned", "stopped"} /\ step' = step
    BY <1>1, <1>3, StatusRange DEF WaitReturns, InWait, InWaitpid
  <2>2. Where' /\ Progress' /\ StopOutcome'
    BY <1>1, <1>3, <2>1 DEF Where, InCall, InWait, InWaitpid, Progress, StopOutcome,
       objectVars, systemVars
  <2> QED
    BY <1>1, <1>3, <2>1, <2>2, CallStep DEF objectVars, systemVars, IndInv, TypeOK
<1> QED
  BY <1>2, <1>3 DEF WaitpidNone

LEMMA SystemNextStep ==
  ASSUME IndInv, SystemNext
  PROVE  IndInv'
<1>1. CASE \E p \in Process, c \in ExitCode : ChildExits(p, c)
  <2>1. PICK p \in Process, c \in ExitCode : ChildExits(p, c)
    BY <1>1
  <2>2. c \in Statuses
    BY DEF Statuses
  <2> QED
    BY <2>1, <2>2, EndsStep DEF ChildExits, Alive
<1>2. CASE \E p \in Process, sig \in {SIGTERM, SIGKILL} : Deliver(p, sig)
  <2>1. PICK p \in Process, sig \in {SIGTERM, SIGKILL} : Deliver(p, sig)
    BY <1>2
  <2>2. os[p] = "alive"
    BY <2>1 DEF Deliver, IndInv, Life
  <2>3. CASE Ends(p, Termsig(sig))
    <3>1. Termsig(sig) \in Statuses
      BY DEF Termsig, Statuses, SIGTERM, SIGKILL, SIGOFFSET
    <3>2. UNCHANGED <<objectVars, stray, pollVars, callVars>>
      BY <2>1 DEF Deliver
    <3> QED
      BY <2>2, <2>3, <3>1, <3>2, EndsStep
  <2>4. CASE /\ pending' = [pending EXCEPT ![p] = @ \ {SIGTERM}]
             /\ UNCHANGED <<os, code, held>>
    <3>1. /\ pending' \in [Process -> SUBSET {SIGTERM, SIGKILL}]
          /\ \A q \in Process : pending'[q] # {} => os'[q] = "alive"
      BY <2>2, <2>4 DEF IndInv, TypeOK, Life
    <3>2. UNCHANGED <<objectVars, stray, pollVars, callVars>>
      BY <2>1 DEF Deliver
    <3> QED
      BY <2>4, <3>1, <3>2, SystemStep DEF objectVars, callVars, IndInv, TypeOK
  <2> QED
    BY <2>1, <2>3, <2>4 DEF Deliver
<1>3. CASE \E p \in Process : ChildLetsGo(p)
  <2>1. PICK p \in Process : ChildLetsGo(p)
    BY <1>3
  <2> QED
    BY <2>1, HeldStep DEF ChildLetsGo, IndInv, TypeOK
<1>4. CASE \E p \in Process : ChildForks(p)
  <2>1. PICK p \in Process : ChildForks(p)
    BY <1>4
  <2> QED
    BY <2>1, HeldStep DEF ChildForks, IndInv, TypeOK
<1>5. CASE \E p \in Process : HeirEnds(p)
  <2>1. PICK p \in Process : HeirEnds(p)
    BY <1>5
  <2> QED
    BY <2>1, HeldStep DEF HeirEnds, IndInv, TypeOK
<1>6. CASE \E p \in Process : HostReaps(p)
  <2>1. PICK p \in Process : HostReaps(p)
    BY <1>6
  <2>2. /\ os' \in [Process -> {"none", "absent", "alive", "zombie", "collected", "stolen"}]
        /\ \A q \in Process : os'[q] = os[q] \/ (os[q] = "zombie" /\ os'[q] = "stolen")
        /\ \A q \in Process : pending'[q] # {} => os'[q] = "alive"
    BY <2>1 DEF HostReaps, IndInv, TypeOK, Life
  <2> QED
    BY <2>1, <2>2, SystemStep DEF HostReaps, objectVars, callVars, IndInv, TypeOK
<1>7. CASE Tick
  <2>1. /\ os' \in [Process -> {"none", "absent", "alive", "zombie", "collected", "stolen"}]
        /\ \A q \in Process : pending'[q] # {} => os'[q] = "alive"
    BY <1>7 DEF Tick, systemVars, IndInv, TypeOK, Life
  <2> QED
    BY <1>7, <2>1, SystemStep DEF Tick, systemVars, IndInv, TypeOK
<1>8. CASE WaitInterrupted
  <2>1. /\ ret' = EINTR /\ pc' \in {"returned", "stopped"}
        /\ step' = step
    BY <1>8, StatusRange DEF WaitInterrupted, WaitReturns, InWait, InWaitpid
  <2>2. UNCHANGED <<objectVars, systemVars, pollVars, cur, until, actions, freeing>>
    BY <1>8 DEF WaitInterrupted
  <2>3. InWait \/ InWaitpid
    BY <1>8 DEF WaitInterrupted
  <2>4. TypeOK'
    BY <2>1, <2>2 DEF IndInv, TypeOK, objectVars, systemVars
  <2>5. Life'
    BY <2>2 DEF IndInv, Life, objectVars, systemVars
  <2>6. Where' /\ Progress' /\ StopOutcome'
    BY <2>1, <2>2, <2>3 DEF IndInv, Where, InCall, InWait, InWaitpid, Progress, StopOutcome,
       objectVars, systemVars
  <2> QED
    BY <2>2, <2>4, <2>5, <2>6 DEF IndInv, SignalsOwnChild, systemVars
<1>9. CASE WaitpidAny
  BY <1>9, WaitpidAnyStep
<1>10. CASE WaitpidNone
  BY <1>10, WaitpidNoneStep
<1>11. CASE StopAsserts
  BY <1>11, AssertStep DEF StopAsserts, IndInv, TypeOK
<1>12. CASE PollInterrupted
  <2>1. /\ pc' = "returned" /\ step' = step
        /\ UNCHANGED <<objectVars, systemVars, pollVars, cur, until, actions, freeing>>
    BY <1>12 DEF PollInterrupted, Return
  <2>2. TypeOK' /\ Life'
    BY <2>1 DEF IndInv, TypeOK, Life, objectVars, systemVars
  <2>3. Where' /\ Progress' /\ StopOutcome'
    BY <2>1 DEF IndInv, Where, InCall, InWait, InWaitpid, Progress, StopOutcome
  <2> QED
    BY <2>1, <2>2, <2>3 DEF IndInv, SignalsOwnChild, systemVars
<1> QED
  BY <1>1, <1>2, <1>3, <1>4, <1>5, <1>6, <1>7, <1>8, <1>12, <1>9, <1>10, <1>11 DEF SystemNext

(* What kill() and the wait after an action of reproc_stop have to go by.  *)
LEMMA SignalOwn ==
  ASSUME IndInv, NEW p \in Process, status[p] # STATUS_NOT_STARTED,
         NEW sig \in {SIGTERM, SIGKILL}, SendSignal(p, sig)
  PROVE  /\ pending' \in [Process -> SUBSET {SIGTERM, SIGKILL}]
         /\ \A q \in Process : pending'[q] # {} => os[q] = "alive"
         /\ stray' \subseteq Process
         /\ \A q \in stray' : os[q] \in {"stolen", "absent"}
         /\ SignalResult(p) < 0 => SignalResult(p) = ESRCH /\ os[p] = "stolen"
<1>1. CASE status[p] >= 0
  <2>1. UNCHANGED <<pending, stray>>
    BY <1>1, Zenon DEF SendSignal
  <2>2. SignalResult(p) = 0
    <3>1. status[p] \in Int
      <4>1. status[p] \in Statuses \cup {STATUS_NOT_STARTED, STATUS_IN_PROGRESS}
        BY DEF IndInv, TypeOK
      <4>2. \A s \in Statuses : s \in Int
        BY StatusRange
      <4> QED
        BY <4>1, <4>2 DEF STATUS_NOT_STARTED, STATUS_IN_PROGRESS
    <3> QED
      BY <1>1, <3>1 DEF SignalResult
  <2> QED
    BY <2>1, <2>2 DEF IndInv, TypeOK, Life, SignalsOwnChild
<1>2. CASE ~(status[p] >= 0)
  <2> DEFINE to == {q \in Process : os[q] = "alive" /\ (q = p \/ os[p] = "absent")}
  <2>1. /\ pending' = [q \in Process |-> IF q \in to THEN pending[q] \cup {sig} ELSE pending[q]]
        /\ stray' = IF os[p] \in {"alive", "zombie"} THEN stray ELSE stray \cup {p}
    BY <1>2, Zenon DEF SendSignal, KillPid
  <2>2. os[p] \in {"absent", "alive", "zombie", "stolen"}
    BY <1>2 DEF IndInv, TypeOK, Life
  <2>3. stray' \subseteq Process /\ \A q \in stray' : os[q] \in {"stolen", "absent"}
    BY <2>1, <2>2 DEF IndInv, TypeOK, SignalsOwnChild
  <2>4. /\ pending' \in [Process -> SUBSET {SIGTERM, SIGKILL}]
        /\ \A q \in Process : pending'[q] # {} => os[q] = "alive"
    <3>1. \A q \in to : os[q] = "alive"
      OBVIOUS
    <3> HIDE DEF to
    <3> QED
      BY <2>1, <3>1 DEF IndInv, TypeOK, Life
  <2>5. SignalResult(p) < 0 => SignalResult(p) = ESRCH /\ os[p] = "stolen"
    BY <2>2 DEF SignalResult
  <2> QED
    BY <2>3, <2>4, <2>5
<1> QED
  BY <1>1, <1>2

(* After a signal, only pending has changed of the system.                 *)
LEMMA SignalStep ==
  ASSUME IndInv, NEW p \in Process, status[p] # STATUS_NOT_STARTED,
         NEW sig \in {SIGTERM, SIGKILL}, SendSignal(p, sig),
         UNCHANGED <<objectVars, os, code, held>>,
         cur' \in Process \cup {NULL}, step' \in 1 .. 4, freeing' \in BOOLEAN,
         pc' \in {"stopped", "stop.wait", "returned"},
         Where', Progress', StopOutcome'
  PROVE  IndInv'
<1>1. /\ pending' \in [Process -> SUBSET {SIGTERM, SIGKILL}]
      /\ \A q \in Process : pending'[q] # {} => os[q] = "alive"
      /\ stray' \subseteq Process
      /\ \A q \in stray' : os[q] \in {"stolen", "absent"}
  BY SignalOwn
<1>2. TypeOK'
  BY <1>1 DEF IndInv, TypeOK, objectVars
<1>3. Life' /\ SignalsOwnChild'
  BY <1>1 DEF IndInv, Life, SignalsOwnChild, objectVars
<1> QED
  BY <1>2, <1>3 DEF IndInv

LEMMA SignalCallStep ==
  ASSUME IndInv, NEW p \in Process, NEW sig \in {SIGTERM, SIGKILL}, Signal(p, sig)
  PROVE  IndInv'
<1>1. status[p] # STATUS_NOT_STARTED /\ cur' = p
  BY DEF Signal, Started
<1>2. CASE AssertFails
  BY <1>1, <1>2, AssertStep
<1>3. CASE ~AssertFails
  <2>1. /\ SendSignal(p, sig)
        /\ UNCHANGED <<objectVars, os, code, held>>
        /\ pc' = "returned" /\ step' = step /\ freeing' = freeing
    BY <1>3, Zenon DEF Signal, Return
  <2>2. Where' /\ Progress' /\ StopOutcome'
    BY <2>1 DEF Where, InCall, InWait, InWaitpid, Progress, StopOutcome
  <2> QED
    BY <1>1, <2>1, <2>2, SignalStep DEF IndInv, TypeOK
<1> QED
  BY <1>2, <1>3

LEMMA StartStep ==
  ASSUME IndInv, NEW p \in Process, Start(p)
  PROVE  IndInv'
<1>1. /\ pc = "idle" /\ status[p] = STATUS_NOT_STARTED
      /\ status' = [status EXCEPT ![p] = STATUS_IN_PROGRESS]
      /\ exitPipe' = [exitPipe EXCEPT ![p] = TRUE]
      /\ \/ os' = [os EXCEPT ![p] = "alive"]
         \/ os' = [os EXCEPT ![p] = "absent"]
      /\ cur' = p /\ pc' = "returned"
      /\ UNCHANGED <<freed, code, pending, stray, actions, step, freeing>>
  BY DEF Start, Ready, Return
<1>2. PICK S \in SUBSET {"child", "heir"} : held' = [held EXCEPT ![p] = S]
  <2>1. held = [held EXCEPT ![p] = held[p]] /\ held[p] \in SUBSET {"child", "heir"}
    BY DEF IndInv, TypeOK
  <2> QED
    BY <2>1 DEF Start
<1>3. TypeOK'
  <2>1. exitPipe' \in [Process -> BOOLEAN]
    BY <1>1 DEF IndInv, TypeOK
  <2>2. held' \in [Process -> SUBSET {"child", "heir"}]
    BY <1>2 DEF IndInv, TypeOK
  <2> QED
    BY <1>1, <2>1, <2>2 DEF IndInv, TypeOK
<1>4. Life' /\ SignalsOwnChild'
  BY <1>1, StatusRange DEF IndInv, TypeOK, Life, SignalsOwnChild, STATUS_IN_PROGRESS
<1>5. Where' /\ Progress' /\ StopOutcome'
  BY <1>1 DEF Where, InCall, InWait, InWaitpid, Progress, StopOutcome
<1> QED
  BY <1>3, <1>4, <1>5 DEF IndInv

LEMMA CallNextStep ==
  ASSUME IndInv, CallNext
  PROVE  IndInv'
<1>1. CASE \E p \in Process : Start(p)
  BY <1>1, StartStep
<1>2. CASE \E p \in Process : Terminate(p) \/ Kill(p)
  BY <1>2, SignalCallStep DEF Terminate, Kill
<1>3. CASE \E p \in Process, t \in Timeouts \cup {REPROC_DEADLINE} : Wait(p, t)
  <2>1. PICK p \in Process, t \in Timeouts \cup {REPROC_DEADLINE} : Wait(p, t)
    BY <1>3
  <2>2. /\ status[p] # STATUS_NOT_STARTED /\ cur' = p
        /\ \/ pc' = "returned"
           \/ ~(status[p] >= 0) /\ pc' = "wait"
        /\ UNCHANGED <<objectVars, systemVars, actions, step, freeing>>
    BY <2>1 DEF Wait, Started, Return
  <2>3. Where' /\ Progress' /\ StopOutcome'
    BY <2>2, StatusRange DEF Where, InCall, InWait, InWaitpid, Progress, StopOutcome, IndInv, TypeOK, objectVars
  <2> QED
    BY <2>2, <2>3, CallStep DEF objectVars, systemVars, IndInv, TypeOK
<1>4. CASE \E p \in Process, s \in UNION {StopArgs[q] : q \in Process} : Stop(p, s)
  <2>1. PICK p \in Process, s \in UNION {StopArgs[q] : q \in Process} : Stop(p, s)
    BY <1>4
  <2>2. /\ status[p] # STATUS_NOT_STARTED /\ cur' = p /\ pc' = "stop" /\ step' = 1
        /\ freeing' = FALSE /\ UNCHANGED <<objectVars, systemVars>>
    BY <2>1 DEF Stop, Started
  <2>3. Where' /\ Progress' /\ StopOutcome'
    BY <2>2 DEF Where, InCall, InWait, InWaitpid, Progress, StopOutcome, objectVars
  <2>4. exitPipe' \in [Process -> BOOLEAN]
    BY <2>2 DEF objectVars, IndInv, TypeOK
  <2>5. freeing' \in BOOLEAN
    BY <2>2, Zenon
  <2> QED
    BY <2>2, <2>3, <2>4, <2>5, CallStep DEF objectVars, systemVars
<1>5. CASE \E p \in Process : Destroy(p)
  <2>1. PICK p \in Process : Destroy(p)
    BY <1>5
  <2>2. CASE /\ status[p] = STATUS_IN_PROGRESS
             /\ pc' = "stop" /\ actions' = ParseStop(stop[p]) /\ step' = 1 /\ freeing' = TRUE
             /\ UNCHANGED <<freed, exitPipe>>
    <3>1. cur' = p /\ UNCHANGED <<status, systemVars>>
      BY <2>1 DEF Destroy
    <3>2. Where' /\ Progress' /\ StopOutcome'
      BY <2>2, <3>1, StatusRange DEF Where, InCall, InWait, InWaitpid, Progress, StopOutcome
    <3> QED
      BY <2>2, <3>1, <3>2, CallStep DEF systemVars, IndInv, TypeOK
  <2>3. CASE /\ freed' = [freed EXCEPT ![p] = TRUE]
             /\ exitPipe' = [exitPipe EXCEPT ![p] = FALSE]
             /\ pc' = "returned"
             /\ UNCHANGED <<actions, step, freeing>>
    <3>1. cur' = p /\ UNCHANGED <<status, systemVars>>
      BY <2>1 DEF Destroy
    <3>2. Where' /\ Progress' /\ StopOutcome'
      BY <2>3 DEF Where, InCall, InWait, InWaitpid, Progress, StopOutcome
    <3>3. freed' \in [Process -> BOOLEAN] /\ exitPipe' \in [Process -> BOOLEAN]
      BY <2>3 DEF IndInv, TypeOK
    <3>4. TypeOK'
      BY <2>3, <3>1, <3>3 DEF IndInv, TypeOK, systemVars
    <3>5. Life' /\ SignalsOwnChild'
      BY <3>1 DEF IndInv, Life, SignalsOwnChild, systemVars
    <3> QED
      BY <3>2, <3>4, <3>5 DEF IndInv
  <2> QED
    BY <2>1, <2>2, <2>3 DEF Destroy
<1>6. CASE \E s \in SourceLists, t \in Timeouts : Poll(s, t)
  <2>1. PICK s \in SourceLists, t \in Timeouts : Poll(s, t)
    BY <1>6
  <2>2. /\ pc' \in {"returned", "poll"}
        /\ UNCHANGED <<objectVars, systemVars, cur, actions, step, freeing>>
    BY <2>1, Zenon DEF Poll, Return
  <2> QED
    BY <2>2, OtherCallStep DEF objectVars, systemVars, IndInv, TypeOK
<1> QED
  BY <1>1, <1>2, <1>3, <1>4, <1>5, <1>6 DEF CallNext

LEMMA HangupStep ==
  ASSUME IndInv, PollHangup
  PROVE  IndInv'
<1>1. /\ held[cur] = {}
      /\ \/ pc = "wait" /\ pc' = "waitpid"
         \/ pc = "stop.wait" /\ pc' = "stop.waitpid"
      /\ UNCHANGED <<objectVars, systemVars, cur, actions, step, freeing, ret>>
  BY DEF PollHangup, InWait
<1>2. Where' /\ Progress' /\ StopOutcome'
  BY <1>1 DEF IndInv, Where, InCall, InWait, InWaitpid, Progress, StopOutcome, objectVars, systemVars
<1> QED
  BY <1>1, <1>2, CallStep DEF objectVars, systemVars, IndInv, TypeOK

LEMMA TimeoutStep ==
  ASSUME IndInv, PollTimesOut
  PROVE  IndInv'
<1>1. /\ ret' = REPROC_ETIMEDOUT
      /\ \/ pc = "wait" /\ pc' = "returned" /\ step' = step
         \/ pc = "stop.wait" /\ pc' = "stop" /\ step' = step + 1
      /\ UNCHANGED <<objectVars, systemVars, cur, actions, freeing>>
  BY DEF PollTimesOut, WaitReturns, InWait
<1>2. step \in 1 .. 4
  BY DEF IndInv, TypeOK
<1>3. pc = "stop.wait" => step <= 3 /\ actions[step].action # "noop"
  BY DEF IndInv, Progress
<1>4. step' \in 1 .. 4
  BY <1>1, <1>2, <1>3
<1>5. Progress'
  BY <1>1, <1>2, <1>3 DEF Progress
<1>6. Where' /\ StopOutcome'
  BY <1>1 DEF IndInv, Where, InCall, InWait, InWaitpid, StopOutcome, objectVars, systemVars
<1> QED
  BY <1>1, <1>4, <1>5, <1>6, CallStep DEF objectVars, systemVars, IndInv, TypeOK

LEMMA WaitpidStep ==
  ASSUME IndInv, Waitpid
  PROVE  IndInv'
<1>1. InWaitpid /\ cur \in Process /\ status[cur] = STATUS_IN_PROGRESS
  BY DEF Waitpid, IndInv, Where, InCall
<1>2. UNCHANGED <<stop, deadline, freed, code, held, pending, stray, cur, actions, freeing>>
  BY DEF Waitpid
<1>3. CASE /\ os[cur] = "zombie"
           /\ os' = [os EXCEPT ![cur] = "collected"]
           /\ exitPipe' = [exitPipe EXCEPT ![cur] = FALSE]
           /\ status' = [status EXCEPT ![cur] = code[cur]]
           /\ WaitReturns(code[cur])
  <2>1. code[cur] \in Statuses /\ code[cur] >= 0 /\ code[cur] # REPROC_ETIMEDOUT
    <3>1. code[cur] \in Statuses
      BY <1>1, <1>3 DEF IndInv, Life
    <3> QED
      BY <3>1, StatusRange
  <2>2. ret' = code[cur] /\ pc' \in {"returned", "stopped"} /\ step' = step
    <3>1. pc \in {"waitpid", "stop.waitpid"}
      BY <1>1 DEF InWaitpid
    <3> QED
      BY <1>3, <2>1, <3>1, Zenon DEF WaitReturns, InWait
  <2>3. TypeOK'
    <3>1. exitPipe' \in [Process -> BOOLEAN]
      BY <1>3 DEF IndInv, TypeOK
    <3>2. /\ os' \in [Process -> {"none", "absent", "alive", "zombie", "collected", "stolen"}]
          /\ status' \in [Process -> Statuses \cup {STATUS_NOT_STARTED, STATUS_IN_PROGRESS}]
      BY <1>3, <2>1 DEF IndInv, TypeOK
    <3> QED
      BY <1>2, <2>2, <3>1, <3>2 DEF IndInv, TypeOK
  <2>4. Life'
    <3>1. TypeOK /\ Life
      BY DEF IndInv
    <3>2. \A p \in Process : p # cur => os'[p] = os[p] /\ status'[p] = status[p]
      BY <1>1, <1>3, <3>1 DEF TypeOK
    <3>3. os'[cur] = "collected" /\ status'[cur] = code[cur]
      BY <1>1, <1>3, <3>1 DEF TypeOK
    <3>4. pending[cur] = {}
      BY <1>1, <1>3, <3>1 DEF TypeOK, Life
    <3>5. code[cur] # STATUS_NOT_STARTED
      BY <2>1 DEF STATUS_NOT_STARTED
    <3> QED
      BY <1>1, <1>2, <1>3, <2>1, <3>1, <3>2, <3>3, <3>4, <3>5 DEF Life
  <2>5. status'[cur] = code[cur]
    BY <1>1, <1>3 DEF IndInv, TypeOK
  <2>6. os'[cur] = "collected" /\ \A p \in Process \ {cur} : os'[p] = os[p]
    BY <1>1, <1>3 DEF IndInv, TypeOK
  <2>7. Where' /\ Progress' /\ StopOutcome'
    BY <1>1, <1>2, <2>1, <2>2, <2>5, <2>6 DEF Where, InCall, InWait, InWaitpid, Progress,
       StopOutcome, STATUS_NOT_STARTED
  <2>8. SignalsOwnChild'
    BY <1>1, <1>2, <1>3, <2>6 DEF IndInv, TypeOK, SignalsOwnChild
  <2> QED
    BY <2>3, <2>4, <2>7, <2>8 DEF IndInv
<1>4. CASE /\ os[cur] \notin {"alive", "zombie", "absent"}
           /\ WaitReturns(ECHILD)
           /\ UNCHANGED <<os, exitPipe, status>>
  <2>1. os[cur] = "stolen"
    <3>1. os[cur] \notin {"none", "collected"}
      BY <1>1, StatusRange DEF IndInv, Life, STATUS_NOT_STARTED, STATUS_IN_PROGRESS
    <3> QED
      BY <1>1, <1>4, <3>1 DEF IndInv, TypeOK
  <2>2. ret' = ECHILD /\ pc' \in {"returned", "stopped"} /\ step' = step
    BY <1>1, <1>4, StatusRange DEF WaitReturns, InWait, InWaitpid
  <2>3. Where' /\ Progress' /\ StopOutcome'
    BY <1>1, <1>2, <1>4, <2>1, <2>2 DEF IndInv, Where, InCall, InWait, InWaitpid, Progress, StopOutcome
  <2> QED
    BY <1>2, <1>4, <2>2, <2>3, CallStep DEF IndInv, TypeOK
<1> QED
  BY <1>3, <1>4 DEF Waitpid

LEMMA NoopStep ==
  ASSUME IndInv, StopNoop
  PROVE  IndInv'
<1>1. /\ pc = "stop" /\ pc' = "stop" /\ step <= 3 /\ actions[step].action = "noop"
      /\ step' = step + 1 /\ ret' = 0
      /\ UNCHANGED <<objectVars, systemVars, cur, actions, freeing>>
  BY DEF StopNoop, Doing
<1>2. step \in 1 .. 4
  BY DEF IndInv, TypeOK
<1>3. step' \in 1 .. 4
  BY <1>1, <1>2
<1>4. Progress'
  BY <1>1, <1>2 DEF Progress
<1>5. Where' /\ StopOutcome'
  BY <1>1 DEF IndInv, Where, InCall, InWait, InWaitpid, StopOutcome, objectVars
<1> QED
  BY <1>1, <1>3, <1>4, <1>5, CallStep DEF objectVars, systemVars, IndInv, TypeOK

(* Going to the wait of an action, or straight to the end.                 *)
LEMMA ThenWaitPlace ==
  ASSUME IndInv, ThenWait, pc = "stop", step <= 3, actions[step].action # "noop",
         UNCHANGED <<objectVars, cur, actions, step, os, held>>
  PROVE  /\ pc' \in {"stop.wait", "stopped"}
         /\ Where' /\ Progress' /\ StopOutcome'
<1>1. \/ status[cur] >= 0 /\ pc' = "stopped" /\ ret' = status[cur]
      \/ ~(status[cur] >= 0) /\ pc' = "stop.wait"
  BY Zenon DEF ThenWait
<1>2. cur \in Process /\ status[cur] # STATUS_NOT_STARTED
  BY DEF IndInv, Where, InCall
<1>3. ~(status[cur] >= 0) => status[cur] = STATUS_IN_PROGRESS
  BY <1>2, StatusRange DEF IndInv, TypeOK
<1>4. status[cur] >= 0 => os[cur] \in {"collected", "absent"}
  BY <1>2 DEF IndInv, Life
<1> QED
  BY <1>1, <1>2, <1>3, <1>4 DEF Where, InCall, InWait, InWaitpid, Progress, StopOutcome, objectVars

LEMMA StopNextStep ==
  ASSUME IndInv, StopNext
  PROVE  IndInv'
<1>1. CASE StopNoop
  BY <1>1, NoopStep
<1>2. CASE StopWait
  <2>1. /\ pc = "stop" /\ step <= 3 /\ actions[step].action # "noop" /\ ThenWait
        /\ UNCHANGED <<objectVars, systemVars, cur, actions, step, freeing>>
    BY <1>2 DEF StopWait, Doing
  <2>2. /\ pc' \in {"stop.wait", "stopped"}
        /\ Where' /\ Progress' /\ StopOutcome'
    BY <2>1, ThenWaitPlace DEF systemVars
  <2> QED
    BY <2>1, <2>2, CallStep DEF objectVars, systemVars, IndInv, TypeOK
<1>3. CASE \E action \in {"terminate", "kill"}, sig \in {SIGTERM, SIGKILL} : StopSignal(action, sig)
  <2>1. PICK action \in {"terminate", "kill"}, sig \in {SIGTERM, SIGKILL} : StopSignal(action, sig)
    BY <1>3
  <2>2. /\ pc = "stop" /\ step <= 3 /\ actions[step].action # "noop"
        /\ SendSignal(cur, sig)
        /\ UNCHANGED <<objectVars, os, code, held, cur, actions, step, freeing>>
    BY <2>1 DEF StopSignal, Doing
  <2>3. cur \in Process /\ status[cur] # STATUS_NOT_STARTED
    BY <2>2 DEF IndInv, Where, InCall
  <2>4. CASE /\ SignalResult(cur) < 0
             /\ pc' = "stopped" /\ ret' = SignalResult(cur)
    <3>1. ret' = ESRCH /\ os[cur] = "stolen"
      BY <2>2, <2>3, <2>4, SignalOwn
    <3>2. Where' /\ Progress' /\ StopOutcome'
      BY <2>2, <2>3, <2>4, <3>1 DEF Where, InCall, InWait, InWaitpid, Progress, StopOutcome, objectVars
    <3> QED
      BY <2>2, <2>3, <2>4, <3>2, SignalStep DEF IndInv, TypeOK
  <2>5. CASE ThenWait
    <3>1. /\ pc' \in {"stop.wait", "stopped"}
          /\ Where' /\ Progress' /\ StopOutcome'
      BY <2>2, <2>5, ThenWaitPlace
    <3> QED
      BY <2>2, <2>3, <3>1, SignalStep DEF IndInv, TypeOK
  <2> QED
    BY <2>1, <2>4, <2>5, Zenon DEF StopSignal
<1>4. CASE StopEnds
  <2>1. /\ pc = "stop" /\ step > 3 /\ pc' = "stopped"
        /\ UNCHANGED <<objectVars, systemVars, cur, actions, step, freeing, ret>>
    BY <1>4 DEF StopEnds
  <2>2. step = 4
    BY <2>1 DEF IndInv, TypeOK
  <2>3. ret = IF actions[3].action = "noop" THEN 0 ELSE REPROC_ETIMEDOUT
    BY <2>1, <2>2 DEF IndInv, Progress
  <2>4. Where' /\ Progress' /\ StopOutcome'
    BY <2>1, <2>2, <2>3 DEF IndInv, Where, InCall, InWait, InWaitpid, Progress, StopOutcome,
       EndsByNoop, objectVars
  <2> QED
    BY <2>1, <2>4, CallStep DEF objectVars, systemVars, IndInv, TypeOK
<1>5. CASE Stopped
  <2>1. /\ pc' = "returned"
        /\ freed' = [freed EXCEPT ![cur] = freeing]
        /\ exitPipe' = [exitPipe EXCEPT ![cur] = @ /\ ~freeing]
        /\ UNCHANGED <<status, systemVars, cur, step, freeing>>
    BY <1>5 DEF Stopped
  <2>2. freed' \in [Process -> BOOLEAN] /\ exitPipe' \in [Process -> BOOLEAN]
    BY <2>1 DEF IndInv, TypeOK
  <2>3. TypeOK'
    BY <2>1, <2>2 DEF IndInv, TypeOK, systemVars
  <2>4. Life' /\ SignalsOwnChild'
    BY <2>1 DEF IndInv, Life, SignalsOwnChild, systemVars
  <2>5. Where' /\ Progress' /\ StopOutcome'
    BY <2>1 DEF Where, InCall, InWait, InWaitpid, Progress, StopOutcome
  <2> QED
    BY <2>3, <2>4, <2>5 DEF IndInv
<1> QED
  BY <1>1, <1>2, <1>3, <1>4, <1>5 DEF StopNext

LEMMA LibraryNextStep ==
  ASSUME IndInv, LibraryNext
  PROVE  IndInv'
<1>1. CASE Continue
  <2>1. /\ pc' = "idle" /\ cur' = NULL /\ step' = 1 /\ freeing' = FALSE
        /\ UNCHANGED <<objectVars, systemVars>>
    BY <1>1 DEF Continue
  <2>2. freeing' \in BOOLEAN
    BY <2>1, Zenon
  <2> QED
    BY <2>1, <2>2, OtherCallStep DEF objectVars, systemVars
<1>2. CASE PollReady \/ PollExpires
  <2>1. /\ pc' = "returned"
        /\ UNCHANGED <<objectVars, systemVars, cur, step, freeing>>
    BY <1>2, Zenon DEF PollReady, PollExpires, Return
  <2> QED
    BY <2>1, OtherCallStep DEF objectVars, systemVars, IndInv, TypeOK
<1> QED
  BY <1>1, <1>2, HangupStep, TimeoutStep, WaitpidStep, StopNextStep DEF LibraryNext

LEMMA NextIndInv == IndInv /\ [Next]_vars => IndInv'
<1>1. ASSUME IndInv, Next PROVE IndInv'
  BY <1>1, CallNextStep, LibraryNextStep, SystemNextStep DEF Next
<1>2. ASSUME IndInv, UNCHANGED vars PROVE IndInv'
  BY <1>2, CallStep DEF vars, objectVars, systemVars, callVars, IndInv, TypeOK, Where, InCall,
     InWait, InWaitpid, Progress, StopOutcome, EndsByNoop
<1> QED
  BY <1>1, <1>2

LEMMA Inductive == Spec => []IndInv
  BY InitIndInv, NextIndInv, PTL DEF Spec

(* The object, the call and the system keep their types, whatever numbers  *)
(* of children, timeouts and stop actions there are.                       *)
THEOREM TypeCorrect == Spec => []TypeOK
<1>1. IndInv => TypeOK
  BY DEF IndInv
<1> QED
  BY <1>1, Inductive, PTL

(* The status an object with a child keeps is the one waitpid has reported *)
(* of this child, exactly once.                                            *)
THEOREM StatusKept == Spec => []StatusIsTheChilds
<1>1. IndInv => StatusIsTheChilds
  BY DEF IndInv, Life, StatusIsTheChilds
<1> QED
  BY <1>1, Inductive, PTL

(* A signal goes to a number that is not its child's only with an object   *)
(* whose child another part of the program has waited for, or one that     *)
(* reproc_start has left without a child; never after reproc's own wait.   *)
THEOREM NoStraySignal == Spec => []SignalsOwnChild
<1>1. IndInv => SignalsOwnChild
  BY DEF IndInv
<1> QED
  BY <1>1, Inductive, PTL

(* waitpid blocks reproc_wait only for a child that has let go of the exit *)
(* pipe.                                                                   *)
THEOREM WaitBounded == Spec => []BlocksOnlyIfLetGo
<1>1. IndInv => BlocksOnlyIfLetGo
  BY DEF IndInv, Where, InCall, BlocksOnlyIfLetGo, LetGo
<1> QED
  BY <1>1, Inductive, PTL

(* reproc_stop, whatever its three actions and their timeouts, ends in one *)
(* of the ways StopOutcome names, unless its last action is                *)
(* REPROC_STOP_NOOP.                                                       *)
THEOREM StopAnswers == Spec => []StopOutcome
<1>1. IndInv => StopOutcome
  BY DEF IndInv
<1> QED
  BY <1>1, Inductive, PTL
-----------------------------------------------------------------------------
(* find_earliest_deadline, for any number of sources.  What it computes is *)
(* a recursive function: that there is one, and what it returns, is proved *)
(* by taking a least number for which it would fail.                       *)
Less == {ss \in Nat \X Nat : ss[1] < ss[2]}

LEMMA LeastNatural ==
  ASSUME NEW S \in SUBSET Nat, S # {}
  PROVE  \E x \in S : \A y \in S : x <= y
<1>1. IsWellFoundedOn(Less, Nat)
  BY NatLessThanWellFounded DEF OpToRel, Less
<1>2. PICK x \in S : \A y \in S : ~(<<y, x>> \in Less)
  BY <1>1, WFMin
<1>3. \A y \in S : <<y, x>> \in Nat \X Nat
  OBVIOUS
<1>4. \A y \in S : ~(y < x)
  BY <1>2, <1>3 DEF Less
<1>5. \A y \in S : x \in Nat /\ y \in Nat
  OBVIOUS
<1> QED
  BY <1>4, <1>5

Scans(d, n, f) ==
    f = [i \in 0 .. n |-> IF i = 0 THEN [earliest |-> 1, min |-> REPROC_INFINITE]
                          ELSE Consider(i, d[i], f[i - 1])]

LEMMA ScanExists ==
  ASSUME NEW d, NEW n \in Nat
  PROVE  \E f : Scans(d, n, f)
<1> DEFINE S == {m \in Nat : ~ \E f : Scans(d, m, f)}
<1>1. SUFFICES ASSUME S # {} PROVE FALSE
  OBVIOUS
<1>2. PICK m \in S : \A y \in S : m <= y
  BY <1>1, LeastNatural
<1>3. m # 0
  <2> DEFINE f == [i \in 0 .. 0 |-> [earliest |-> 1, min |-> REPROC_INFINITE]]
  <2>1. Scans(d, 0, f)
    BY DEF Scans
  <2> QED
    BY <1>2, <2>1
<1>4. m - 1 \in Nat /\ m - 1 \notin S
  BY <1>2, <1>3
<1>5. PICK f : Scans(d, m - 1, f)
  BY <1>4
<1> DEFINE g == [i \in 0 .. m |-> IF i = m THEN Consider(m, d[m], f[m - 1]) ELSE f[i]]
<1>6. \A i \in 0 .. m - 1 : g[i] = f[i]
  BY <1>4
<1>7. ASSUME NEW i \in 0 .. m
      PROVE  g[i] = IF i = 0 THEN [earliest |-> 1, min |-> REPROC_INFINITE]
                    ELSE Consider(i, d[i], g[i - 1])
  <2>1. CASE i = m
    <3>1. g[m] = Consider(m, d[m], f[m - 1]) /\ g[m - 1] = f[m - 1]
      BY <1>4, <1>6
    <3> HIDE DEF g
    <3> QED
      BY <1>3, <2>1, <3>1
  <2>2. CASE i # m
    <3>1. i \in 0 .. m - 1 /\ (i # 0 => i - 1 \in 0 .. m - 1)
      BY <1>4, <2>2
    <3>2. f[i] = IF i = 0 THEN [earliest |-> 1, min |-> REPROC_INFINITE]
                 ELSE Consider(i, d[i], f[i - 1])
      BY <1>5, <3>1, Zenon DEF Scans
    <3>3. g[i] = f[i] /\ (i # 0 => g[i - 1] = f[i - 1])
      BY <1>6, <3>1
    <3> HIDE DEF g
    <3> QED
      BY <3>2, <3>3
  <2> QED
    BY <2>1, <2>2
<1>8. g = [i \in 0 .. m |-> g[i]]
  OBVIOUS
<1> HIDE DEF g
<1>9. Scans(d, m, g)
  BY <1>7, <1>8, Zenon DEF Scans
<1> QED
  BY <1>2, <1>9

LEMMA EarliestScans ==
  ASSUME NEW d, Len(d) \in Nat
  PROVE  \E f : Scans(d, Len(d), f) /\ FindEarliest(d) = f[Len(d)].earliest
<1> DEFINE scan == CHOOSE f : Scans(d, Len(d), f)
<1>1. Scans(d, Len(d), scan)
  BY ScanExists, Zenon
<1>2. FindEarliest(d) = scan[Len(d)].earliest
  BY DEF FindEarliest, Scans
<1> QED
  BY <1>1, <1>2

Instant == Nat \cup {REPROC_INFINITE}

(* What is found after n sources: not later than any deadline that no      *)
(* source without one follows.                                             *)
Found(d, n, x) ==
    /\ x.min = REPROC_INFINITE \/ (x.earliest \in 1 .. n /\ d[x.earliest] \in Nat
                                   /\ x.min = Expiry(REPROC_INFINITE, d[x.earliest]))
    /\ \A k \in 1 .. n :
          d[k] \in Nat /\ (\A j \in 1 .. n : j > k => d[j] # REPROC_INFINITE)
          => x.min # REPROC_INFINITE /\ d[x.earliest] <= d[k]

LEMMA ExpiryFacts ==
  /\ Expiry(REPROC_INFINITE, REPROC_INFINITE) = REPROC_INFINITE
  /\ Expiry(REPROC_INFINITE, 0) = REPROC_DEADLINE
  /\ \A n \in Nat \ {0} : Expiry(REPROC_INFINITE, n) = n
  /\ REPROC_INFINITE = -1 /\ REPROC_DEADLINE = -2 /\ NO_SOURCE = -3
BY DEF Expiry, REPROC_INFINITE, REPROC_DEADLINE, NO_SOURCE

LEMMA FoundNext ==
  ASSUME NEW d, NEW n \in Nat \ {0}, NEW x, Found(d, n - 1, x),
         d[n] \in Instant \cup {NO_SOURCE}
  PROVE  Found(d, n, Consider(n, d[n], x))
<1> DEFINE current == Expiry(REPROC_INFINITE, d[n])
           y == Consider(n, d[n], x)
<1>1. CASE d[n] = NO_SOURCE
  <2>1. y = x
    BY <1>1 DEF Consider
  <2> QED
    BY <1>1, <2>1, ExpiryFacts DEF Found
<1>2. CASE d[n] = REPROC_INFINITE
  <2>1. y = x \/ y = [earliest |-> n, min |-> REPROC_INFINITE]
    BY <1>2, ExpiryFacts DEF Consider
  <2>2. \A k \in 1 .. n : ~(d[k] \in Nat /\ \A j \in 1 .. n : j > k => d[j] # REPROC_INFINITE)
    BY <1>2, ExpiryFacts
  <2>3. y.min = REPROC_INFINITE \/ (y.earliest \in 1 .. n /\ d[y.earliest] \in Nat
                                    /\ y.min = Expiry(REPROC_INFINITE, d[y.earliest]))
    BY <2>1 DEF Found
  <2> QED
    BY <2>2, <2>3 DEF Found
<1>3. CASE d[n] \in Nat
  <2>1. CASE y = x
    <3>1. x.min # REPROC_INFINITE
      BY <1>3, <2>1, ExpiryFacts DEF Consider
    <3>2. /\ x.earliest \in 1 .. n - 1 /\ d[x.earliest] \in Nat
          /\ x.min = Expiry(REPROC_INFINITE, d[x.earliest])
      BY <3>1 DEF Found
    <3>3. x.min = REPROC_DEADLINE \/ x.min <= current \/ x = [earliest |-> n, min |-> current]
      <4>1. x.min \in Int /\ current \in Int
        BY <1>3, <3>2, ExpiryFacts
      <4> QED
        BY <1>3, <2>1, <3>1, <4>1, ExpiryFacts DEF Consider
    <3>4. d[x.earliest] <= d[n]
      <4>1. CASE d[x.earliest] = 0
        BY <1>3, <4>1
      <4>2. CASE d[x.earliest] # 0
        BY <1>3, <3>2, <3>3, <4>2, ExpiryFacts
      <4> QED
        BY <4>1, <4>2
    <3>5. ASSUME NEW k \in 1 .. n, d[k] \in Nat,
                 \A j \in 1 .. n : j > k => d[j] # REPROC_INFINITE
          PROVE  d[x.earliest] <= d[k]
      BY <3>4, <3>5 DEF Found
    <3> QED
      BY <2>1, <3>1, <3>2, <3>5 DEF Found
  <2>2. CASE y # x
    <3>1. /\ y = [earliest |-> n, min |-> current]
          /\ x.min # REPROC_DEADLINE
          /\ x.min = REPROC_INFINITE \/ current < x.min
      BY <2>2 DEF Consider
    <3>2. y.earliest = n /\ y.min = current /\ current # REPROC_INFINITE
      BY <1>3, <3>1, ExpiryFacts
    <3>3. ASSUME NEW k \in 1 .. n, d[k] \in Nat,
                 \A j \in 1 .. n : j > k => d[j] # REPROC_INFINITE
          PROVE  d[n] <= d[k]
      <4>1. CASE k = n
        BY <1>3, <4>1
      <4>2. CASE k # n
        <5>1. /\ x.min # REPROC_INFINITE /\ d[x.earliest] <= d[k]
              /\ x.earliest \in 1 .. n - 1 /\ d[x.earliest] \in Nat
              /\ x.min = Expiry(REPROC_INFINITE, d[x.earliest])
          BY <3>3, <4>2 DEF Found
        <5>2. d[x.earliest] # 0 /\ x.min = d[x.earliest]
          BY <3>1, <5>1, ExpiryFacts
        <5>3. d[n] <= d[x.earliest]
          BY <1>3, <3>1, <5>1, <5>2, ExpiryFacts
        <5> QED
          BY <1>3, <3>3, <5>1, <5>3
      <4> QED
        BY <4>1, <4>2
    <3> HIDE DEF current, y
    <3>4. y.min = Expiry(REPROC_INFINITE, d[n]) /\ n \in 1 .. n
      BY <3>2 DEF current
    <3>5. Found(d, n, y)
      BY <1>3, <3>2, <3>3, <3>4 DEF Found
    <3> QED
      BY <3>5 DEF y
  <2> QED
    BY <2>1, <2>2
<1> QED
  BY <1>1, <1>2, <1>3 DEF Instant

LEMMA ScanFinds ==
  ASSUME NEW d, NEW n \in Nat, NEW f, Scans(d, n, f),
         \A i \in 1 .. n : d[i] \in Instant \cup {NO_SOURCE}
  PROVE  Found(d, n, f[n])
<1> DEFINE S == {m \in 0 .. n : ~Found(d, m, f[m])}
<1>1. SUFFICES ASSUME S # {} PROVE FALSE
  OBVIOUS
<1>2. PICK m \in S : \A y \in S : m <= y
  <2>1. S \in SUBSET Nat
    OBVIOUS
  <2> HIDE DEF S
  <2> QED
    BY <1>1, <2>1, LeastNatural
<1>3. f[m] = IF m = 0 THEN [earliest |-> 1, min |-> REPROC_INFINITE]
             ELSE Consider(m, d[m], f[m - 1])
  BY <1>2, Zenon DEF Scans
<1>4. CASE m = 0
  BY <1>2, <1>3, <1>4 DEF Found
<1>5. CASE m # 0
  <2>1. m - 1 \in 0 .. n /\ m - 1 \notin S /\ m \in 1 .. n /\ m \in Nat \ {0}
    BY <1>2, <1>5
  <2>2. Found(d, m - 1, f[m - 1])
    BY <2>1
  <2>3. Found(d, m, Consider(m, d[m], f[m - 1]))
    BY <2>1, <2>2, FoundNext
  <2> QED
    BY <1>2, <1>3, <1>5, <2>3
<1> QED
  BY <1>4, <1>5

LEMMA EarliestFacts ==
  ASSUME NEW d, Len(d) \in Nat, NEW k \in 1 .. Len(d), d[k] \in Nat,
         \A i \in 1 .. Len(d) : d[i] \in Instant \cup {NO_SOURCE},
         \A j \in 1 .. Len(d) : j > k => d[j] # REPROC_INFINITE
  PROVE  /\ FindEarliest(d) \in 1 .. Len(d)
         /\ d[FindEarliest(d)] \in Nat /\ d[FindEarliest(d)] <= d[k]
<1>1. PICK f : Scans(d, Len(d), f) /\ FindEarliest(d) = f[Len(d)].earliest
  BY EarliestScans
<1>2. Found(d, Len(d), f[Len(d)])
  BY <1>1, ScanFinds
<1> QED
  BY <1>1, <1>2 DEF Found
-----------------------------------------------------------------------------
(* reproc_poll's sleep and the deadlines run down together.                *)
Sleep ==
    pc = "poll" =>
        /\ sources \in Seq(Process \cup {NULL})
        /\ \A i \in DOMAIN sources :
              sources[i] # NULL /\ deadline[sources[i]] # REPROC_INFINITE /\ ~Masked(i)
              => until \in Nat /\ until <= deadline[sources[i]]

PollInv == deadline \in [Process -> Instant] /\ Sleep

LEMMA NearerFacts ==
  /\ \A t \in Nat : Nearer(t) \in Nat
  /\ Nearer(REPROC_INFINITE) = REPROC_INFINITE
  /\ \A t \in Instant : /\ Nearer(t) \in Instant
                        /\ Nearer(t) = REPROC_INFINITE <=> t = REPROC_INFINITE
  /\ \A t, u \in Nat : t <= u => Nearer(t) <= Nearer(u)
BY DEF Nearer, Instant, REPROC_INFINITE

LEMMA ExpiryWithin ==
  ASSUME NEW t \in Nat \cup {REPROC_INFINITE}, NEW d \in Nat, Expiry(t, d) # REPROC_DEADLINE
  PROVE  Expiry(t, d) \in Nat /\ Expiry(t, d) <= d
<1>1. d # 0
  BY DEF Expiry, REPROC_INFINITE
<1>2. Expiry(t, d) = IF t = REPROC_INFINITE THEN d ELSE Lesser(t, d)
  BY <1>1 DEF Expiry, REPROC_INFINITE
<1> QED
  BY <1>2 DEF Lesser

LEMMA PollStep ==
  ASSUME PollInv, NEW s \in SourceLists, NEW t \in Timeouts, Poll(s, t)
  PROVE  PollInv'
<1> DEFINE d == [i \in DOMAIN s |-> DeadlineOf(s[i])]
           e == FindEarliest(d)
<1>1. s \in Seq(Process \cup {NULL}) /\ NULL \notin Process /\ t \in Nat \cup {REPROC_INFINITE}
  BY ReprocAssumption
<1>2. Len(s) \in Nat /\ DOMAIN s = 1 .. Len(s) /\ Len(d) = Len(s)
  BY <1>1
<1>3. UNCHANGED deadline
  BY DEF Poll, objectVars
<1>4. ASSUME pc' = "poll"
      PROVE  /\ sources' = s
             /\ LET limit == IF s[e] = NULL THEN REPROC_INFINITE ELSE deadline[s[e]]
                IN  until' = Expiry(t, limit) /\ Expiry(t, limit) # REPROC_DEADLINE
  BY <1>4, Zenon DEF Poll, Return
<1>5. ASSUME pc' = "poll", NEW i \in DOMAIN s,
             s[i] # NULL, deadline[s[i]] # REPROC_INFINITE,
             \A j \in DOMAIN s : j > i /\ s[j] # NULL => deadline[s[j]] # REPROC_INFINITE
      PROVE  until' \in Nat /\ until' <= deadline[s[i]]
  <2>1. \A j \in 1 .. Len(s) : /\ d[j] = IF s[j] = NULL THEN NO_SOURCE ELSE deadline[s[j]]
                               /\ s[j] # NULL => s[j] \in Process
    BY <1>1, <1>2 DEF DeadlineOf
  <2> HIDE DEF d
  <2>2. /\ d[i] \in Nat /\ d[i] = deadline[s[i]]
        /\ \A j \in 1 .. Len(d) : d[j] \in Instant \cup {NO_SOURCE}
        /\ \A j \in 1 .. Len(d) : j > i => d[j] # REPROC_INFINITE
    BY <1>2, <1>5, <2>1 DEF PollInv, Instant, NO_SOURCE, REPROC_INFINITE
  <2>3. e \in 1 .. Len(s) /\ d[e] \in Nat /\ d[e] <= d[i]
    BY <1>2, <1>5, <2>2, EarliestFacts
  <2> HIDE DEF e
  <2>4. s[e] # NULL /\ d[e] = deadline[s[e]]
    BY <2>1, <2>3 DEF NO_SOURCE
  <2>5. until' = Expiry(t, d[e]) /\ Expiry(t, d[e]) # REPROC_DEADLINE
    BY <1>4, <1>5, <2>4 DEF e
  <2>6. until' \in Nat /\ until' <= d[e]
    BY <1>1, <2>3, <2>5, ExpiryWithin
  <2> QED
    BY <2>2, <2>3, <2>6
<1> HIDE DEF e, d
<1>6. Sleep'
  <2>1. SUFFICES ASSUME pc' = "poll" PROVE Sleep'
    BY DEF Sleep
  <2>2. sources' = s
    BY <1>4, <2>1
  <2>3. \A i \in DOMAIN s : ~Masked(i)' <=>
            \A j \in DOMAIN s : j > i /\ s[j] # NULL => deadline[s[j]] # REPROC_INFINITE
    BY <1>3, <2>2, Zenon DEF Masked
  <2> QED
    BY <1>1, <1>3, <1>5, <2>1, <2>2, <2>3 DEF Sleep
<1> QED
  BY <1>3, <1>6 DEF PollInv

LEMMA TickStep ==
  ASSUME PollInv, Tick
  PROVE  PollInv'
<1>1. /\ deadline' = [p \in Process |-> Nearer(deadline[p])]
      /\ UNCHANGED <<pc, sources>>
      /\ pc = "poll" => until' = Nearer(until)
  BY DEF Tick, pollVars
<1>2. deadline \in [Process -> Instant]
  BY DEF PollInv
<1>3. deadline' \in [Process -> Instant]
  BY <1>1, <1>2, NearerFacts
<1>4. \A p \in Process : /\ deadline[p] \in Instant /\ deadline'[p] = Nearer(deadline[p])
                         /\ deadline'[p] = REPROC_INFINITE <=> deadline[p] = REPROC_INFINITE
  BY <1>1, <1>2, NearerFacts
<1>5. ASSUME pc = "poll"
      PROVE  Sleep'
  <2>1. sources \in Seq(Process \cup {NULL}) /\ NULL \notin Process
    BY <1>5, ReprocAssumption DEF PollInv, Sleep
  <2>2. \A j \in DOMAIN sources : sources[j] # NULL => sources[j] \in Process
    BY <2>1
  <2>3. \A i \in DOMAIN sources : Masked(i)' <=> Masked(i)
    BY <1>1, <1>4, <2>2 DEF Masked
  <2>4. ASSUME NEW i \in DOMAIN sources, sources[i] # NULL,
               deadline'[sources[i]] # REPROC_INFINITE, ~Masked(i)
        PROVE  until' \in Nat /\ until' <= deadline'[sources[i]]
    <3>1. sources[i] \in Process /\ deadline[sources[i]] \in Nat
      BY <1>4, <2>2, <2>4 DEF Instant
    <3>2. until \in Nat /\ until <= deadline[sources[i]]
      BY <1>4, <1>5, <2>4, <3>1 DEF PollInv, Sleep
    <3> QED
      BY <1>1, <1>4, <1>5, <3>1, <3>2, NearerFacts
  <2> QED
    BY <1>1, <2>1, <2>3, <2>4 DEF Sleep
<1> QED
  BY <1>1, <1>3, <1>5 DEF PollInv, Sleep

LEMMA StartPollStep ==
  ASSUME PollInv, NEW p \in Process, Start(p)
  PROVE  PollInv'
<1>1. PICK d \in Deadlines[p] :
        deadline' = [deadline EXCEPT ![p] = IF d = 0 THEN REPROC_INFINITE ELSE d]
  BY DEF Start
<1>2. d \in Nat
  BY <1>1, ReprocAssumption
<1>3. pc' = "returned"
  BY DEF Start, Return
<1> QED
  BY <1>1, <1>2, <1>3 DEF PollInv, Sleep, Instant

(* The rest neither sleeps in poll() nor touches a deadline.               *)
LEMMA OtherPollStep ==
  ASSUME PollInv, UNCHANGED deadline,
         pc' = "poll" => UNCHANGED <<pc, sources, until>>
  PROVE  PollInv'
BY DEF PollInv, Sleep, Masked

LEMMA CallPollStep ==
  ASSUME PollInv, CallNext
  PROVE  PollInv'
<1>1. CASE \E p \in Process : Terminate(p) \/ Kill(p)
           \/ (\E t \in Timeouts \cup {REPROC_DEADLINE} : Wait(p, t))
           \/ (\E s \in StopArgs[p] : Stop(p, s)) \/ Destroy(p)
  <2>1. UNCHANGED deadline /\ pc' # "poll"
    BY <1>1, Zenon DEF Terminate, Kill, Signal, AssertFails, Wait, Stop, Destroy, Return,
       objectVars
  <2> QED
    BY <2>1, OtherPollStep
<1> QED
  BY <1>1, StartPollStep, PollStep, Zenon DEF CallNext

LEMMA StopPollStep ==
  ASSUME PollInv, StopNext
  PROVE  PollInv'
<1>1. UNCHANGED deadline /\ pc' # "poll"
  BY Zenon DEF StopNext, StopNoop, StopWait, StopEnds, Stopped, StopSignal, Doing, ThenWait,
     objectVars
<1> QED
  BY <1>1, OtherPollStep

LEMMA LibraryPollStep ==
  ASSUME PollInv, LibraryNext
  PROVE  PollInv'
<1>1. CASE Continue \/ PollReady \/ PollExpires
  <2>1. UNCHANGED deadline /\ pc' # "poll"
    BY <1>1, Zenon DEF Continue, PollReady, PollExpires, Return, objectVars
  <2> QED
    BY <2>1, OtherPollStep
<1>2. CASE PollHangup \/ PollTimesOut \/ Waitpid
  <2>1. UNCHANGED deadline /\ pc' # "poll"
    BY <1>2, Zenon DEF PollHangup, PollTimesOut, Waitpid, WaitReturns, objectVars
  <2> QED
    BY <2>1, OtherPollStep
<1> QED
  BY <1>1, <1>2, StopPollStep DEF LibraryNext

LEMMA SystemPollStep ==
  ASSUME PollInv, SystemNext
  PROVE  PollInv'
<1>1. CASE WaitInterrupted \/ PollInterrupted \/ WaitpidAny \/ WaitpidNone \/ StopAsserts
  <2>1. UNCHANGED deadline /\ pc' # "poll"
    BY <1>1, Zenon DEF WaitInterrupted, PollInterrupted, WaitpidAny, WaitpidNone, StopAsserts,
       AssertFails, WaitReturns, Return, objectVars
  <2> QED
    BY <2>1, OtherPollStep
<1>2. CASE \E p \in Process : \/ \E c \in ExitCode : ChildExits(p, c)
                             \/ \E sig \in {SIGTERM, SIGKILL} : Deliver(p, sig)
                             \/ ChildLetsGo(p) \/ ChildForks(p) \/ HeirEnds(p) \/ HostReaps(p)
  <2>1. UNCHANGED <<objectVars, pollVars, callVars>>
    BY <1>2, Zenon DEF ChildExits, Deliver, ChildLetsGo, ChildForks, HeirEnds, HostReaps
  <2> QED
    BY <2>1, OtherPollStep DEF objectVars, pollVars, callVars
<1> QED
  BY <1>1, <1>2, TickStep, Zenon DEF SystemNext

(* Whatever its sources are, reproc_poll does not sleep past the deadline  *)
(* of any process that no process without a deadline comes after.          *)
THEOREM DeadlineKept == Spec => []PollKeepsDeadline
<1>1. Init => PollInv
  BY DEF Init, PollInv, Sleep, Instant
<1>2. PollInv /\ [Next]_vars => PollInv'
  <2>1. ASSUME PollInv, UNCHANGED vars PROVE PollInv'
    BY <2>1, OtherPollStep DEF vars, objectVars, pollVars, callVars
  <2> QED
    BY <2>1, CallPollStep, LibraryPollStep, SystemPollStep DEF Next
<1>3. PollInv => PollKeepsDeadline
  BY DEF PollInv, Sleep, PollKeepsDeadline, REPROC_INFINITE
<1> QED
  BY <1>1, <1>2, <1>3, PTL DEF Spec
=============================================================================
