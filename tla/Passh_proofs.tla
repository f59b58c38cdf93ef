---------------------------- MODULE Passh_proofs ----------------------------
(***************************************************************************)
(* Proofs about Passh, for any options, any number of stops and any output. *)
(***************************************************************************)
EXTENDS Passh, TLAPS

PCs == {"top", "wait", "reset", "clock", "select", "read", "done", "exited"}
Codes == Children \cup {"none", "sys", "general", "timeout", "max_tries"}

LEMMA OptTypes ==
  ASSUME TypeOK
  PROVE  /\ opt \in [tries : Nat, fatal_more_tries : BOOLEAN, timeout : Nat,
                     fatal_no_prompt : BOOLEAN, auto_yesno : BOOLEAN]
         /\ opt.tries \in Nat /\ opt.timeout \in Nat
BY PasshAssumption DEF TypeOK

LEMMA InitIndInv == Init => IndInv
<1> SUFFICES ASSUME Init PROVE IndInv
  OBVIOUS
<1>1. TypeOK
  <2>1. 0 \in 0 .. MaxStops /\ 0 \in 0 .. MaxChunks
    BY PasshAssumption
  <2>2. /\ life \in [Children -> {"running", "stopped", "dead"}]
        /\ report \in [Children -> {"none", "stopped", "continued", "exited"}]
    BY DEF Init
  <2>3. /\ waited \in [who : Children, what : {"none", "stopped", "continued", "exited"}]
        /\ replies \in [yes : Nat, password : Nat]
        /\ pty \in Seq({"text", "prompt", "yesno"})
    BY DEF Init, Children
  <2> QED
    BY <2>1, <2>2, <2>3 DEF Init, TypeOK
<1>2. AtMostTries /\ AllPrinted /\ Statuses
  BY <1>1, OptTypes DEF Init, AtMostTries, AllPrinted, Statuses
<1>3. Tries
  BY <1>1, OptTypes DEF Init, Tries
<1> QED
  BY <1>1, <1>2, <1>3 DEF IndInv

-----------------------------------------------------------------------------
\* The steps of the system

LEMMA ChangeKeeps ==
  ASSUME IndInv, NEW p \in Children,
         NEW state \in {"running", "stopped", "dead"},
         NEW what \in {"stopped", "continued", "exited"},
         (what = "exited") <=> (state = "dead"), life[p] # "dead",
         Change(p, state, what), stops' \in 0 .. MaxStops
  PROVE  IndInv'
<1>1. /\ life' = [life EXCEPT ![p] = state]
      /\ report' = [report EXCEPT ![p] = what]
      /\ signals' = signals + 1
      /\ UNCHANGED <<pty, written, stdin, opt, pc, SIGCHLDed, waited, age, code>>
      /\ UNCHANGED <<seen, replies, given_up, now_interactive, stdin_eof, printed>>
  BY DEF Change, loopVars
<1>2. TypeOK'
  BY <1>1 DEF IndInv, TypeOK
<1>3. \A q \in Children : life[q] = "dead" => life'[q] = "dead"
  BY <1>1 DEF IndInv, TypeOK
<1>4. \A q \in Children : report'[q] = "exited" => life'[q] = "dead"
  BY <1>1 DEF IndInv, TypeOK, Statuses
<1>5. waited.who \in Children /\ "child" \in Children
  BY DEF IndInv, TypeOK, Children
<1>6. Statuses'
  BY <1>1, <1>3, <1>4, <1>5 DEF IndInv, Statuses
<1>7. AtMostTries' /\ AllPrinted' /\ Tries'
  BY <1>1 DEF IndInv, AtMostTries, AllPrinted, Tries
<1> QED
  BY <1>2, <1>6, <1>7 DEF IndInv

LEMMA StopsKeep ==
  ASSUME IndInv, NEW p \in Children, Stop(p) \/ Continue(p) \/ Die(p)
  PROVE  IndInv'
<1>1. stops \in 0 .. MaxStops /\ MaxStops \in Nat
  BY PasshAssumption DEF IndInv, TypeOK
<1>2. CASE Stop(p)
  BY <1>1, <1>2, ChangeKeeps DEF Stop
<1>3. CASE Continue(p)
  BY <1>1, <1>3, ChangeKeeps DEF Continue
<1>4. CASE Die(p)
  BY <1>1, <1>4, ChangeKeeps DEF Die
<1> QED
  BY <1>2, <1>3, <1>4

LEMMA DeliverKeeps ==
  ASSUME IndInv, Deliver
  PROVE  IndInv'
<1>1. /\ signals' \in 0 .. signals - 1 /\ SIGCHLDed' = TRUE /\ pc # "exited"
      /\ UNCHANGED <<life, report, pty, written, stops, stdin, opt, waited, age>>
      /\ UNCHANGED <<seen, replies, given_up, now_interactive, stdin_eof, printed>>
      /\ \/ pc' = "exited" /\ code' = "sys"
         \/ UNCHANGED <<pc, code>>
  BY DEF Deliver, Interrupt, Exit, loopVars
<1>2. signals' \in Nat
  BY <1>1 DEF IndInv, TypeOK
<1>3. TypeOK'
  BY <1>1, <1>2 DEF IndInv, TypeOK
<1>4. AtMostTries' /\ Tries'
  BY <1>1 DEF IndInv, AtMostTries, Tries
<1>5. AllPrinted' /\ Statuses'
  BY <1>1 DEF IndInv, AllPrinted, Statuses
<1> QED
  BY <1>3, <1>4, <1>5 DEF IndInv

LEMMA WriteKeeps ==
  ASSUME IndInv, Write
  PROVE  IndInv'
<1>1. PICK chunk \in {"text", "prompt", "yesno"} : pty' = Append(pty, chunk)
  BY DEF Write
<1>2. /\ life["child"] = "running" /\ written < MaxChunks /\ written' = written + 1
      /\ UNCHANGED <<life, report, signals, stops, stdin, opt, pc, SIGCHLDed, waited, age, code>>
      /\ UNCHANGED <<seen, replies, given_up, now_interactive, stdin_eof, printed>>
  BY DEF Write, loopVars
<1>3. /\ pty \in Seq({"text", "prompt", "yesno"})
      /\ pty' \in Seq({"text", "prompt", "yesno"}) /\ Len(pty') = Len(pty) + 1
      /\ Len(pty) \in Nat /\ printed \in Nat /\ written \in Nat
  BY <1>1, PasshAssumption DEF IndInv, TypeOK
<1>4. written' \in 0 .. MaxChunks
  BY <1>2, PasshAssumption DEF IndInv, TypeOK
<1>5. TypeOK'
  BY <1>2, <1>3, <1>4 DEF IndInv, TypeOK
<1>6. AtMostTries' /\ Tries'
  BY <1>2 DEF IndInv, AtMostTries, Tries
<1>7. code # "child"
  BY <1>2 DEF IndInv, Statuses
<1>8. printed' + Len(pty') = written'
  <2>1. printed + Len(pty) = written
    BY DEF IndInv, Statuses
  <2> QED
    BY <1>2, <1>3, <2>1
<1>9. AllPrinted' /\ Statuses'
  BY <1>2, <1>7, <1>8 DEF IndInv, AllPrinted, Statuses
<1> QED
  BY <1>5, <1>6, <1>9 DEF IndInv

LEMMA TypeKeeps ==
  ASSUME IndInv, Type \/ Tick
  PROVE  IndInv'
<1>1. /\ UNCHANGED <<life, report, signals, pty, written, stops, opt, pc, SIGCHLDed, waited, code>>
      /\ UNCHANGED <<seen, replies, given_up, now_interactive, stdin_eof, printed>>
      /\ stdin' \in {"none", "data", "eof"} /\ age' \in Nat
  BY DEF Type, Tick, loopVars, systemVars, IndInv, TypeOK
<1>2. TypeOK'
  BY <1>1 DEF IndInv, TypeOK
<1>3. AtMostTries' /\ Tries' /\ AllPrinted' /\ Statuses'
  BY <1>1 DEF IndInv, AtMostTries, Tries, AllPrinted, Statuses
<1> QED
  BY <1>2, <1>3 DEF IndInv

-----------------------------------------------------------------------------
\* The steps of big_loop

\* A step that goes on to another place of the loop, or exits, and says nothing of a child
LEMMA MoveKeeps ==
  ASSUME IndInv, pc' \in PCs, code' \in Codes \ Children, SIGCHLDed' \in BOOLEAN,
         pc # "exited",
         code' # "none" => pc' \in {"done", "exited"},
         pc' # "reset",
         UNCHANGED <<life, report, signals, pty, written, stops, opt, waited, age>>,
         UNCHANGED <<seen, replies, given_up, printed>>,
         stdin' \in {"none", "data", "eof"},
         now_interactive' \in BOOLEAN, stdin_eof' \in BOOLEAN
  PROVE  IndInv'
<1>1. TypeOK'
  BY DEF IndInv, TypeOK, PCs, Codes
<1>2. AtMostTries' /\ Tries'
  BY DEF IndInv, AtMostTries, Tries
<1>3. AllPrinted' /\ Statuses'
  BY DEF IndInv, AllPrinted, Statuses, Children
<1> QED
  BY <1>1, <1>2, <1>3 DEF IndInv

LEMMA MovesKeep ==
  ASSUME IndInv, CheckSignal \/ Clock \/ SelectNothing \/ SelectPty \/ SelectStdin
                 \/ ReadNothing \/ EofFails
  PROVE  IndInv'
<1>1. code \in Codes /\ SIGCHLDed \in BOOLEAN /\ stdin \in {"none", "data", "eof"}
      /\ now_interactive \in BOOLEAN /\ stdin_eof \in BOOLEAN
  BY DEF IndInv, TypeOK, Codes
<1>2. pc \notin {"done", "exited"} => code = "none"
  BY DEF IndInv, Statuses
<1>3. {"none", "timeout", "general"} \subseteq Codes \ Children
  BY DEF Codes, Children
<1>4. CASE CheckSignal
  BY <1>1, <1>2, <1>3, <1>4, MoveKeeps DEF CheckSignal, systemVars, loopVars, PCs
<1>5. CASE Clock
  <2>1. /\ pc = "clock"
        /\ \/ pc' = "exited" /\ code' = "timeout"
           \/ pc' = "select" /\ UNCHANGED code
        /\ UNCHANGED <<systemVars, opt, SIGCHLDed, waited, age, loopVars>>
    BY <1>5 DEF Clock, Exit
  <2> QED
    BY <1>1, <1>2, <1>3, <2>1, MoveKeeps DEF systemVars, loopVars, PCs
<1>6. CASE SelectNothing
  BY <1>1, <1>2, <1>3, <1>6, MoveKeeps DEF SelectNothing, systemVars, loopVars, PCs
<1>7. CASE SelectPty
  BY <1>1, <1>2, <1>3, <1>7, MoveKeeps DEF SelectPty, systemVars, loopVars, PCs
<1>8. CASE SelectStdin
  <2>1. /\ pc = "select" /\ pc' = "top" /\ stdin' = "none"
        /\ stdin_eof' \in BOOLEAN /\ now_interactive' \in BOOLEAN
        /\ UNCHANGED <<life, report, signals, pty, written, stops, opt, SIGCHLDed, waited,
                      age, seen, replies, given_up, printed, code>>
    BY <1>1, <1>8 DEF SelectStdin
  <2> QED
    BY <1>1, <1>2, <1>3, <2>1, MoveKeeps DEF PCs
<1>9. CASE ReadNothing
  BY <1>1, <1>2, <1>3, <1>9, MoveKeeps DEF ReadNothing, systemVars, loopVars, PCs
<1>10. CASE EofFails
  BY <1>1, <1>2, <1>3, <1>10, MoveKeeps DEF EofFails, systemVars, loopVars, PCs
<1> QED
  BY <1>4, <1>5, <1>6, <1>7, <1>8, <1>9, <1>10

LEMMA WaitPidKeeps ==
  ASSUME IndInv, WaitPid
  PROVE  IndInv'
<1>1. PICK p \in Children :
        /\ report[p] # "none"
        /\ waited' = [who |-> p, what |-> report[p]]
        /\ report' = [report EXCEPT ![p] = "none"]
  BY DEF WaitPid
<1>2. /\ pc = "wait" /\ pc' = "reset"
      /\ UNCHANGED <<life, signals, pty, written, stops, stdin, opt, SIGCHLDed, age, code>>
      /\ UNCHANGED <<seen, replies, given_up, now_interactive, stdin_eof, printed>>
  BY DEF WaitPid, loopVars
<1>3. report[p] \in {"none", "stopped", "continued", "exited"}
  BY DEF IndInv, TypeOK
<1>4. waited' \in [who : Children, what : {"none", "stopped", "continued", "exited"}]
  BY <1>1, <1>3
<1>5. TypeOK'
  BY <1>1, <1>2, <1>4 DEF IndInv, TypeOK
<1>6. waited'.what = "exited" => life[waited'.who] = "dead"
  BY <1>1 DEF IndInv, Statuses
<1>7. \A q \in Children : report'[q] = "exited" => life[q] = "dead"
  BY <1>1 DEF IndInv, TypeOK, Statuses
<1>8. Statuses'
  BY <1>2, <1>6, <1>7 DEF IndInv, Statuses
<1>9. AtMostTries' /\ Tries' /\ AllPrinted'
  BY <1>2 DEF IndInv, AtMostTries, Tries, AllPrinted
<1> QED
  BY <1>5, <1>8, <1>9 DEF IndInv

LEMMA ResetKeeps ==
  ASSUME IndInv, Reset
  PROVE  IndInv'
<1>1. /\ pc = "reset" /\ SIGCHLDed' = FALSE
      /\ \/ waited.what = "exited" /\ pc' = "done" /\ code' = waited.who
         \/ pc' = "clock" /\ UNCHANGED code
      /\ UNCHANGED <<life, report, signals, pty, written, stops, stdin, opt, waited, age>>
      /\ UNCHANGED <<seen, replies, given_up, now_interactive, stdin_eof, printed>>
  BY DEF Reset, systemVars, loopVars
<1>2. waited.who \in Children
  BY DEF IndInv, TypeOK
<1>3. TypeOK'
  BY <1>1, <1>2 DEF IndInv, TypeOK
<1>4. code = "none"
  BY <1>1 DEF IndInv, Statuses
<1>5. Statuses'
  BY <1>1, <1>4 DEF IndInv, Statuses
<1>6. AtMostTries' /\ Tries' /\ AllPrinted'
  BY <1>1, <1>4 DEF IndInv, AtMostTries, Tries, AllPrinted
<1> QED
  BY <1>3, <1>5, <1>6 DEF IndInv

LEMMA ReadKeeps ==
  ASSUME IndInv, Read
  PROVE  IndInv'
<1>1. /\ pc = "read" /\ pty # <<>> /\ pty' = Tail(pty) /\ printed' = printed + 1
      /\ \/ Asks(Head(pty)) = "prompt" /\ Prompted
         \/ /\ \/ replies' = [replies EXCEPT !.yes = replies.yes + 1]
               \/ replies' = replies
            /\ given_up' = GivesUp
            /\ UNCHANGED <<pc, age, seen, code>>
      /\ UNCHANGED <<life, report, signals, written, stops, stdin, opt, SIGCHLDed, waited,
                    now_interactive, stdin_eof>>
  BY Zenon DEF Read
<1>2. /\ pty \in Seq({"text", "prompt", "yesno"}) /\ Len(pty) \in Nat
      /\ printed \in Nat /\ written \in 0 .. MaxChunks /\ MaxChunks \in Nat
      /\ seen \in Nat /\ replies \in [yes : Nat, password : Nat]
      /\ opt.tries \in Nat
  BY PasshAssumption, OptTypes DEF IndInv, TypeOK
<1>3. pty' \in Seq({"text", "prompt", "yesno"}) /\ Len(pty') = Len(pty) - 1 /\ Len(pty) >= 1
  BY <1>1, <1>2
<1>4. printed + Len(pty) = written
  BY DEF IndInv, Statuses
<1>5. printed' + Len(pty') = written' /\ printed' \in 0 .. MaxChunks
  BY <1>1, <1>2, <1>3, <1>4
<1>6. code = "none" /\ seen = replies.password
  BY <1>1 DEF IndInv, Statuses, Tries
<1>7. opt.tries # 0 => replies.password <= opt.tries
  BY DEF IndInv, AtMostTries
<1>8. CASE Asks(Head(pty)) = "prompt" /\ Prompted
  <2>1. ~given_up
    BY <1>8 DEF Asks, GivesUp
  <2>2. /\ seen' = seen + 1 /\ age' = 0
        /\ \/ /\ opt.fatal_more_tries /\ opt.tries # 0 /\ seen' > opt.tries
              /\ pc' = "exited" /\ code' = "max_tries"
              /\ UNCHANGED <<replies, given_up>>
           \/ /\ ~(opt.fatal_more_tries /\ opt.tries # 0 /\ seen' > opt.tries)
              /\ replies' = [replies EXCEPT !.password = replies.password + 1]
              /\ given_up' = (~opt.fatal_more_tries /\ opt.tries # 0 /\ seen' >= opt.tries)
              /\ UNCHANGED <<pc, code>>
    BY <1>8, Zenon DEF Prompted, Exit
  <2>3. opt.tries # 0 /\ ~opt.fatal_more_tries => seen < opt.tries
    BY <1>2, <2>1 DEF IndInv, Tries
  <2>4. /\ replies' \in [yes : Nat, password : Nat]
        /\ given_up' \in BOOLEAN
        /\ \/ /\ replies'.password = replies.password /\ pc' = "exited"
              /\ code' = "max_tries" /\ opt.tries # 0 /\ opt.fatal_more_tries
              /\ seen + 1 > opt.tries
           \/ /\ replies'.password = replies.password + 1 /\ UNCHANGED <<pc, code>>
              /\ opt.tries # 0 /\ opt.fatal_more_tries => seen + 1 <= opt.tries
              /\ opt.tries # 0 /\ ~opt.fatal_more_tries /\ seen + 1 >= opt.tries => given_up'
    <3>1. given_up \in BOOLEAN
      BY DEF IndInv, TypeOK
    <3>2. given_up' \in BOOLEAN
      BY <2>2, <3>1, Zenon
    <3>3. CASE /\ opt.fatal_more_tries /\ opt.tries # 0 /\ seen' > opt.tries
               /\ pc' = "exited" /\ code' = "max_tries"
               /\ UNCHANGED <<replies, given_up>>
      BY <1>2, <2>2, <3>2, <3>3
    <3>4. CASE /\ ~(opt.fatal_more_tries /\ opt.tries # 0 /\ seen' > opt.tries)
               /\ replies' = [replies EXCEPT !.password = replies.password + 1]
               /\ given_up' = (~opt.fatal_more_tries /\ opt.tries # 0 /\ seen' >= opt.tries)
               /\ UNCHANGED <<pc, code>>
      <4>1. /\ replies' \in [yes : Nat, password : Nat]
            /\ replies'.password = replies.password + 1
        BY <1>2, <3>4
      <4>2. given_up' <=> (~opt.fatal_more_tries /\ opt.tries # 0 /\ seen' >= opt.tries)
        BY <3>4, Zenon
      <4>3. opt.tries # 0 /\ opt.fatal_more_tries => seen + 1 <= opt.tries
        BY <1>2, <2>2, <3>4
      <4>4. opt.tries # 0 /\ ~opt.fatal_more_tries /\ seen + 1 >= opt.tries => given_up'
        BY <2>2, <4>2
      <4> QED
        BY <3>2, <3>4, <4>1, <4>3, <4>4
    <3> QED
      BY <2>2, <3>3, <3>4, Zenon
  <2>5. TypeOK'
    <3>1. seen' \in Nat /\ age' \in Nat
      BY <1>2, <2>2
    <3>2. pc' \in PCs /\ code' \in Codes
      BY <2>4 DEF IndInv, TypeOK, PCs, Codes
    <3>3. /\ UNCHANGED <<life, report, signals, written, stops, stdin, opt, SIGCHLDed, waited,
                        now_interactive, stdin_eof>>
          /\ pty' \in Seq({"text", "prompt", "yesno"})
          /\ printed' \in 0 .. MaxChunks
      BY <1>1, <1>3, <1>5
    <3>4. replies' \in [yes : Nat, password : Nat] /\ given_up' \in BOOLEAN
      BY <2>4
    <3> QED
      BY <3>1, <3>2, <3>3, <3>4 DEF IndInv, TypeOK, PCs, Codes
  <2>6. AtMostTries'
    BY <1>1, <1>2, <1>6, <1>7, <2>2, <2>3, <2>4 DEF AtMostTries
  <2>7. Tries'
    BY <1>1, <1>2, <1>6, <2>2, <2>4 DEF Tries
  <2>8. AllPrinted' /\ Statuses'
    BY <1>1, <1>5, <1>6, <2>4 DEF IndInv, AllPrinted, Statuses
  <2> QED
    BY <2>5, <2>6, <2>7, <2>8 DEF IndInv
<1>9. CASE /\ \/ replies' = [replies EXCEPT !.yes = replies.yes + 1]
              \/ replies' = replies
           /\ given_up' = GivesUp
           /\ UNCHANGED <<pc, age, seen, code>>
  <2>1. replies' \in [yes : Nat, password : Nat] /\ replies'.password = replies.password
    BY <1>2, <1>9
  <2>2. given_up' \in BOOLEAN /\ (given_up => given_up')
    BY <1>9, Zenon DEF GivesUp
  <2>3. TypeOK'
    <3>1. UNCHANGED <<life, report, signals, written, stops, stdin, opt, SIGCHLDed, waited,
                      now_interactive, stdin_eof, pc, age, seen, code>>
      BY <1>1, <1>9
    <3>2. pty' \in Seq({"text", "prompt", "yesno"}) /\ printed' \in 0 .. MaxChunks
      BY <1>3, <1>5
    <3> QED
      BY <2>1, <2>2, <3>1, <3>2 DEF IndInv, TypeOK
  <2>4. AtMostTries' /\ Tries'
    BY <1>1, <1>6, <1>9, <2>1, <2>2 DEF IndInv, AtMostTries, Tries
  <2>5. AllPrinted' /\ Statuses'
    BY <1>1, <1>5, <1>6, <1>9 DEF IndInv, AllPrinted, Statuses
  <2> QED
    BY <2>3, <2>4, <2>5 DEF IndInv
<1> QED
  BY <1>1, <1>8, <1>9

LEMMA DoneKeeps ==
  ASSUME IndInv, Done
  PROVE  IndInv'
<1>1. /\ pc = "done" /\ pc' = "exited" /\ pty' = <<>> /\ printed' = printed + Len(pty)
      /\ UNCHANGED <<life, report, signals, written, stops, stdin, opt, SIGCHLDed, waited,
                    age, seen, replies, given_up, now_interactive, stdin_eof, code>>
  BY DEF Done
<1>2. printed + Len(pty) = written /\ written \in 0 .. MaxChunks
  BY DEF IndInv, TypeOK, Statuses
<1>3. pty' \in Seq({"text", "prompt", "yesno"}) /\ Len(pty') = 0 /\ printed' = written
  BY <1>1, <1>2
<1>4. TypeOK'
  BY <1>1, <1>2, <1>3 DEF IndInv, TypeOK
<1>5. AtMostTries' /\ Tries'
  BY <1>1 DEF IndInv, AtMostTries, Tries
<1>6. AllPrinted'
  BY <1>1, <1>3 DEF AllPrinted
<1>7. printed' + Len(pty') = written'
  BY <1>1, <1>2, <1>3, PasshAssumption
<1>8. Statuses'
  BY <1>1, <1>7 DEF IndInv, Statuses
<1> QED
  BY <1>4, <1>5, <1>6, <1>8 DEF IndInv

-----------------------------------------------------------------------------
LEMMA StepKeeps ==
  ASSUME IndInv, [Next]_vars
  PROVE  IndInv'
<1>1. CASE System
  BY <1>1, StopsKeep, WriteKeeps, TypeKeeps DEF System
<1>2. CASE Deliver
  BY <1>2, DeliverKeeps
<1>3. CASE Loop \/ EofFails
  BY <1>3, MovesKeep, WaitPidKeeps, ResetKeeps, ReadKeeps, DoneKeeps DEF Loop
<1>4. CASE UNCHANGED vars
  BY <1>4 DEF vars, systemVars, loopVars, IndInv, TypeOK, AtMostTries, AllPrinted, Tries, Statuses
<1> QED
  BY <1>1, <1>2, <1>3, <1>4 DEF Next

\* The strengthened invariant of big_loop, for any options and any command.
THEOREM Invariance == Spec => []IndInv
<1>1. Init => IndInv
  BY InitIndInv
<1>2. IndInv /\ [Next]_vars => IndInv'
  BY StepKeeps
<1> QED
  BY <1>1, <1>2, PTL DEF Spec

\* The types of big_loop's state.
THEOREM TypeCorrect == Spec => []TypeOK
<1>1. IndInv => TypeOK
  BY DEF IndInv
<1> QED
  BY <1>1, Invariance, PTL

\* For every N, -c N limits the passwords that are sent to N.
THEOREM TriesLimited == Spec => []AtMostTries
<1>1. IndInv => AtMostTries
  BY DEF IndInv
<1> QED
  BY <1>1, Invariance, PTL

\* Whatever the command writes and whenever it ends, its output has been copied
\* when passh exits with its status.
THEOREM NothingLost == Spec => []AllPrinted
<1>1. IndInv => AllPrinted
  BY DEF IndInv
<1> QED
  BY <1>1, Invariance, PTL
=============================================================================
