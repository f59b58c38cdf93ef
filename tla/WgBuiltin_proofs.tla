-------------------------- MODULE WgBuiltin_proofs --------------------------
(***************************************************************************)
(* Proofs about WgBuiltin, for any number of shells and interfaces.        *)
(***************************************************************************)
EXTENDS WgBuiltin, TLAPS

\* Between two states, nothing of shell d's own has changed
Same(d) == /\ pc'[d] = pc[d] /\ command'[d] = command[d] /\ name'[d] = name[d]
           /\ result'[d] = result[d] /\ unread'[d] = unread[d]
           /\ listed'[d] = listed[d] /\ printed'[d] = printed[d]
           /\ fault'[d] <=> fault[d]

\* touched[d] keeps account of what others do to the links that concern d
Watched(d) ==
  /\ touched[d] => touched'[d]
  /\ Running(d) /\ ~touched'[d] =>
       \A n \in Names : Concerns(d, n) => link'[n] = link[n]
  /\ pc[d] = "names" /\ ~touched'[d] => (changed'[d] <=> changed[d])

LEMMA InitIndInv == Init => IndInv
<1> SUFFICES ASSUME Init PROVE IndInv
  OBVIOUS
<1>1. TypeOK
  BY DEF Init, TypeOK
<1>2. OnlyARaceFails /\ BareHasCause
  BY DEF Init, OnlyARaceFails, BareHasCause
<1>3. \A s \in Shells : Reasons(s) /\ Lists(s)
  BY DEF Init, Reasons, Lists
<1> QED
  BY <1>1, <1>2, <1>3 DEF IndInv

\* Another shell's step keeps what is said of d
LEMMA OtherShell ==
  ASSUME TypeOK, NEW d \in Shells, Reasons(d), Lists(d), Same(d), Watched(d)
  PROVE  Reasons(d)' /\ Lists(d)'
<1>1. name[d] \in Names
  BY DEF TypeOK
<1>2. pc[d] \in {"add", "set", "del"} /\ ~touched'[d] => link'[name[d]] = link[name[d]]
  BY <1>1 DEF Watched, Running, Concerns
<1>3. Reasons(d)'
  BY <1>2 DEF Reasons, Same, Watched
<1>4. pc[d] \in {"names", "get"} /\ ~touched'[d] => Present(link') = Present(link)
  BY DEF Watched, Running, Concerns, Reasons, Present
<1>5. Lists(d)'
  BY <1>4 DEF Lists, Same, Watched
<1> QED
  BY <1>3, <1>5

LEMMA KeepLinkWatched ==
  ASSUME KeepLink, NEW d \in Shells
  PROVE  Watched(d)
BY DEF KeepLink, Watched

LEMMA PutLinkWatched ==
  ASSUME TypeOK, NEW s \in Shells, NEW n \in Names, NEW v, PutLink(s, n, v),
         NEW d \in Shells, d # s, Reasons(d)
  PROVE  Watched(d)
<1>1. /\ touched'[d] = (touched[d] \/ (d # s /\ Running(d) /\ Concerns(d, n)))
      /\ changed'[d] = (\/ changed[d]
                        \/ pc[d] = "names" /\ (v = "absent") # (link[n] = "absent"))
      /\ link' = [link EXCEPT ![n] = v]
  BY DEF PutLink
<1>2. touched[d] => touched'[d]
  BY <1>1
<1>3. ASSUME Running(d), ~touched'[d], NEW m \in Names, Concerns(d, m)
      PROVE  link'[m] = link[m]
  <2>1. m # n
    BY <1>1, <1>3
  <2> QED
    BY <1>1, <2>1 DEF TypeOK
<1>4. pc[d] = "names" => Running(d) /\ Concerns(d, n)
  BY DEF Reasons, Running, Concerns
<1>5. pc[d] = "names" => touched'[d]
  BY <1>1, <1>4
<1> QED
  BY <1>2, <1>3, <1>5 DEF Watched

LEMMA PutLinkTypes ==
  ASSUME TypeOK, NEW s \in Shells, NEW n \in Names,
         NEW v \in Shells \cup {"absent", "bare", "other"}, PutLink(s, n, v)
  PROVE  /\ link' \in [Names -> Shells \cup {"absent", "bare", "other"}]
         /\ touched' \in [Shells -> BOOLEAN]
         /\ changed' \in [Shells -> BOOLEAN]
         /\ touched'[s] <=> touched[s]
         /\ link'[n] = v
         /\ \A m \in Names : m # n => link'[m] = link[m]
<1>1. link' = [link EXCEPT ![n] = v]
  BY DEF PutLink
<1>2. link' \in [Names -> Shells \cup {"absent", "bare", "other"}]
  BY <1>1 DEF TypeOK
<1>3. touched' = [t \in Shells |-> touched[t] \/ (t # s /\ Running(t) /\ Concerns(t, n))]
  BY DEF PutLink
<1>4. touched' \in [Shells -> BOOLEAN]
  BY <1>3, Zenon DEF TypeOK
<1>5. changed' \in [Shells -> BOOLEAN]
  BY Zenon DEF PutLink, TypeOK
<1>6. touched'[s] <=> touched[s]
  BY <1>3
<1>7. link'[n] = v /\ \A m \in Names : m # n => link'[m] = link[m]
  BY <1>1 DEF TypeOK
<1> QED
  BY <1>2, <1>4, <1>5, <1>6, <1>7

\* An interface left bare has its cause still, or again in s
LEMMA BareKept ==
  ASSUME TypeOK, BareHasCause, NEW s \in Shells,
         \A d \in Shells : d # s => Same(d),
         \A n \in Names : link'[n] = "bare" =>
           \/ link[n] = "bare" /\ (name[s] = n => pc[s] \notin {"set", "dead"})
           \/ /\ name'[s] = n /\ command'[s] = "up"
              /\ pc'[s] = "set" \/ (pc'[s] = "dead" /\ fault'[s])
  PROVE  BareHasCause'
<1> SUFFICES ASSUME NEW n \in Names, link'[n] = "bare"
             PROVE  \E w \in Shells : /\ name'[w] = n /\ command'[w] = "up"
                                      /\ \/ pc'[w] = "set"
                                         \/ pc'[w] = "dead" /\ fault'[w]
  BY DEF BareHasCause
<1>1. CASE /\ name'[s] = n /\ command'[s] = "up"
           /\ pc'[s] = "set" \/ (pc'[s] = "dead" /\ fault'[s])
  BY <1>1
<1>2. CASE link[n] = "bare" /\ (name[s] = n => pc[s] \notin {"set", "dead"})
  <2>1. PICK w \in Shells : /\ name[w] = n /\ command[w] = "up"
                            /\ \/ pc[w] = "set"
                               \/ pc[w] = "dead" /\ fault[w]
    BY <1>2 DEF BareHasCause
  <2>2. w # s
    BY <1>2, <2>1
  <2>3. Same(w)
    BY <2>2
  <2> QED
    BY <2>1, <2>3 DEF Same
<1> QED
  BY <1>1, <1>2

\* What a step of shell s has to show
LEMMA OneShellMoves ==
  ASSUME IndInv, NEW s \in Shells, TypeOK',
         \A d \in Shells : d # s => Same(d) /\ Watched(d),
         Reasons(s)', Lists(s)',
         result'[s] \in {"failure", "exit"} /\ ~fault'[s] => touched'[s],
         BareHasCause'
  PROVE  IndInv'
<1>1. \A d \in Shells : d # s => Reasons(d)' /\ Lists(d)'
  BY OtherShell DEF IndInv
<1>2. OnlyARaceFails'
  BY DEF IndInv, OnlyARaceFails, Same, Watched
<1> QED
  BY <1>1, <1>2 DEF IndInv

-----------------------------------------------------------------------------
\* The steps that leave the links alone

LEMMA StartKeeps ==
  ASSUME IndInv, NEW s \in Shells, Command(s)
  PROVE  IndInv'
<1>1. PICK c \in {"up", "down", "devices"}, n \in Names, first \in {"exists", "names"} :
        /\ Start(s, c, n, first)
        /\ (c = "devices") <=> (first = "names")
  BY DEF Command, IndInv, TypeOK
<1>2. TypeOK'
  BY <1>1 DEF Start, Goto, IndInv, TypeOK
<1>3. \A d \in Shells : d # s => Same(d) /\ Watched(d)
  BY <1>1 DEF Start, Goto, Same, Watched, IndInv, TypeOK
<1>4. /\ pc'[s] = first /\ command'[s] = c /\ result'[s] = "none"
      /\ printed'[s] = {} /\ listed'[s] = {} /\ ~changed'[s]
      /\ unread'[s] = IF c = "devices" THEN Names ELSE {}
      /\ link' = link
  BY <1>1 DEF Start, Goto, IndInv, TypeOK
<1>5. Reasons(s)' /\ Lists(s)'
  BY <1>1, <1>4 DEF Reasons, Lists, Present
<1>6. BareHasCause'
  BY <1>1, <1>3, <1>4, BareKept DEF Start, IndInv
<1> QED
  BY <1>2, <1>3, <1>4, <1>5, <1>6, OneShellMoves

\* Exists and ExistsFails
LEMMA AnswerKeeps ==
  ASSUME IndInv, NEW s \in Shells, NEW exists \in BOOLEAN,
         pc[s] = "exists", WithExists(s, exists), KeepLink,
         UNCHANGED <<command, name, unread, listed, printed>>,
         \/ fault' = fault /\ exists = (link[name[s]] # "absent")
         \/ Fault(s) /\ exists = FALSE
  PROVE  IndInv'
<1>1. command[s] \in {"up", "down"}
  BY DEF IndInv, Reasons
<1>2. \/ /\ command[s] = "up" /\ exists
         /\ Goto(s, "set") /\ UNCHANGED result
      \/ /\ command[s] = "up" /\ ~exists
         /\ Goto(s, "add") /\ UNCHANGED result
      \/ /\ command[s] = "down" /\ exists
         /\ Goto(s, "del") /\ UNCHANGED result
      \/ /\ command[s] = "down" /\ ~exists
         /\ Finish(s, "success")
  BY <1>1 DEF WithExists
<1>3. fault' = fault \/ fault' = [fault EXCEPT ![s] = TRUE]
  BY DEF Fault
<1>4. link' = link /\ touched' = touched /\ changed' = changed
  BY DEF KeepLink
<1>5. TypeOK'
  BY <1>2, <1>3, <1>4 DEF Goto, Finish, IndInv, TypeOK
<1>6. \A d \in Shells : d # s => Same(d) /\ Watched(d)
  BY <1>2, <1>3, <1>4, KeepLinkWatched DEF Goto, Finish, Same, IndInv, TypeOK
<1>7. pc'[s] \in {"set", "add", "del", "prompt"}
  BY <1>2 DEF Goto, Finish, IndInv, TypeOK
<1>8. Reasons(s)'
  BY <1>2, <1>4, <1>7 DEF Goto, Finish, Fault, Reasons, IndInv, TypeOK
<1>9. Lists(s)'
  BY <1>7 DEF Lists
<1>10. result'[s] \in {"failure", "exit"} /\ ~fault'[s] => touched'[s]
  BY <1>2, <1>3, <1>4 DEF Goto, Finish, IndInv, TypeOK, OnlyARaceFails
<1>11. BareHasCause'
  BY <1>4, <1>6, BareKept DEF IndInv
<1> QED
  BY <1>5, <1>6, <1>8, <1>9, <1>10, <1>11, OneShellMoves

-----------------------------------------------------------------------------
\* The steps of `up` and `down` that may change the link

Labels == {"prompt", "exists", "add", "set", "del", "names", "get", "dead", "hung"}
Results == {"none", "success", "failure", "exit"}
Values == Shells \cup {"absent", "bare", "other"}

LEMMA LinkFrame ==
  ASSUME IndInv, NEW s \in Shells, NEW v \in Values,
         NEW label \in Labels, NEW r \in Results, NEW f \in BOOLEAN,
         KeepLink \/ PutLink(s, name[s], v),
         Goto(s, label),
         result' = [result EXCEPT ![s] = r],
         fault' = [fault EXCEPT ![s] = f],
         UNCHANGED <<command, name, unread, listed, printed>>
  PROVE  /\ TypeOK'
         /\ \A d \in Shells : d # s => Same(d) /\ Watched(d)
         /\ touched'[s] <=> touched[s]
         /\ pc'[s] = label /\ result'[s] = r /\ (fault'[s] <=> f)
         /\ command'[s] = command[s] /\ name'[s] = name[s]
<1>1. name[s] \in Names
  BY DEF IndInv, TypeOK
<1>2. /\ link' \in [Names -> Values]
      /\ touched' \in [Shells -> BOOLEAN]
      /\ changed' \in [Shells -> BOOLEAN]
      /\ touched'[s] <=> touched[s]
  <2>1. CASE KeepLink
    BY <2>1 DEF KeepLink, IndInv, TypeOK, Values
  <2>2. CASE PutLink(s, name[s], v)
    BY <2>2, <1>1, PutLinkTypes DEF IndInv, Values
  <2> QED
    BY <2>1, <2>2
<1>3. TypeOK'
  BY <1>2 DEF Goto, IndInv, TypeOK, Labels, Results, Values
<1>4. ASSUME NEW d \in Shells, d # s PROVE Same(d) /\ Watched(d)
  <2>1. Same(d)
    BY <1>4 DEF Goto, Same, IndInv, TypeOK
  <2>2. Watched(d)
    BY <1>1, <1>4, KeepLinkWatched, PutLinkWatched DEF IndInv
  <2> QED
    BY <2>1, <2>2
<1>5. pc'[s] = label /\ result'[s] = r /\ (fault'[s] <=> f)
  BY DEF Goto, IndInv, TypeOK
<1> QED
  BY <1>2, <1>3, <1>4, <1>5

\* A step that ends the command of s, which was not to leave an interface bare
LEMMA EndKeeps ==
  ASSUME IndInv, NEW s \in Shells, NEW v \in Values,
         NEW label \in {"prompt", "dead", "hung"}, NEW r \in Results, NEW f \in BOOLEAN,
         KeepLink \/ PutLink(s, name[s], v),
         Goto(s, label),
         result' = [result EXCEPT ![s] = r],
         fault' = [fault EXCEPT ![s] = f],
         UNCHANGED <<command, name, unread, listed, printed>>,
         r \in {"failure", "exit"} /\ ~f => touched[s],
         link'[name[s]] = "bare" =>
           \/ pc[s] \notin {"set", "dead"} /\ link[name[s]] = "bare"
           \/ label = "dead" /\ f /\ command[s] = "up"
  PROVE  IndInv'
<1>1. /\ TypeOK'
      /\ \A d \in Shells : d # s => Same(d) /\ Watched(d)
      /\ touched'[s] <=> touched[s]
      /\ pc'[s] = label /\ result'[s] = r /\ (fault'[s] <=> f)
      /\ command'[s] = command[s] /\ name'[s] = name[s]
  <2>1. label \in Labels
    BY DEF Labels
  <2> QED
    BY <2>1, LinkFrame
<1>2. Reasons(s)' /\ Lists(s)'
  BY <1>1 DEF Reasons, Lists
<1>3. name[s] \in Names
  BY DEF IndInv, TypeOK
<1>4. \A n \in Names : n # name[s] => link'[n] = link[n]
  <2>1. CASE KeepLink
    BY <2>1 DEF KeepLink
  <2>2. CASE PutLink(s, name[s], v)
    BY <2>2, <1>3, PutLinkTypes DEF IndInv, Values
  <2> QED
    BY <2>1, <2>2
<1>5. BareHasCause'
  <2>1. \A n \in Names : link'[n] = "bare" =>
          \/ link[n] = "bare" /\ (name[s] = n => pc[s] \notin {"set", "dead"})
          \/ /\ name'[s] = n /\ command'[s] = "up"
             /\ pc'[s] = "set" \/ (pc'[s] = "dead" /\ fault'[s])
    BY <1>1, <1>4
  <2> QED
    BY <2>1, <1>1, BareKept DEF IndInv
<1> QED
  BY <1>1, <1>2, <1>5, OneShellMoves

LEMMA ResultIsItself ==
  ASSUME IndInv, NEW s \in Shells
  PROVE  /\ result = [result EXCEPT ![s] = result[s]] /\ result[s] \in Results
         /\ fault = [fault EXCEPT ![s] = fault[s]] /\ fault[s] \in BOOLEAN
<1>1. result = [result EXCEPT ![s] = result[s]] /\ result[s] \in Results
  BY DEF IndInv, TypeOK, Results
<1>2. fault \in [Shells -> BOOLEAN]
  BY DEF IndInv, TypeOK
<1>3. fault = [fault EXCEPT ![s] = fault[s]] /\ fault[s] \in BOOLEAN
  BY <1>2, Zenon
<1> QED
  BY <1>1, <1>3

LEMMA HangKeeps ==
  ASSUME IndInv, NEW s \in Shells, Hang(s)
  PROVE  IndInv'
<1>1. result[s] \in {"failure", "exit"} /\ ~fault[s] => touched[s]
  BY DEF IndInv, OnlyARaceFails
<1>2. link'[name[s]] = "bare" => pc[s] \notin {"set", "dead"} /\ link[name[s]] = "bare"
  BY DEF Hang, KeepLink
<1>3. "absent" \in Values
  BY DEF Values
<1> QED
  BY <1>1, <1>2, <1>3, ResultIsItself, EndKeeps DEF Hang

LEMMA AddKeeps ==
  ASSUME IndInv, NEW s \in Shells, Add(s)
  PROVE  IndInv'
<1>1. name[s] \in Names /\ command[s] = "up" /\ pc[s] = "add"
  BY DEF Add, IndInv, TypeOK, Reasons
<1>2. CASE link[name[s]] = "absent"
  <2>1. PutLink(s, name[s], "bare") /\ Goto(s, "set")
    BY <1>2 DEF Add
  <2>2. /\ TypeOK'
        /\ \A d \in Shells : d # s => Same(d) /\ Watched(d)
        /\ touched'[s] <=> touched[s]
        /\ pc'[s] = "set" /\ result'[s] = result[s] /\ (fault'[s] <=> fault[s])
        /\ command'[s] = command[s] /\ name'[s] = name[s]
    <3>1. "bare" \in Values /\ "set" \in Labels
      BY DEF Values, Labels
    <3> QED
      BY <1>2, <2>1, <3>1, ResultIsItself, LinkFrame DEF Add
  <2>3. /\ link'[name[s]] = "bare"
        /\ \A m \in Names : m # name[s] => link'[m] = link[m]
    BY <1>1, <2>1, PutLinkTypes DEF IndInv
  <2>4. Reasons(s)' /\ Lists(s)'
    BY <1>1, <2>2, <2>3 DEF Reasons, Lists
  <2>5. result'[s] \in {"failure", "exit"} /\ ~fault'[s] => touched'[s]
    BY <2>2 DEF IndInv, OnlyARaceFails
  <2>6. \A n \in Names : link'[n] = "bare" =>
          \/ link[n] = "bare" /\ (name[s] = n => pc[s] \notin {"set", "dead"})
          \/ /\ name'[s] = n /\ command'[s] = "up"
             /\ pc'[s] = "set" \/ (pc'[s] = "dead" /\ fault'[s])
    BY <1>1, <2>2, <2>3
  <2>7. BareHasCause'
    BY <2>2, <2>6, BareKept DEF IndInv
  <2> QED
    BY <2>2, <2>4, <2>5, <2>7, OneShellMoves
<1>3. CASE link[name[s]] # "absent"
  <2>1. KeepLink /\ Die(s)
    BY <1>3 DEF Add
  <2>2. ~fault[s] => touched[s]
    BY <1>1, <1>3 DEF IndInv, Reasons
  <2>3. link'[name[s]] = "bare" => pc[s] \notin {"set", "dead"} /\ link[name[s]] = "bare"
    BY <1>1, <2>1 DEF KeepLink
  <2>4. "absent" \in Values /\ "exit" \in Results
    BY DEF Values, Results
  <2> QED
    BY <2>1, <2>2, <2>3, <2>4, ResultIsItself, EndKeeps DEF Add, Die
<1> QED
  BY <1>2, <1>3

LEMMA SetKeeps ==
  ASSUME IndInv, NEW s \in Shells, Set(s)
  PROVE  IndInv'
<1>1. name[s] \in Names /\ pc[s] = "set"
  BY DEF Set, IndInv, TypeOK
<1>2. CASE link[name[s]] # "absent"
  <2>1. PutLink(s, name[s], s) /\ Finish(s, "success")
    BY <1>2 DEF Set
  <2>2. link'[name[s]] = s
    BY <1>1, <2>1, PutLinkTypes DEF IndInv
  <2>3. s # "bare" /\ s \in Values /\ "success" \in Results
    BY BuiltinAssumption DEF Values, Results
  <2> QED
    BY <2>1, <2>2, <2>3, ResultIsItself, EndKeeps DEF Set, Finish
<1>3. CASE link[name[s]] = "absent"
  <2>1. KeepLink /\ Die(s)
    BY <1>3 DEF Set
  <2>2. touched[s]
    BY <1>1, <1>3 DEF IndInv, Reasons
  <2>3. link'[name[s]] # "bare"
    BY <1>3, <2>1 DEF KeepLink
  <2>4. "absent" \in Values /\ "exit" \in Results
    BY DEF Values, Results
  <2> QED
    BY <2>1, <2>2, <2>3, <2>4, ResultIsItself, EndKeeps DEF Set, Die
<1> QED
  BY <1>2, <1>3

LEMMA DelKeeps ==
  ASSUME IndInv, NEW s \in Shells, Del(s)
  PROVE  IndInv'
<1>1. name[s] \in Names /\ pc[s] = "del"
  BY DEF Del, IndInv, TypeOK
<1>2. "absent" \in Values /\ "success" \in Results /\ "failure" \in Results
  BY DEF Values, Results
<1>3. CASE link[name[s]] # "absent"
  <2>1. PutLink(s, name[s], "absent") /\ Finish(s, "success")
    BY <1>3 DEF Del
  <2>2. link'[name[s]] = "absent"
    BY <1>1, <1>2, <2>1, PutLinkTypes DEF IndInv, Values
  <2> QED
    BY <1>2, <2>1, <2>2, ResultIsItself, EndKeeps DEF Del, Finish
<1>4. CASE link[name[s]] = "absent"
  <2>1. KeepLink /\ Finish(s, "failure")
    BY <1>4 DEF Del
  <2>2. touched[s]
    BY <1>1, <1>4 DEF IndInv, Reasons
  <2>3. link'[name[s]] # "bare"
    BY <1>4, <2>1 DEF KeepLink
  <2> QED
    BY <1>2, <2>1, <2>2, <2>3, ResultIsItself, EndKeeps DEF Del, Finish
<1> QED
  BY <1>3, <1>4

\* AddFails, SetFails, DelFails, NamesFail and KeyFails: an error ends the command
LEMMA FailKeeps ==
  ASSUME IndInv, NEW s \in Shells,
         AddFails(s) \/ SetFails(s) \/ DelFails(s) \/ NamesFail(s) \/ KeyFails(s)
  PROVE  IndInv'
<1>1. name[s] \in Names
  BY DEF IndInv, TypeOK
<1>2. /\ {"absent", "bare", s} \subseteq Values
      /\ {"failure", "exit"} \subseteq Results
  BY DEF Values, Results
<1>3. CASE AddFails(s)
  <2>1. /\ pc[s] = "add" /\ command[s] = "up"
        /\ KeepLink \/ PutLink(s, name[s], "bare")
        /\ Die(s) /\ Fault(s)
    BY <1>3 DEF AddFails, Refused, IndInv, Reasons
  <2> QED
    BY <1>2, <1>3, <2>1, EndKeeps DEF AddFails, Die, Fault
<1>4. CASE SetFails(s)
  <2>1. /\ pc[s] = "set" /\ command[s] = "up"
        /\ KeepLink \/ PutLink(s, name[s], s)
        /\ Die(s) /\ Fault(s)
    BY <1>4 DEF SetFails, Refused, IndInv, Reasons
  <2> QED
    BY <1>2, <1>4, <2>1, EndKeeps DEF SetFails, Die, Fault
<1>5. CASE DelFails(s)
  <2>1. /\ pc[s] = "del"
        /\ KeepLink \/ PutLink(s, name[s], "absent")
        /\ Finish(s, "failure") /\ Fault(s)
    BY <1>5 DEF DelFails, Refused
  <2>2. link'[name[s]] = "bare" => link[name[s]] = "bare"
    <3>1. CASE KeepLink
      BY <3>1 DEF KeepLink
    <3>2. CASE PutLink(s, name[s], "absent")
      BY <1>1, <1>2, <3>2, PutLinkTypes DEF IndInv, Values
    <3> QED
      BY <2>1, <3>1, <3>2
  <2> QED
    BY <1>2, <1>5, <2>1, <2>2, EndKeeps DEF DelFails, Finish, Fault
<1>6. CASE NamesFail(s)
  <2>1. pc[s] = "names" /\ KeepLink /\ Die(s) /\ Fault(s)
    BY <1>6 DEF NamesFail
  <2>2. link'[name[s]] = "bare" => link[name[s]] = "bare"
    BY <2>1 DEF KeepLink
  <2> QED
    BY <1>2, <1>6, <2>1, <2>2, EndKeeps DEF NamesFail, Die, Fault
<1>7. CASE KeyFails(s)
  <2>1. pc[s] = "exists" /\ KeepLink /\ Die(s) /\ Fault(s)
    BY <1>7 DEF KeyFails
  <2>2. link'[name[s]] = "bare" => link[name[s]] = "bare"
    BY <2>1 DEF KeepLink
  <2> QED
    BY <1>2, <1>7, <2>1, <2>2, EndKeeps DEF KeyFails, Die, Fault
<1> QED
  BY <1>3, <1>4, <1>5, <1>6, <1>7

-----------------------------------------------------------------------------
\* The steps of `devices`

LEMMA ListNamesKeeps ==
  ASSUME IndInv, NEW s \in Shells, ListNames(s)
  PROVE  IndInv'
<1>1. PICK batch \in (SUBSET unread[s]) \ {{}} :
        /\ unread' = [unread EXCEPT ![s] = unread[s] \ batch]
        /\ listed' = [listed EXCEPT ![s] = listed[s] \cup (batch \cap Present(link))]
        /\ Goto(s, IF batch = unread[s] THEN "get" ELSE "names")
        /\ changed' = [changed EXCEPT ![s] = IF unread[s] = Names THEN FALSE ELSE changed[s]]
  BY Zenon DEF ListNames
<1>2. pc[s] = "names" /\ command[s] = "devices" /\ printed[s] = {}
  BY DEF ListNames, IndInv, Reasons, Lists
<1>3. UNCHANGED <<link, command, name, result, printed, fault, touched>>
  BY DEF ListNames, historyVars
<1>4. /\ unread[s] \subseteq Names /\ listed[s] \subseteq Names
      /\ changed[s] \in BOOLEAN /\ Present(link) \subseteq Names
  BY DEF IndInv, TypeOK, Present
<1>5. /\ unread'[s] = unread[s] \ batch
      /\ listed'[s] = listed[s] \cup (batch \cap Present(link))
      /\ pc'[s] = IF batch = unread[s] THEN "get" ELSE "names"
      /\ ~changed[s] => ~changed'[s]
  BY <1>1 DEF Goto, IndInv, TypeOK
<1>6. TypeOK'
  <2>1. pc' \in [Shells -> {"prompt", "exists", "add", "set", "del", "names", "get",
                            "dead", "hung"}]
    BY <1>1 DEF Goto, IndInv, TypeOK
  <2>2. unread' \in [Shells -> SUBSET Names] /\ listed' \in [Shells -> SUBSET Names]
    BY <1>1, <1>4 DEF IndInv, TypeOK
  <2>3. changed' \in [Shells -> BOOLEAN]
    BY <1>1, <1>4 DEF IndInv, TypeOK
  <2> QED
    BY <1>3, <2>1, <2>2, <2>3 DEF IndInv, TypeOK
<1>7. \A d \in Shells : d # s => Same(d) /\ Watched(d)
  BY <1>1, <1>3 DEF Goto, Same, Watched, IndInv, TypeOK
<1>8. Reasons(s)'
  BY <1>2, <1>3, <1>5 DEF Reasons
<1>9. Lists(s)'
  <2>1. ~touched[s] => ~changed[s] /\ listed[s] = Present(link) \ unread[s]
    BY <1>2 DEF IndInv, Lists
  <2>2. ~touched[s] => listed'[s] = Present(link) \ unread'[s]
    BY <1>1, <1>4, <1>5, <2>1
  <2>3. pc'[s] = "get" => unread'[s] = {}
    BY <1>5
  <2> QED
    BY <1>2, <1>3, <1>5, <2>1, <2>2, <2>3 DEF Lists
<1>10. BareHasCause'
  BY <1>2, <1>3, <1>7, BareKept DEF IndInv
<1> QED
  BY <1>3, <1>6, <1>7, <1>8, <1>9, <1>10, OneShellMoves DEF IndInv, OnlyARaceFails

LEMMA NamesInterruptedKeeps ==
  ASSUME IndInv, NEW s \in Shells, NamesInterrupted(s)
  PROVE  IndInv'
<1>1. /\ pc[s] = "names" /\ command[s] = "devices"
      /\ changed[s] /\ Goto(s, "get")
      /\ UNCHANGED <<link, touched, changed, command, name, result, unread, listed,
                    printed, fault>>
  BY DEF NamesInterrupted, KeepLink, IndInv, Reasons
<1>2. TypeOK' /\ pc'[s] = "get"
  BY <1>1 DEF Goto, IndInv, TypeOK
<1>3. \A d \in Shells : d # s => Same(d) /\ Watched(d)
  BY <1>1 DEF Goto, Same, Watched, IndInv, TypeOK
<1>4. touched[s]
  BY <1>1 DEF IndInv, Lists
<1>5. Reasons(s)' /\ Lists(s)'
  BY <1>1, <1>2, <1>4 DEF Reasons, Lists
<1>6. BareHasCause'
  BY <1>1, <1>3, BareKept DEF IndInv
<1> QED
  BY <1>1, <1>2, <1>3, <1>4, <1>5, <1>6, OneShellMoves

LEMMA GetKeeps ==
  ASSUME IndInv, NEW s \in Shells, Get(s)
  PROVE  IndInv'
<1>1. PICK n \in listed[s] :
        /\ listed' = [listed EXCEPT ![s] = listed[s] \ {n}]
        /\ \/ /\ link[n] # "absent"
              /\ printed' = [printed EXCEPT ![s] = printed[s] \cup {n}]
              /\ UNCHANGED fault
           \/ /\ link[n] = "absent"
              /\ UNCHANGED <<printed, fault>>
           \/ Fault(s) /\ UNCHANGED printed
  BY Zenon DEF Get
<1>2. /\ pc[s] = "get" /\ command[s] = "devices"
      /\ UNCHANGED <<link, touched, changed, pc, command, name, result, unread>>
  BY DEF Get, KeepLink, IndInv, Reasons
<1>3. listed[s] \subseteq Names /\ printed[s] \subseteq Names /\ n \in Names
  BY DEF IndInv, TypeOK
<1>4. fault' = fault \/ fault' = [fault EXCEPT ![s] = TRUE]
  BY <1>1 DEF Fault
<1>5. TypeOK'
  <2>1. listed' \in [Shells -> SUBSET Names]
    BY <1>1, <1>3 DEF IndInv, TypeOK
  <2>2. printed' \in [Shells -> SUBSET Names]
    BY <1>1, <1>3 DEF IndInv, TypeOK
  <2>3. fault' \in [Shells -> BOOLEAN]
    BY <1>4 DEF IndInv, TypeOK
  <2> QED
    BY <1>2, <2>1, <2>2, <2>3 DEF IndInv, TypeOK
<1>6. \A d \in Shells : d # s => Same(d) /\ Watched(d)
  BY <1>1, <1>2, <1>4 DEF Same, Watched, IndInv, TypeOK
<1>7. Reasons(s)'
  BY <1>2 DEF Reasons
<1>8. Lists(s)'
  <2>1. ASSUME ~touched[s], ~fault'[s]
        PROVE  listed'[s] \cup printed'[s] = Present(link)
    <3>1. ~fault[s]
      BY <1>4, <2>1 DEF IndInv, TypeOK
    <3>2. listed[s] \cup printed[s] = Present(link)
      BY <1>2, <2>1, <3>1 DEF IndInv, Lists
    <3>3. n \in Present(link)
      BY <3>2
    <3>4. link[n] # "absent"
      BY <3>3 DEF Present
    <3>5. printed' = [printed EXCEPT ![s] = printed[s] \cup {n}]
      BY <1>1, <2>1, <3>4 DEF Fault, IndInv, TypeOK
    <3>6. /\ printed'[s] = printed[s] \cup {n}
          /\ listed'[s] = listed[s] \ {n}
      BY <1>1, <3>5 DEF IndInv, TypeOK
    <3> QED
      BY <3>2, <3>6
  <2> QED
    BY <1>2, <2>1 DEF Lists, Present
<1>9. result'[s] \in {"failure", "exit"} /\ ~fault'[s] => touched'[s]
  BY <1>2, <1>4 DEF IndInv, OnlyARaceFails, TypeOK
<1>10. BareHasCause'
  BY <1>2, <1>6, BareKept DEF IndInv
<1> QED
  BY <1>5, <1>6, <1>7, <1>8, <1>9, <1>10, OneShellMoves

LEMMA ListedKeeps ==
  ASSUME IndInv, NEW s \in Shells, Listed(s)
  PROVE  IndInv'
<1>1. pc[s] = "get" /\ KeepLink /\ Finish(s, "success")
  BY DEF Listed
<1>2. link'[name[s]] = "bare" => link[name[s]] = "bare"
  BY <1>1 DEF KeepLink
<1>3. "absent" \in Values /\ "success" \in Results
  BY DEF Values, Results
<1> QED
  BY <1>1, <1>2, <1>3, ResultIsItself, EndKeeps DEF Listed, Finish

-----------------------------------------------------------------------------
LEMMA StutterKeeps ==
  ASSUME IndInv, UNCHANGED vars
  PROVE  IndInv'
<1>1. TypeOK'
  BY DEF vars, shellVars, historyVars, IndInv, TypeOK
<1>2. OnlyARaceFails' /\ BareHasCause'
  BY DEF vars, shellVars, historyVars, IndInv, OnlyARaceFails, BareHasCause
<1>3. \A s \in Shells : Reasons(s)' /\ Lists(s)'
  BY DEF vars, shellVars, historyVars, IndInv, Reasons, Lists, Present
<1> QED
  BY <1>1, <1>2, <1>3 DEF IndInv

LEMMA StepKeeps ==
  ASSUME IndInv, [Next]_vars
  PROVE  IndInv'
<1>1. ASSUME NEW s \in Shells, Command(s) \/ Step(s) \/ Fail(s)
      PROVE  IndInv'
  <2>1. CASE Command(s)
    BY <2>1, StartKeeps
  <2>2. CASE Exists(s)
    BY <2>2, AnswerKeeps DEF Exists
  <2>3. CASE ExistsFails(s)
    BY <2>3, AnswerKeeps DEF ExistsFails
  <2>4. CASE Add(s) \/ Set(s) \/ Del(s)
    BY <2>4, AddKeeps, SetKeeps, DelKeeps
  <2>5. CASE ListNames(s) \/ NamesInterrupted(s)
    BY <2>5, ListNamesKeeps, NamesInterruptedKeeps
  <2>6. CASE Get(s) \/ Listed(s)
    BY <2>6, GetKeeps, ListedKeeps
  <2>7. CASE AddFails(s) \/ SetFails(s) \/ DelFails(s) \/ NamesFail(s) \/ KeyFails(s)
    BY <2>7, FailKeeps
  <2>8. CASE Hang(s)
    BY <2>8, HangKeeps
  <2> QED
    BY <1>1, <2>1, <2>2, <2>3, <2>4, <2>5, <2>6, <2>7, <2>8 DEF Step, Fail
<1>2. CASE UNCHANGED vars
  BY <1>2, StutterKeeps
<1> QED
  BY <1>1, <1>2 DEF Next

\* The strengthened invariant of the commands, for any number of shells.
THEOREM Invariance == Spec => []IndInv
<1>1. Init => IndInv
  BY InitIndInv
<1>2. IndInv /\ [Next]_vars => IndInv'
  BY StepKeeps
<1> QED
  BY <1>1, <1>2, PTL DEF Spec

\* The types of the commands' state.
THEOREM TypeCorrect == Spec => []TypeOK
<1>1. IndInv => TypeOK
  BY DEF IndInv
<1> QED
  BY <1>1, Invariance, PTL

\* `up` and `down` in any number of shells: without a fault, only a race over
\* the interface makes one of them fail.
THEOREM OnlyRacesFail == Spec => []OnlyARaceFails
<1>1. IndInv => OnlyARaceFails
  BY DEF IndInv
<1> QED
  BY <1>1, Invariance, PTL

\* wg_add_device and wg_set_device: an interface is left without configuration
\* only by a shell that one of them has ended.
THEOREM BareIsExplained == Spec => []BareHasCause
<1>1. IndInv => BareHasCause
  BY DEF IndInv
<1> QED
  BY <1>1, Invariance, PTL

\* `devices` over any number of interfaces, however the link dump is divided
\* into messages: undisturbed, it prints every interface.
THEOREM DevicesComplete == Spec => DevicesPrintsAll
<1> DEFINE Ends(s) == pc[s] = "get" /\ pc'[s] = "prompt" /\ ~fault[s] /\ ~touched[s]
<1>1. IndInv /\ [Next]_vars =>
        [\A s \in Shells : Ends(s) => printed[s] = Present(link)]_vars
  <2> SUFFICES ASSUME IndInv, [Next]_vars, vars' # vars,
                      NEW s \in Shells, Ends(s)
               PROVE  printed[s] = Present(link)
    OBVIOUS
  <2>1. PICK t \in Shells : Command(t) \/ Step(t) \/ Fail(t)
    BY DEF Next
  <2>2. Listed(s)
    <3>1. t = s
      <4>1. \A d \in Shells : d # t => pc'[d] = pc[d]
        <5>1. CASE Command(t)
          BY <5>1 DEF Command, Start, Goto, IndInv, TypeOK
        <5>2. CASE Exists(t) \/ ExistsFails(t)
          <6>1. command[t] \in {"up", "down"}
            BY <5>2 DEF Exists, ExistsFails, IndInv, Reasons
          <6>2. \E label : Goto(t, label)
            BY <5>2, <6>1 DEF Exists, ExistsFails, WithExists, Finish
          <6> QED
            BY <6>2 DEF Goto, IndInv, TypeOK
        <5>3. CASE Add(t) \/ Set(t) \/ Del(t)
          <6>1. \E label : Goto(t, label)
            BY <5>3 DEF Add, Set, Del, Finish, Die
          <6> QED
            BY <6>1 DEF Goto, IndInv, TypeOK
        <5>4. CASE ListNames(t)
          <6>1. \E label : Goto(t, label)
            BY <5>4, Zenon DEF ListNames
          <6> QED
            BY <6>1 DEF Goto, IndInv, TypeOK
        <5>5. CASE NamesInterrupted(t) \/ Listed(t) \/ Hang(t)
          BY <5>5 DEF NamesInterrupted, Listed, Hang, Finish, Goto, IndInv, TypeOK
        <5>6. CASE Get(t)
          BY <5>6 DEF Get
        <5>7. CASE AddFails(t) \/ SetFails(t) \/ DelFails(t) \/ NamesFail(t) \/ KeyFails(t)
          BY <5>7 DEF AddFails, SetFails, DelFails, NamesFail, KeyFails, Finish, Die, Goto, IndInv, TypeOK
        <5> QED
          BY <2>1, <5>1, <5>2, <5>3, <5>4, <5>5, <5>6, <5>7 DEF Step, Fail
      <4> QED
        BY <4>1
    <3>2. CASE Get(s)
      BY <3>2 DEF Get
    <3>3. CASE Hang(s)
      BY <3>3 DEF Hang, Goto, IndInv, TypeOK
    <3> QED
      BY <2>1, <3>1, <3>2, <3>3 DEF Command, Start, Step, Fail, Exists, ExistsFails, Add, Set,
           Del, AddFails, SetFails, DelFails, NamesFail, KeyFails, ListNames, NamesInterrupted
  <2>3. listed[s] = {}
    BY <2>2 DEF Listed
  <2>4. listed[s] \cup printed[s] = Present(link)
    BY DEF IndInv, Lists
  <2> QED
    BY <2>3, <2>4
<1> QED
  BY <1>1, Invariance, PTL DEF Spec, DevicesPrintsAll
=============================================================================
