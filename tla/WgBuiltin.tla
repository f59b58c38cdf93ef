------------------------------ MODULE WgBuiltin ------------------------------
(***************************************************************************)
(* The commands `up`, `down` and `devices` of the wg builtin (src/wg.c) in *)
(* several shells at once, over the kernel's WireGuard interfaces.  Each   *)
(* command is a sequence of library calls, and the interfaces may change   *)
(* between any two of them.                                                *)
(*                                                                         *)
(* wg_get_device is one step here: it answers for one instant of the call, *)
(* as WgRead has it and WgGetDevice implements it, fails, or never returns *)
(* (a dump that was interrupted).  So is wg_set_device: `up` passes it one *)
(* peer without allowed IPs, which is one message (WgSetDevice).           *)
(***************************************************************************)
EXTENDS Naturals, FiniteSets

CONSTANTS Shells,  \* the shells that have the builtin loaded
          Names    \* values of WIREGUARD_INTERFACE_NAME

ASSUME BuiltinAssumption == Shells \cap {"absent", "bare", "other"} = {}

VARIABLES
  link,    \* each interface: "absent", "bare" (added, not configured), or who
           \* has configured it: a shell, or "other"
  pc,      \* the library call each shell makes next; "prompt" between commands
  command, \* the command it runs, or ran last
  name,    \* the interface that command is about
  result,  \* its result
  unread,  \* `devices`: interfaces the link dump has not come to
  listed,  \* `devices`: names found and not looked up yet
  printed, \* `devices`: the interfaces printed
  changed, \* since the link dump began, an interface was added or removed
  fault,   \* history: something in the command failed for a reason of its own
  touched  \* history: another shell has worked on the command's interface (on
           \* any, for `devices`) since it began

shellVars == <<pc, command, name, result, unread, listed, printed>>
historyVars == <<fault, touched>>
vars == <<link, shellVars, changed, historyVars>>

Present(l) == {n \in Names : l[n] # "absent"}

Init ==
  /\ link \in [Names -> {"absent", "other"}]
  /\ pc = [s \in Shells |-> "prompt"]
  /\ command = [s \in Shells |-> "none"]
  /\ name \in [Shells -> Names]
  /\ result = [s \in Shells |-> "none"]
  /\ unread = [s \in Shells |-> {}]
  /\ listed = [s \in Shells |-> {}]
  /\ printed = [s \in Shells |-> {}]
  /\ changed = [s \in Shells |-> FALSE]
  /\ fault = [s \in Shells |-> FALSE]
  /\ touched = [s \in Shells |-> FALSE]

-----------------------------------------------------------------------------
Running(s) == pc[s] \notin {"prompt", "dead", "hung"}

Concerns(s, n) == command[s] = "devices" \/ name[s] = n

\* Shell s sets interface n to v
PutLink(s, n, v) ==
  /\ link' = [link EXCEPT ![n] = v]
  /\ touched' = [t \in Shells |-> \/ touched[t]
                                  \/ t # s /\ Running(t) /\ Concerns(t, n)]
  /\ changed' = [t \in Shells |-> \/ changed[t]
                                  \/ pc[t] = "names" /\ (v = "absent") # (link[n] = "absent")]

KeepLink == UNCHANGED <<link, touched, changed>>

Goto(s, label) == pc' = [pc EXCEPT ![s] = label]

Finish(s, r) == Goto(s, "prompt") /\ result' = [result EXCEPT ![s] = r]

\* exit(1), or a crash: the shell goes, and with it whatever ran in it
Die(s) == Goto(s, "dead") /\ result' = [result EXCEPT ![s] = "exit"]

Fault(s) == fault' = [fault EXCEPT ![s] = TRUE]

-----------------------------------------------------------------------------
\* wg_builtin is called with a command
Start(s, c, n, first) ==
  /\ pc[s] = "prompt"
  /\ Goto(s, first)
  /\ command' = [command EXCEPT ![s] = c]
  /\ name' = [name EXCEPT ![s] = n]
  /\ result' = [result EXCEPT ![s] = "none"]
  /\ unread' = [unread EXCEPT ![s] = IF c = "devices" THEN Names ELSE {}]
  /\ listed' = [listed EXCEPT ![s] = {}]
  /\ printed' = [printed EXCEPT ![s] = {}]
  /\ changed' = [changed EXCEPT ![s] = FALSE]
  /\ fault' = [fault EXCEPT ![s] = FALSE]
  /\ touched' = [touched EXCEPT ![s] = FALSE]
  /\ UNCHANGED link

Command(s) == \/ \E n \in Names : \/ Start(s, "up", n, "exists")
                                  \/ Start(s, "down", n, "exists")
              \/ Start(s, "devices", name[s], "names")

\* Mutant: `up` adds the interface whether it exists or not
WithExistsIgnored(s, exists) ==
  CASE command[s] = "up"   -> Goto(s, "add") /\ UNCHANGED result
    [] command[s] = "down" -> IF exists THEN Goto(s, "del") /\ UNCHANGED result
                              ELSE Finish(s, "success")

\* What the command does with the answer of wg_device_exists.
\* RECREATE_WIREGUARD_INTERFACE is false: `up` keeps an interface it finds.
WithExists(s, exists) ==
  CASE command[s] = "up"   -> Goto(s, IF exists THEN "set" ELSE "add") /\ UNCHANGED result
    [] command[s] = "down" -> IF exists THEN Goto(s, "del") /\ UNCHANGED result
                              ELSE Finish(s, "success")

Exists(s) ==
  /\ pc[s] = "exists"
  /\ WithExists(s, link[name[s]] # "absent")
  /\ KeepLink
  /\ UNCHANGED <<command, name, unread, listed, printed, fault>>

\* wg_device_exists takes any failure of wg_get_device for "does not exist"
ExistsFails(s) ==
  /\ pc[s] = "exists"
  /\ WithExists(s, FALSE)
  /\ Fault(s)
  /\ KeepLink
  /\ UNCHANGED <<command, name, unread, listed, printed>>

\* `up`: what is wrong with WIREGUARD_PRIVATE_KEY is printed to a string that was
\* never set, before the interface is looked for; that may end the shell
KeyFails(s) ==
  /\ pc[s] = "exists"
  /\ command[s] = "up"
  /\ Die(s)
  /\ Fault(s)
  /\ KeepLink
  /\ UNCHANGED <<command, name, unread, listed, printed>>

\* wg_get_device was interrupted and repeats its dump for ever
Hang(s) ==
  /\ pc[s] \in {"exists", "get"}
  /\ Goto(s, "hung")
  /\ KeepLink
  /\ UNCHANGED <<command, name, result, unread, listed, printed, fault>>

\* RTM_NEWLINK with NLM_F_EXCL
Add(s) ==
  /\ pc[s] = "add"
  /\ IF link[name[s]] = "absent"
     THEN PutLink(s, name[s], "bare") /\ Goto(s, "set") /\ UNCHANGED result
     ELSE KeepLink /\ Die(s)
  /\ UNCHANGED <<command, name, unread, listed, printed, fault>>

\* Mutant: `up` returns without wg_set_device
SetLeftOut(s) ==
  /\ pc[s] = "set"
  /\ KeepLink
  /\ Finish(s, "success")
  /\ UNCHANGED <<command, name, unread, listed, printed, fault>>

Set(s) ==
  /\ pc[s] = "set"
  /\ IF link[name[s]] # "absent"
     THEN PutLink(s, name[s], s) /\ Finish(s, "success")
     ELSE KeepLink /\ Die(s)
  /\ UNCHANGED <<command, name, unread, listed, printed, fault>>

Del(s) ==
  /\ pc[s] = "del"
  /\ IF link[name[s]] # "absent"
     THEN PutLink(s, name[s], "absent") /\ Finish(s, "success")
     ELSE KeepLink /\ Finish(s, "failure")
  /\ UNCHANGED <<command, name, unread, listed, printed, fault>>

\* A request that reports an error, before the kernel has carried it out or
\* (its answer could not be read) after
Refused(s, n, v, legal) == KeepLink \/ (legal /\ PutLink(s, n, v))

AddFails(s) ==
  /\ pc[s] = "add"
  /\ Refused(s, name[s], "bare", link[name[s]] = "absent")
  /\ Die(s)
  /\ Fault(s)
  /\ UNCHANGED <<command, name, unread, listed, printed>>

SetFails(s) ==
  /\ pc[s] = "set"
  /\ Refused(s, name[s], s, link[name[s]] # "absent")
  /\ Die(s)
  /\ Fault(s)
  /\ UNCHANGED <<command, name, unread, listed, printed>>

DelFails(s) ==
  /\ pc[s] = "del"
  /\ Refused(s, name[s], "absent", link[name[s]] # "absent")
  /\ Finish(s, "failure")
  /\ Fault(s)
  /\ UNCHANGED <<command, name, unread, listed, printed>>

-----------------------------------------------------------------------------
\* Mutant: no `goto another` after the first message of the link dump
ListNamesOnce(s) ==
  /\ pc[s] = "names"
  /\ unread[s] # {}
  /\ unread[s] # Names => ~changed[s]
  /\ \E batch \in (SUBSET unread[s]) \ {{}} :
       /\ unread' = [unread EXCEPT ![s] = @ \ batch]
       /\ listed' = [listed EXCEPT ![s] = @ \cup (batch \cap Present(link))]
       /\ Goto(s, "get")
       /\ changed' = [changed EXCEPT ![s] = IF unread[s] = Names THEN FALSE ELSE @]
  /\ UNCHANGED <<link, command, name, result, printed, historyVars>>

\* list_devices: first the names, in a dump of all links (fetch_device_names).
\* A message of it reports any number of links.
ListNames(s) ==
  /\ pc[s] = "names"
  /\ unread[s] # {}
  /\ unread[s] # Names => ~changed[s]
  /\ \E batch \in (SUBSET unread[s]) \ {{}} :
       /\ unread' = [unread EXCEPT ![s] = @ \ batch]
       /\ listed' = [listed EXCEPT ![s] = @ \cup (batch \cap Present(link))]
       /\ Goto(s, IF batch = unread[s] THEN "get" ELSE "names")
       /\ changed' = [changed EXCEPT ![s] = IF unread[s] = Names THEN FALSE ELSE @]
  /\ UNCHANGED <<link, command, name, result, printed, historyVars>>

\* Mutant: the interrupted dump is awaited further
NamesInterruptedWaits(s) ==
  /\ pc[s] = "names"
  /\ unread[s] # Names
  /\ changed[s]
  /\ Goto(s, "names")
  /\ KeepLink
  /\ UNCHANGED <<command, name, result, unread, listed, printed, fault>>

\* NLM_F_DUMP_INTR: "we just work with the partial results"
NamesInterrupted(s) ==
  /\ pc[s] = "names"
  /\ unread[s] # Names
  /\ changed[s]
  /\ Goto(s, "get")
  /\ KeepLink
  /\ UNCHANGED <<command, name, result, unread, listed, printed, fault>>

\* No names: exit(1)
NamesFail(s) ==
  /\ pc[s] = "names"
  /\ Die(s)
  /\ Fault(s)
  /\ KeepLink
  /\ UNCHANGED <<command, name, unread, listed, printed>>

\* Then one device after the other; one that cannot be read is passed over
Get(s) ==
  /\ pc[s] = "get"
  /\ \E n \in listed[s] :
       /\ listed' = [listed EXCEPT ![s] = @ \ {n}]
       /\ \/ /\ link[n] # "absent"
             /\ printed' = [printed EXCEPT ![s] = @ \cup {n}]
             /\ UNCHANGED fault
          \/ /\ link[n] = "absent"
             /\ UNCHANGED <<printed, fault>>
          \/ Fault(s) /\ UNCHANGED printed
  /\ KeepLink
  /\ UNCHANGED <<pc, command, name, result, unread>>

\* Mutant: no return value
ListedUnset(s) ==
  /\ pc[s] = "get"
  /\ listed[s] = {}
  /\ Finish(s, "unset")
  /\ KeepLink
  /\ UNCHANGED <<command, name, unread, listed, printed, fault>>

Listed(s) ==
  /\ pc[s] = "get"
  /\ listed[s] = {}
  /\ Finish(s, "success")
  /\ KeepLink
  /\ UNCHANGED <<command, name, unread, listed, printed, fault>>

-----------------------------------------------------------------------------
Step(s) == \/ Exists(s) \/ Add(s) \/ Set(s) \/ Del(s)
           \/ ListNames(s) \/ NamesInterrupted(s) \/ Get(s) \/ Listed(s)

Fail(s) == \/ ExistsFails(s) \/ AddFails(s) \/ SetFails(s) \/ DelFails(s)
           \/ NamesFail(s) \/ KeyFails(s) \/ Hang(s)

Next == \E s \in Shells : Command(s) \/ Step(s) \/ Fail(s)

Spec == Init /\ [][Next]_vars

\* A command that runs goes on; commands come as they like.
FairSpec == Spec /\ \A s \in Shells : WF_vars(Step(s))
-----------------------------------------------------------------------------
\* The types of the interfaces and of the shells' state.
TypeOK ==
  /\ link \in [Names -> Shells \cup {"absent", "bare", "other"}]
  /\ pc \in [Shells -> {"prompt", "exists", "add", "set", "del", "names", "get",
                        "dead", "hung"}]
  /\ command \in [Shells -> {"none", "up", "down", "devices"}]
  /\ name \in [Shells -> Names]
  /\ result \in [Shells -> {"none", "success", "failure", "exit"}]
  /\ unread \in [Shells -> SUBSET Names]
  /\ listed \in [Shells -> SUBSET Names]
  /\ printed \in [Shells -> SUBSET Names]
  /\ changed \in [Shells -> BOOLEAN]
  /\ fault \in [Shells -> BOOLEAN]
  /\ touched \in [Shells -> BOOLEAN]

\* A command that nothing fails ends its shell or reports EXECUTION_FAILURE
\* only if another shell changed the command's interface between its calls:
\* alone, `up` never adds what exists, and neither `up` nor `down` works on
\* what does not.
OnlyARaceFails ==
  \A s \in Shells :
    result[s] \in {"failure", "exit"} /\ ~fault[s]
    => touched[s]

\* No command that returns to its shell leaves behind an interface it has added
\* and not configured: of one without configuration, the shell that added it is
\* about to configure it, or was ended by a wg_add_device or wg_set_device that
\* failed.
BareHasCause ==
  \A n \in Names :
    link[n] = "bare" =>
      \E s \in Shells : /\ name[s] = n /\ command[s] = "up"
                       /\ \/ pc[s] = "set"
                          \/ pc[s] = "dead" /\ fault[s]

\* `devices` that nothing disturbs prints the interfaces there are: the messages
\* of the link dump leave none out, and no name is lost between the two dumps.
DevicesPrintsAll ==
  [][\A s \in Shells :
       pc[s] = "get" /\ pc'[s] = "prompt" /\ ~fault[s] /\ ~touched[s]
       => printed[s] = Present(link)]_vars

\* What a shell knows between two calls of its command: why it makes the next one,
\* and of which interfaces the dump has left nothing out.
Reasons(s) ==
  /\ pc[s] = "exists" => command[s] \in {"up", "down"}
  /\ pc[s] \in {"add", "set"} => command[s] = "up"
  /\ pc[s] = "del" => command[s] = "down"
  /\ pc[s] \in {"names", "get"} => command[s] = "devices"
  /\ pc[s] = "add" /\ ~fault[s] /\ ~touched[s] => link[name[s]] = "absent"
  /\ pc[s] \in {"set", "del"} /\ ~touched[s] => link[name[s]] # "absent"

Lists(s) ==
  /\ pc[s] = "names" => printed[s] = {}
  /\ pc[s] = "names" /\ ~touched[s] =>
       ~changed[s] /\ listed[s] = Present(link) \ unread[s]
  /\ pc[s] = "get" /\ ~touched[s] /\ ~fault[s] =>
       listed[s] \cup printed[s] = Present(link)

IndInv == /\ TypeOK /\ OnlyARaceFails /\ BareHasCause
          /\ \A s \in Shells : Reasons(s) /\ Lists(s)

\* Every command returns to the prompt or ends its shell, unless it hangs in
\* wg_get_device.
CommandsEnd == \A s \in Shells : Running(s) ~> ~Running(s)
=============================================================================
