--------------------------- MODULE MCReprocStart ---------------------------
(* A small parent: three streams, one file of its own, and one that no     *)
(* child should see, at a low number or at the very last.                  *)
EXTENDS ReprocStart

MCFdLimit == 17

Plain(type) == [type |-> type, handle |-> FALSE, file |-> FALSE, path |-> FALSE]
Unset       == Plain("default")
Base == [redirect |-> [in |-> Unset, out |-> Unset, err |-> Unset],
         parent |-> FALSE, discard |-> FALSE, file |-> FALSE, path |-> FALSE,
         input |-> FALSE, fork |-> FALSE, argv |-> TRUE]

MCOptions ==
    { Base,
      [Base EXCEPT !.input = TRUE, !.redirect.err = Plain("pipe")],
      [Base EXCEPT !.fork = TRUE, !.argv = FALSE],
      [Base EXCEPT !.fork = TRUE],
      [Base EXCEPT !.parent = TRUE],
      [Base EXCEPT !.parent = TRUE, !.input = TRUE],
      [Base EXCEPT !.discard = TRUE, !.redirect.out.file = TRUE],
      [Base EXCEPT !.path = TRUE],
      [Base EXCEPT !.path = TRUE, !.redirect.out = Plain("pipe")],
      [Base EXCEPT !.file = TRUE, !.redirect.in.handle = TRUE],
      [Base EXCEPT !.redirect.err = Plain("stdout")],
      [Base EXCEPT !.redirect.out = Plain("parent"), !.redirect.err = Plain("stdout")] }

At0(closed, last) ==
    [f \in Fd |->
        CASE f \in closed -> Closed
          [] f = 0 -> [file |-> "stdin", cloexec |-> FALSE]
          [] f = 1 -> [file |-> "stdout", cloexec |-> FALSE]
          [] f = 2 -> [file |-> "stderr", cloexec |-> FALSE]
          [] f = 3 -> [file |-> "user", cloexec |-> FALSE]
          [] f = (IF last THEN MaxFd ELSE 4) -> [file |-> "stray", cloexec |-> FALSE]
          [] OTHER -> Closed]

MCParentTables == {At0(closed, last) : closed \in {{}, {0}, {1}, {0, 1, 2}}, last \in BOOLEAN}
=============================================================================
