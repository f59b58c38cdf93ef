------------------------------ MODULE MCPassh ------------------------------
(* Passh for TLC: a command that writes a few chunks, and a job of the shell. *)
EXTENDS Passh

Opt(tries, C, timeout, T, y) ==
  [tries |-> tries, fatal_more_tries |-> C, timeout |-> timeout,
   fatal_no_prompt |-> T, auto_yesno |-> y]

\* -c with -C and -y, and -c alone with the two timeouts; prompts outnumber -c
MCOptions == {Opt(1, TRUE, 0, FALSE, TRUE), Opt(1, FALSE, 1, TRUE, FALSE)}
=============================================================================
