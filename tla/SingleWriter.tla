---------------------------- MODULE SingleWriter ----------------------------
(***************************************************************************)
(* What the ownership of a deployment promises: at any time at most one    *)
(* session writes the ledger, a commit builds on the commit before it, and *)
(* the blocks in the ledger always run from the first one without a hole.  *)
(***************************************************************************)
EXTENDS Integers, Sequences

CONSTANTS
  Sessions,  \* sessions that may become the writer
  NoSession, \* nobody is the writer
  MaxBlock   \* bound on the blocks of the ledger

VARIABLES
  writer,    \* session that may write, or NoSession
  commits    \* commits so far: writer, number of commits it had read, blocks after it

vars == <<writer, commits>>

Init ==
  /\ writer = NoSession
  /\ commits = <<>>

Acquire ==
  /\ writer = NoSession
  /\ writer' \in Sessions
  /\ UNCHANGED commits

Commit ==
  /\ writer # NoSession
  /\ \E height \in 0..MaxBlock :
       commits' = Append(commits, [by   |-> writer,
                                   read |-> Len(commits),
                                   rows |-> 1..height])
  /\ UNCHANGED writer

Release ==
  /\ writer # NoSession
  /\ writer' = NoSession
  /\ UNCHANGED commits

Next == Acquire \/ Commit \/ Release

Spec == Init /\ [][Next]_vars
=============================================================================
