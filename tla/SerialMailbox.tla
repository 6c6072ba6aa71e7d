---------------------------- MODULE SerialMailbox ----------------------------
(***************************************************************************)
(* What an actor promises to the code that posts to it, whatever threads,  *)
(* completion ports and locks are used underneath: every actor owns a      *)
(* mailbox, runs one job at a time, takes jobs in the order in which they  *)
(* entered the mailbox and runs each of them at most once.                 *)
(***************************************************************************)
EXTENDS Sequences, FiniteSets

CONSTANTS Actors,   \* the actors
          Jobs      \* the jobs; a job is posted at most once

VARIABLES mailbox,  \* mailbox[a]: jobs accepted by a and not yet started
          running   \* running[a]: the set of jobs of a that are being executed

mboxVars == <<mailbox, running>>

Init == /\ mailbox = [a \in Actors |-> << >>]
        /\ running = [a \in Actors |-> {}]

Accept(a, j) ==
  /\ mailbox' = [mailbox EXCEPT ![a] = Append(@, j)]
  /\ UNCHANGED running

Start(a) ==
  /\ running[a] = {}
  /\ mailbox[a] # << >>
  /\ running' = [running EXCEPT ![a] = {Head(mailbox[a])}]
  /\ mailbox' = [mailbox EXCEPT ![a] = Tail(@)]

Finish(a) ==
  /\ running[a] # {}
  /\ running' = [running EXCEPT ![a] = {}]
  /\ UNCHANGED mailbox

Next == \E a \in Actors : \/ \E j \in Jobs : Accept(a, j)
                          \/ Start(a)
                          \/ Finish(a)

Spec == Init /\ [][Next]_mboxVars
=============================================================================
