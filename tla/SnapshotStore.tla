--------------------------- MODULE SnapshotStore ---------------------------
(***************************************************************************)
(* What a snapshot directory promises its readers when every event is      *)
(* synced before it is reported: one run's append-only log, at most one    *)
(* entry of which is not durable yet, that a crash can only shorten by     *)
(* that entry, and that can be sealed only when it has ended.              *)
(***************************************************************************)
EXTENDS Naturals, Sequences

CONSTANTS Runs, NoRun, EventTypes, TerminalTypes

VARIABLES
  log,      \* the events a reader sees
  durable,  \* how many of them survive anything
  sealed    \* a terminal manifest is in place

storeVars == <<log, durable, sealed>>

Last == log[Len(log)]
Ended == log # <<>> /\ Last.type \in TerminalTypes

Init == log = <<>> /\ durable = 0 /\ sealed = FALSE

(* One more event of the same run, and none behind a terminal event.       *)
Extend ==
  /\ ~Ended /\ durable = Len(log)
  /\ \E run \in Runs, type \in EventTypes, parent \in 0..Len(log), pin \in 0..Len(log) :
       /\ log # <<>> => run = Last.run
       /\ log' = Append(log, [run |-> run, sequence |-> Len(log) + 1, type |-> type,
                              parent |-> parent, pin |-> pin])
  /\ UNCHANGED <<durable, sealed>>

Harden ==
  /\ durable' = Len(log)
  /\ UNCHANGED <<log, sealed>>

(* A crash: the entry that is not durable is lost, or turns out to be; the *)
(* seal of a log that is all durable may come off.                         *)
Lose ==
  \/ /\ durable < Len(log)
     /\ \/ log' = SubSeq(log, 1, durable) /\ UNCHANGED durable
        \/ durable' = Len(log) /\ UNCHANGED log
     /\ UNCHANGED sealed
  \/ /\ sealed /\ sealed' = FALSE
     /\ UNCHANGED <<log, durable>>

Seal ==
  /\ Ended /\ durable = Len(log)
  /\ sealed' = TRUE
  /\ UNCHANGED <<log, durable>>

Next == Extend \/ Harden \/ Lose \/ Seal

Spec == Init /\ [][Next]_storeVars
=============================================================================
