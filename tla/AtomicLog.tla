------------------------------ MODULE AtomicLog ------------------------------
(***************************************************************************)
(* What a write-ahead log promises the collection above it: records are    *)
(* appended whole and in order, the appender is told of a record only once *)
(* it is in the log, and a crash takes away at most the records that were  *)
(* not yet durable, from the end.                                          *)
(*                                                                         *)
(* `log` is what a restart would recover, the first `durable` records of   *)
(* it even if the host crashes, and `known` how many the process knows of, *)
(* Down while there is no process.                                         *)
(***************************************************************************)
EXTENDS Naturals, Sequences

CONSTANTS Records,
          Strict,   \* whether a record is durable before the appender is told
          Down

VARIABLES log, durable, known

vars == <<log, durable, known>>

Init == log = <<>> /\ durable = 0 /\ known = 0

Add ==
  /\ known # Down /\ known = Len(log)
  /\ \E r \in Records : log' = Append(log, r)
  /\ UNCHANGED <<durable, known>>

Settle ==
  /\ durable' = Len(log)
  /\ UNCHANGED <<log, known>>

\* A record is added, made durable if Strict says so, and the appender told.
Told ==
  /\ known # Down /\ known < Len(log)
  /\ known' = Len(log)
  /\ durable' \in {durable, Len(log)}
  /\ Strict => durable' = Len(log)
  /\ UNCHANGED log

\* A record that is being added when the process dies may still get there.
Reached ==
  {log} \cup (IF known # Down /\ known = Len(log)
              THEN {Append(log, r) : r \in Records} ELSE {})

ProcessCrash ==
  /\ known # Down
  /\ log' \in Reached
  /\ known' = Down
  /\ UNCHANGED durable

HostCrash ==
  /\ \E reached \in Reached : \E n \in durable .. Len(reached) :
       log' = SubSeq(reached, 1, n) /\ durable' = n
  /\ known' = Down

\* What a restart reads it may also make durable.
Restart ==
  /\ known = Down
  /\ known' = Len(log)
  /\ durable' \in {durable, Len(log)}
  /\ UNCHANGED log

Next == Add \/ Settle \/ Told \/ ProcessCrash \/ HostCrash \/ Restart

Spec == Init /\ [][Next]_vars
=============================================================================
