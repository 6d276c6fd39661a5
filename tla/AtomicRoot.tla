----------------------------- MODULE AtomicRoot -----------------------------
(***************************************************************************)
(* What publishing a root promises: one step replaces it as a whole, the   *)
(* publisher is told only when it is durable, and a crash leaves the root  *)
(* as it is or takes it back to the last durable one.                      *)
(*                                                                         *)
(* `root` is what a restart would load, `durable` what a host crash cannot *)
(* take away, and `known` the root the process works from, Down while      *)
(* there is no process.                                                    *)
(***************************************************************************)
CONSTANTS Roots, Down

VARIABLES root, durable, known

vars == <<root, durable, known>>

Init == root \in Roots /\ durable = root /\ known = root

Commit ==
  /\ known # Down
  /\ root = known
  /\ root' \in Roots
  /\ UNCHANGED <<durable, known>>

Settle ==
  /\ durable' = root
  /\ UNCHANGED <<root, known>>

Told ==
  /\ known # Down
  /\ durable = root
  /\ known' = root
  /\ UNCHANGED <<root, durable>>

Crash ==
  /\ \/ UNCHANGED <<root, durable>>
     \/ root' \in {root, durable} /\ durable' = root'
  /\ known' = Down

Restart ==
  /\ known = Down
  /\ known' = root
  /\ UNCHANGED <<root, durable>>

Next == Commit \/ Settle \/ Told \/ Crash \/ Restart

Spec == Init /\ [][Next]_vars
=============================================================================
