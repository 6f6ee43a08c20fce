----------------------------- MODULE ConsoleSession -----------------------------
(***************************************************************************)
(* What a console promises of its session with a device, without the       *)
(* exchanges that make a call up: commands are taken only by a client that *)
(* holds the device, a link that is up between calls is one the client     *)
(* will close, and the snapshot of the device's objects changes only as a  *)
(* whole, when a call returns.  An exception out of the first call breaks  *)
(* the session, and nothing is promised of its link any more.              *)
(***************************************************************************)
VARIABLES
  stage,     \* "new", "starting" (the first call), "ready", "busy", "over", "broken"
  up,        \* the link is up
  held,      \* the client holds the device, and will let go of it
  cache,     \* the objects found
  snapshots  \* what a discovery of this session may store

vars == <<stage, up, held, cache, snapshots>>

Init ==
  /\ stage = "new"
  /\ up = FALSE /\ held = FALSE
  /\ cache = {}

Call ==
  /\ \/ stage = "new" /\ stage' = "starting"
     \/ stage = "ready" /\ stage' = "busy"
  /\ UNCHANGED <<up, held, cache, snapshots>>

\* In a call the link may go up and down; the client takes hold of one that is up.
Work ==
  /\ stage \in {"starting", "busy"} /\ stage' = stage
  /\ up' \in BOOLEAN
  /\ held' = held \/ (held' = TRUE /\ up')
  /\ UNCHANGED <<cache, snapshots>>

Return ==
  /\ \/ stage = "starting" /\ stage' \in {"ready", "over"}
     \/ stage = "busy" /\ stage' = "ready"
  /\ held' = held
  /\ stage' = "ready" => held
  /\ up' \in BOOLEAN /\ (up' => held)
  /\ cache' \in {cache} \cup snapshots
  /\ UNCHANGED snapshots

\* A call that does not return: the first one breaks the session, another ends it.
Abort ==
  /\ \/ stage = "starting" /\ stage' = "broken"
     \/ stage = "busy" /\ stage' = "over"
  /\ UNCHANGED <<up, held, cache, snapshots>>

Leave ==
  /\ stage = "ready" /\ stage' = "over"
  /\ UNCHANGED <<up, held, cache, snapshots>>

LetGo ==
  /\ stage \in {"over", "broken"} /\ held
  /\ up' = FALSE /\ held' = FALSE
  /\ UNCHANGED <<stage, cache, snapshots>>

Next == Call \/ Work \/ Return \/ Abort \/ Leave \/ LetGo
Spec == Init /\ [][Next]_vars
=============================================================================
