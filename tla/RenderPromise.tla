---------------------------- MODULE RenderPromise ----------------------------
(* What a distributed render promises its user, whatever happens to workers,  *)
(* messages and retries: tiles come in one by one, none is taken back while   *)
(* the render lasts, and the image is written from all of them or not at all. *)
(* Only the restart of its server makes a promise void, until the next render.*)
CONSTANT Tiles

VARIABLES phase,   \* "idle", "rendering", "stitched" or "void"
          done     \* tiles of the render that have come in

vars == <<phase, done>>

Init == phase = "idle" /\ done = {}

\* A render may be started at any time, and replaces the one before it.
Begin == phase' = "rendering" /\ done' = {}

\* A tile comes in; with the last one the image may be written.
Complete(t) ==
    /\ phase \in {"rendering", "stitched"}
    /\ done' = done \cup {t}
    /\ \/ phase' = phase
       \/ done' = Tiles /\ phase' = "stitched"

\* The user cancels the render or resets the runtime.
GiveUp == phase' = "idle" /\ done' = {}

\* The server is started anew while the render lasts.
Interrupt == phase # "idle" /\ phase' = "void" /\ done' = {}

Next == Begin \/ GiveUp \/ Interrupt \/ \E t \in Tiles : Complete(t)

Spec == Init /\ [][Next]_vars
=============================================================================
