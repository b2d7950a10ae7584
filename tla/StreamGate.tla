----------------------------- MODULE StreamGate -----------------------------
(***************************************************************************)
(* What a guarded stream promises the client, whatever the guard looks     *)
(* for.  At every moment there is a text the client ought to have if       *)
(* nothing were held back: what the upstream sent, with the gateway's      *)
(* placeholders turned back into the client's own data.  The gate lets go  *)
(* of all of it or of nothing; what it has let go is never taken back; it  *)
(* may cut the stream once, and then nothing more is let go; a stream that *)
(* ends without a cut has been let go completely.                          *)
(***************************************************************************)
EXTENDS Sequences, SequencesExt

VARIABLES
  image,      \* the text of the stream so far, as the client should see it
  released,   \* the text the client has received
  gate        \* "open", "cut" or "ended"

gateVars == <<image, released, gate>>

Init == image = <<>> /\ released = <<>> /\ gate = "open"

\* More of the stream arrives; the gate keeps it or lets go of everything.
Arrive ==
  /\ gate = "open"
  /\ UNCHANGED gate
  /\ released' \in {released, image'}
  /\ IsPrefix(released, released')

\* The guard intervenes: what is held back, and what just arrived, is lost.
Cut ==
  /\ gate = "open"
  /\ gate' = "cut"
  /\ UNCHANGED released

\* The upstream is done and the guard has no objection.
End ==
  /\ gate = "open"
  /\ gate' = "ended"
  /\ released' = image'
  /\ IsPrefix(released, released')

Next == Arrive \/ Cut \/ End

Spec == Init /\ [][Next]_gateVars

=============================================================================
