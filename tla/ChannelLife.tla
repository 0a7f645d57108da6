---------------------------- MODULE ChannelLife ----------------------------
(***************************************************************************)
(* What one channel of Emove/less promises, whatever its goroutines do:    *)
(* it opens at most once, a Close takes effect at most once, the           *)
(* OnChannelClosed hooks run at most once, never before the Close took     *)
(* effect and never while an inbound task recorded before the Close is     *)
(* still running, and the connection is closed last, for good.             *)
(*                                                                         *)
(* A closing channel may finish without having notified the hooks: the     *)
(* goroutine that closes it runs its deferred clean-up also when it        *)
(* panics.  Channel.tla implements this specification.                     *)
(***************************************************************************)
EXTENDS FiniteSets

CONSTANT Tasks                  \* inbound tasks

VARIABLES phase,                \* stage of the channel's life
          running,              \* inbound tasks recorded and not finished
          owed                  \* those of them the hooks must wait for

vars == <<phase, running, owed>>

Phases == {"opening", "rejected", "open", "closing", "notified", "closed"}

TypeOK == /\ phase \in Phases
          /\ running \subseteq Tasks
          /\ owed \subseteq running

Init == phase = "opening" /\ running = {} /\ owed = {}

Reject == phase = "opening" /\ phase' = "rejected" /\ UNCHANGED <<running, owed>>

Open == phase = "opening" /\ phase' = "open" /\ UNCHANGED <<running, owed>>

\* A task may be recorded in any phase: one that was submitted before the
\* Close is recorded after it.
Begin(t) == /\ t \notin running
            /\ phase \notin {"opening", "rejected"}
            /\ running' = running \cup {t}
            /\ UNCHANGED <<phase, owed>>

End(t) == /\ t \in running
          /\ running' = running \ {t}
          /\ owed' = owed \ {t}
          /\ UNCHANGED phase

Close == /\ phase = "open"
         /\ phase' = "closing"
         /\ owed' = running
         /\ UNCHANGED running

Notify == /\ phase = "closing"
          /\ owed = {}
          /\ phase' = "notified"
          /\ UNCHANGED <<running, owed>>

Finish == /\ phase \in {"closing", "notified"}
          /\ owed = {}
          /\ phase' = "closed"
          /\ UNCHANGED <<running, owed>>

Next == Reject \/ Open \/ Close \/ Notify \/ Finish
        \/ \E t \in Tasks : Begin(t) \/ End(t)

Spec == Init /\ [][Next]_vars
=============================================================================
