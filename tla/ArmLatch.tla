------------------------------- MODULE ArmLatch -------------------------------
(***************************************************************************)
(* What the ARM/DISARM control plane promises, as its comments put it      *)
(* (controller.go:281-293, arm_persistence.go:14-36): a latch with one     *)
(* durable bit.  A human sets it; every stop clears it; a restart resumes  *)
(* what the bit says and never sets it; and while the kill switch that the *)
(* controller itself has tripped stands, nobody sets it and nothing        *)
(* resumes.  LiveEngine implements it with a mutex, a file, a restore that *)
(* reads it early and a monitor.                                           *)
(***************************************************************************)

VARIABLES state,    \* of the engine; ARMING until the intention is saved
          kept,     \* the intention that survives a restart: a deliberate ON
          stopped,  \* the last word was a stop, not an Arm
          halted,   \* the kill switch is active
          barred    \* and the controller has tripped it

vars == <<state, kept, stopped, halted, barred>>

Init ==
  /\ state = "OFF" /\ kept = FALSE /\ stopped = FALSE
  /\ halted = FALSE /\ barred = FALSE

Arm ==
  /\ state = "OFF" /\ ~halted
  /\ state' = "ARMING" /\ stopped' = FALSE
  /\ UNCHANGED <<kept, halted, barred>>

Armed ==
  /\ state = "ARMING"
  /\ state' = "ARMED" /\ kept' = TRUE
  /\ UNCHANGED <<stopped, halted, barred>>

TurnOff == state' = "OFF" /\ kept' = FALSE /\ stopped' = TRUE

Stop == state # "ARMING" /\ TurnOff /\ UNCHANGED <<halted, barred>>

\* The kill switch of the Live Engine page: it stops an armed engine only.
Bar ==
  /\ state # "ARMING"
  /\ IF state = "ARMED" THEN TurnOff ELSE UNCHANGED <<state, kept, stopped>>
  /\ barred' = halted /\ halted' = halted

\* Somebody trips the switch, or releases it.
Halt == halted' = TRUE /\ UNCHANGED <<state, kept, stopped, barred>>
Release == halted' = FALSE /\ barred' = FALSE /\ UNCHANGED <<state, kept, stopped>>

\* A restart forgets the state, not the intention; the switch is as its own boot
\* leaves it.
Crash == state' = "OFF" /\ UNCHANGED <<kept, stopped, halted, barred>>

Boot ==
  /\ state = "OFF" /\ halted' \in BOOLEAN /\ barred' = (barred /\ halted')
  /\ UNCHANGED <<state, kept, stopped>>

Resume ==
  /\ state = "OFF" /\ kept /\ ~halted
  /\ state' = "ARMED"
  /\ UNCHANGED <<kept, stopped, halted, barred>>

Next == Arm \/ Armed \/ Stop \/ Bar \/ Halt \/ Release \/ Crash \/ Boot \/ Resume

Spec == Init /\ [][Next]_vars

\* What the latch is for: an engine that is ON would be resumed after a crash at any
\* moment, a stopped one would not, and a barred one is off.
WordKept ==
  /\ state = "ARMED" => kept
  /\ stopped => state = "OFF" /\ ~kept
  /\ barred => halted /\ state = "OFF"

=============================================================================
