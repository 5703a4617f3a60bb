--------------------------- MODULE PolicyFollower ---------------------------
(***************************************************************************)
(* What the daemon promises of the kernel's routing policy, without marks, *)
(* tables, channels or tasks: the policy in force is exchanged as a whole  *)
(* for the one that is wanted at that moment, part of it is seen only when *)
(* the daemon is about to give up, and nothing of it is left in the end    *)
(* unless it could not be withdrawn.                                       *)
(***************************************************************************)
VARIABLES
    want,   \* the policy that state and output device call for
    have,   \* the policy in force, a set of rules
    life,   \* "running", "stopping" or "exited"
    stuck   \* whether rules could not be withdrawn

fvars == <<want, have, life, stuck>>

Init == have = {} /\ life = "running" /\ stuck = FALSE

\* The user or the device changes what is wanted, in any way.
Change == life # "exited" /\ UNCHANGED <<have, life, stuck>>

Apply == life # "exited" /\ ~stuck /\ have' = want /\ UNCHANGED <<want, life, stuck>>

\* Some rules could not be installed.
GiveUp ==
    /\ life # "exited" /\ life' = "stopping"
    /\ ~stuck
    /\ have' \in SUBSET want
    /\ UNCHANGED <<want, stuck>>

\* Some rules of the policy in force could not be withdrawn for another.
Stick ==
    /\ life # "exited" /\ life' = "stopping"
    /\ have' \in SUBSET have
    /\ stuck' = TRUE
    /\ UNCHANGED want

Stop == life = "running" /\ life' = "stopping" /\ UNCHANGED <<want, have, stuck>>

\* The policy is withdrawn, or what can be withdrawn of it.
Exit ==
    /\ life = "stopping" /\ life' = "exited"
    /\ \/ ~stuck /\ have' = {} /\ stuck' = FALSE
       \/ have' \in SUBSET have /\ stuck' = TRUE
    /\ UNCHANGED want

\* The process ends with its policy in force.
Die == life # "exited" /\ life' = "exited" /\ stuck' = TRUE /\ UNCHANGED <<want, have>>

Next == Change \/ Apply \/ GiveUp \/ Stick \/ Stop \/ Exit \/ Die

\* What is wanted is not left unapplied for ever, and the daemon that stops
\* exits.
Spec == Init /\ [][Next]_fvars /\ WF_fvars(Apply) /\ WF_fvars(Exit)
=============================================================================
