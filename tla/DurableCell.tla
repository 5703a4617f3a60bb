---------------------------- MODULE DurableCell ----------------------------
(***************************************************************************)
(* What the saved state promises, without files, slots, generations or     *)
(* buffers: a start reads the newest save.  Once a run has completed a     *)
(* save, a kill costs at most the save under way; before that it may also  *)
(* bring back the save before the newest, since the first save of a run    *)
(* takes the place of the one it was started from.  A write that stops     *)
(* part way may leave something else than a save, and a run that could not *)
(* cut a file to its length promises nothing more.                         *)
(***************************************************************************)
CONSTANTS Value, Default

VARIABLES
    val,      \* the state of the program
    newest,   \* the save that a start reads, Default when there is none
    older,    \* the one it falls back to, or Default
    refused,  \* a start fails
    life      \* "down", "unsaved" (a run that saves nothing), "first" (a run that
              \* has not completed a save), "kept", or "uncut"

cellVars == <<val, newest, older, refused, life>>

\* The command line may switch the redirection on or off.
Started(v) == {v} \cup {[v EXCEPT !.enable = b] : b \in BOOLEAN}

Init == newest = Default /\ older = Default /\ ~refused /\ life = "down"

Start ==
    /\ life = "down" /\ ~refused
    /\ val' \in Started(newest)
    /\ life' = "first"
    /\ UNCHANGED <<newest, older, refused>>

StartUnsaved ==
    /\ life = "down"
    /\ val' \in Started(Default)
    /\ life' = "unsaved"
    /\ UNCHANGED <<newest, older, refused>>

Change == life # "down" /\ val' \in Value /\ UNCHANGED <<newest, older, refused, life>>

Saves == life \in {"first", "kept"}

\* What may be the fallback after a write.
Older == {older, newest, val, Default}

\* All of a save is written, perhaps over a longer one.
Write ==
    /\ Saves
    /\ newest' \in {newest, val} \cup (IF life = "first" THEN {older} ELSE {})
    /\ older' \in Older /\ refused' \in BOOLEAN
    /\ UNCHANGED <<val, life>>

\* The write stops part way: the place it wrote to may hold anything, the
\* other one what it held.
Tear ==
    /\ Saves
    /\ newest' \in Value /\ older' \in Value /\ refused' \in BOOLEAN
    /\ (IF life = "first" THEN older ELSE newest) \in {newest', older'}
    /\ life' = "down"
    /\ UNCHANGED val

Complete ==
    /\ Saves
    /\ newest' = val /\ older' \in Older /\ refused' = FALSE
    /\ life' = "kept"
    /\ UNCHANGED val

\* A tail stays behind the save, in this run.
Uncut ==
    /\ Saves \/ life = "uncut"
    /\ newest' \in Value /\ older' \in Value /\ refused' \in BOOLEAN
    /\ life' \in {"uncut", "down"}
    /\ UNCHANGED val

Stop == life # "down" /\ life' = "down" /\ UNCHANGED <<val, newest, older, refused>>

Next == Start \/ StartUnsaved \/ Change \/ Write \/ Tear \/ Complete \/ Uncut \/ Stop

\* A run that saves does not leave a changed state unsaved for ever.
Spec == Init /\ [][Next]_cellVars /\ WF_cellVars(newest # val /\ Complete)
=============================================================================
