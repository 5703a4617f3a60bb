----------------------------- MODULE MCRedirect -----------------------------
(* Small instances of Redirect for TLC. *)
EXTENDS Redirect, TLC

CONSTANTS m1, m2, m3, m4, d1, d2, l1, l2, n1, n2, i1, i2

MCOptions ==
    { [allow_lan |-> TRUE, drop |-> FALSE, spoof |-> FALSE],
      [allow_lan |-> FALSE, drop |-> TRUE, spoof |-> TRUE] }

MCIpSets == { {}, { [dst |-> "a", dir |-> "redirect"], [dst |-> "b", dir |-> "bypass"] } }

OneOption == { [allow_lan |-> TRUE, drop |-> TRUE, spoof |-> FALSE] }
NoIps == { {} }

\* Which of the unused marks is drawn makes no difference.
MarkSymmetry == Permutations(Marks)

\* Nor does the naming of devices, of their indices and of their addresses.
RouteSymmetry ==
    Permutations(Marks) \cup Permutations(Devs) \cup Permutations(Ids) \cup Permutations(Nets)
=============================================================================
