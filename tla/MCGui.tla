-------------------------------- MODULE MCGui --------------------------------
(* Small instances of GuiHarness for TLC. *)
EXTENDS GuiHarness

CONSTANTS p, q, eth

MCConfig0 == [flag |-> [f \in Flags |-> TRUE], spoof_dns_ipv4 |-> "ip"]
MCMatches0 == <<[pattern |-> p, attr |-> "redirect"], [pattern |-> q, attr |-> "redirect"]>>

\* One change of each property.
MCRequests ==
    { Req("SettingsUpdate", [MCConfig0 EXCEPT !.flag["spoof_dns"] = FALSE]),
      Req("MatchDelete", MCMatches0[1]), Req("ChangeOutput", eth) }

\* Requests with all that may become of them, edits that meet an event, and
\* two events, such as a restart, without an input.
MCScenarios ==
    { [uses |-> {"frame", "error"}, input |-> 2, other |-> 1],
      [uses |-> {"settings"}, input |-> 2, other |-> 1],
      [uses |-> {"settings", "output", "error"}, input |-> 3, other |-> 0],
      [uses |-> {"output", "error"}, input |-> 2, other |-> 1],
      [uses |-> {"new"}, input |-> 2, other |-> 1],
      [uses |-> {"new"}, input |-> 3, other |-> 0],
      [uses |-> {"list"}, input |-> 1, other |-> 1],
      [uses |-> {"list"}, input |-> 2, other |-> 0],
      [uses |-> {"output"}, input |-> 1, other |-> 2] }
=============================================================================
