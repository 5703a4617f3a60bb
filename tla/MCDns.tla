-------------------------------- MODULE MCDns --------------------------------
(* Small instances of Dns for TLC. *)
EXTENDS Dns

CONSTANTS a, b, x, y, i, j

P(ns, dir) == [names |-> ns, dir |-> dir]

MCPatterns == {P({a, b}, "redirect"), P({b}, "bypass")}
MCMatchSets == {{}, {P({a, b}, "redirect")}, MCPatterns}
AllRedirect == {{P({a, b}, "redirect")}}
AllOrBypass == {{P({a, b}, "redirect")}, MCPatterns}
=============================================================================
