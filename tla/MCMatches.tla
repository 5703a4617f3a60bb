------------------------------ MODULE MCMatches ------------------------------
(* Small instances of Matches for TLC. *)
EXTENDS Matches

CONSTANTS c1, c2, p, bad, never

M(k, pat, meth, dir, u) == [kind |-> k, pattern |-> pat, method |-> meth, direction |-> dir, uid |-> u]

\* A user's match with two methods, one of which compiles to nothing, another
\* user's that parses and matches nothing, a dns match in each direction, an
\* ipv4 one and one that does not parse.
MCMatching ==
    {M("basename", p, "full", "redirect", 1), M("basename", p, "subnet", "redirect", 1),
     M("dns", p, "full", "redirect", 1), M("dns", p, "full", "bypass", 1),
     M("ipv4", p, "subnet", "redirect", 1)}
MCWellFormed == MCMatching \cup {M("path", never, "regex", "bypass", 2)}
MCMatch == MCWellFormed \cup {M("path", bad, "regex", "redirect", 1)}

MCUids == [c \in Clients |-> IF c = c1 THEN 1 ELSE 0]
=============================================================================
