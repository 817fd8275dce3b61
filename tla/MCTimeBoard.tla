----------------------------- MODULE MCTimeBoard -----------------------------
(* One unit, two units in turn, two units in parallel, and parallel        *)
(* execution asked for where there is one unit only.                       *)
EXTENDS TimeBoard

MCConfig(list, low, par, att, exp) ==
  [list |-> list, high |-> list[1], low |-> low, parallel |-> par, attention |-> att,
   experts |-> exp]
MCConfigs ==
  {MCConfig(<<"GPU">>, "GPU", FALSE, a, x) : a \in {"self", "mla"}, x \in BOOLEAN}
  \cup {MCConfig(<<"GPU", "PIM">>, "PIM", p, a, FALSE) :
          p \in BOOLEAN, a \in {"self", "mla", "absorb"}}
  \cup {MCConfig(<<"GPU", "LOGIC">>, "LOGIC", TRUE, "self", x) : x \in BOOLEAN}
  \cup {MCConfig(<<u>>, u, TRUE, a, x) : u \in {"GPU", "LOGIC"}, a \in {"self", "absorb"}, x \in BOOLEAN}
=============================================================================
