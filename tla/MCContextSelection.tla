-------------------------- MODULE MCContextSelection --------------------------
(* Four symbols of three modules; every pair of content slots is contested.   *)
EXTENDS ContextSelection

CONSTANTS m1, m2, m3

MCModules == <<m1, m2, m3>>
MCModuleOf == (1 :> m1) @@ (2 :> m2) @@ (3 :> m3) @@ (4 :> m3)
MCImports == (m1 :> <<>>) @@ (m2 :> <<m1>>) @@ (m3 :> <<m2, m1>>)
Lengths(n, d, s) == [names |-> n, doc |-> d, source |-> s]
MCLength == (1 :> Lengths(1, 1, 4)) @@ (2 :> Lengths(2, 0, 1)) @@ (3 :> Lengths(1, 3, 0))
            @@ (4 :> Lengths(1, 0, 6))

\* Unmatched above the minimum, matched by module - weak or strong - or name.
Kinds == { [score |-> 1, match |-> "none"], [score |-> 2, match |-> "module"],
           [score |-> 3, match |-> "name"], [score |-> 4, match |-> "module"]}
MCProfiles == {p \in [1 .. 4 -> Kinds \cup {[score |-> 0, match |-> "none"]}] :
                 p[1].score > 1 /\ p[4].score <= 3}

Words(named, ensured, again, files, helpers) ==
  [named |-> named, ensured |-> ensured, again |-> again, files |-> files, helpers |-> helpers]
MCQueries == { Words(<<>>, <<>>, <<>>, <<>>, {}), Words(<<3, 1>>, <<>>, <<>>, <<>>, {}),
               Words(<<>>, <<2>>, <<2>>, <<m3>>, {}), Words(<<>>, <<2>>, <<>>, <<m3>>, {}),
               Words(<<>>, <<>>, <<>>, <<m1>>, {m1, m2}), Words(<<>>, <<>>, <<>>, <<>>, {m1, m2})}
MCBudgets == {[tokens |-> 2, chars |-> 1], [tokens |-> 6, chars |-> 2]}
MCMemories == {{}, {2, 3}}
=============================================================================
