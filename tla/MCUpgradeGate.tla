--------------------------- MODULE MCUpgradeGate ---------------------------
(* UpgradeGate on small histories: a lineage "drizzle" the base ref always *)
(* has, a lineage "extra" it may have, and a directory the branch may add, *)
(* beside them or inside the first.                                        *)
EXTENDS UpgradeGate

CONSTANT Copied   \* whether a directory the branch adds may carry clocks of a base lineage

InsideFirst == {<<"nested", "drizzle">>}
M(when, what) == [when |-> when, what |-> what]
First == {M(2, "a")}
Extra == {M(2, "c")}

(* A tree of these, each a set of one lineage or of none. *)
Tree(first, extra, new, dir) ==
  [d \in (IF first = {} THEN {} ELSE {"drizzle"}) \cup (IF extra = {} THEN {} ELSE {"extra"})
         \cup (IF new = {} THEN {} ELSE {dir}) |->
     UNION (CASE d = "drizzle" -> first [] d = "extra" -> extra [] OTHER -> new)]

(* What a branch makes of the first lineage: nothing, a migration added    *)
(* after what it had or ordered before it, one rewritten, one taken away.  *)
Branched == {First, First \cup {M(3, "b")}, First \cup {M(1, "b")}, {M(2, "b")}, {}}
Added == {{M(4, "a")}, {M(1, "d")}} \cup IF Copied THEN {Extra} ELSE {}

SmallHistories ==
  {<<Tree({}, {}, {}, "new"), Tree({First}, {}, {}, "new")>>,
   <<Tree({First}, {}, {{M(1, "e")}}, "nested"), Tree({First}, {}, {{M(1, "e")}}, "nested")>>,
   <<Tree({First}, {}, {}, "new"), Tree({First}, {}, {{M(1, "d")}}, "nested")>>,
   <<Tree({First}, {Extra}, {}, "new"), Tree({First}, {}, {}, "new")>>,
   <<Tree({First}, {{}}, {}, "new"), Tree({First}, {Extra}, {}, "new")>>} \cup
  {<<Tree({First}, x, {}, "new"), Tree({f}, x, n, "new")>> :
     f \in Branched, x \in {{}, {Extra}}, n \in {{}} \cup {{l} : l \in Added}}
=============================================================================
