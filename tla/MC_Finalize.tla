----------------------------- MODULE MC_Finalize -----------------------------
EXTENDS Finalize

Plan(kind, fs) == [kind |-> kind, fs |-> fs]

\* Publications that give the artifact a new name.
Renaming ==
  {Plan("move", "plain"), Plan("move", "crossDevice"), Plan("move", "noRename"),
   Plan("copy", "plain"), Plan("copy", "noRename"),
   Plan("replaceElsewhere", "plain"), Plan("replaceElsewhere", "noRename")}

InPlace     == {Plan("inPlace", "plain")}
Replacing   == {Plan("replaceInPlace", "plain")}
EveryPlan   == Renaming \cup InPlace \cup Replacing
=============================================================================
