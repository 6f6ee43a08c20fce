--------------------------- MODULE MCWorkspaceInit ---------------------------
(* One workspace with both layouts in it, two refs of Dawn of which one has *)
(* no library, and the command lines that differ in what they may destroy.  *)
EXTENDS WorkspaceInit

CONSTANTS w, old, new

MCLocalRc == [x \in {w} |-> [ws |-> w, layout |-> "workspace"]]

Asked(layout, source, nuttx, writeRc, force) ==
  [root |-> [ws |-> w, layout |-> layout], source |-> source, dawn |-> Latest,
   nuttx |-> new, apps |-> new, withNuttx |-> nuttx, writeRc |-> writeRc,
   force |-> force]

MCRequests ==
  {Asked("workspace", "git", n, c, f) : n \in BOOLEAN, c \in BOOLEAN, f \in BOOLEAN}
  \cup {Asked("inline", "release", n, FALSE, f) : n \in BOOLEAN, f \in BOOLEAN}
  \cup {[Asked("workspace", "git", TRUE, TRUE, f) EXCEPT !.dawn = old, !.apps = a]
          : f \in BOOLEAN, a \in {old, new}}
=============================================================================
