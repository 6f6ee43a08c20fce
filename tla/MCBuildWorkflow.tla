---------------------------- MODULE MCBuildWorkflow ----------------------------
(* BuildWorkflow with two directories that all three commands share.           *)
EXTENDS BuildWorkflow

CONSTANTS c1, c2, c3, c4, d1, d2, s1, s2, v1, v2

MCConf == {c1, c2, c3, c4}
It(d, c, o) == [dir |-> d, conf |-> c, over |-> o]
Req(cmd, items, co, bo, on) ==
  [cmd |-> cmd, items |-> items, configOnly |-> co, buildOnly |-> bo, carryOn |-> on]

Builds ==
  {Req("build", <<It(d1, c, o)>>, co, bo, FALSE) :
     c \in {c1, None}, o \in {<< >>, <<<<s1, v1>>, <<s2, v2>>>>, <<<<s1, v2>>, <<s2, None>>>>},
     co \in BOOLEAN, bo \in BOOLEAN}
Batches ==
  {Req("batch", items, co, FALSE, on) :
     items \in {<<It(d1, c1, << >>), It(d2, c2, << >>), It(d2, c1, << >>)>>,
                <<It(d1, c4, << >>), It(d2, c3, << >>), It(d1, c2, << >>)>>},
     co \in BOOLEAN, on \in BOOLEAN}
Sweeps ==
  {Req("kconfig", <<It(d1, c2, <<<<s1, v1>>>>), It(d2, c2, <<<<s1, v2>>>>)>>, co, FALSE, on) :
     co \in BOOLEAN, on \in BOOLEAN}
MCRequests == Builds \cup Batches \cup Sweeps

MCRejected == {[conf |-> c1, val |-> [s \in {s1, s2} |-> IF s = s1 THEN v1 ELSE v2]],
               [conf |-> c2, val |-> [s \in {s1, s2} |-> IF s = s1 THEN v2 ELSE Default]]}
=============================================================================
