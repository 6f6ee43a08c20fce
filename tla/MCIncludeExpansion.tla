--------------------------- MODULE MCIncludeExpansion ---------------------------
(***************************************************************************)
(* Small projects: a descriptor main that includes a block mid, a leaf, or *)
(* both, where mid includes leaf.                                          *)
(***************************************************************************)
EXTENDS IncludeScopes, TLC

Atoms == {"m", "z", "x", "y", "w", "i", "p", "q"}

None_ == << >>  \* no inputs, no outputs
M == <<"m">>
Z == <<"z">>
X == <<"x">>
Y == <<"y">>
W == <<"w">>
I == <<"i">>
P == <<"p">>
Q == <<"q">>

BadIds == {I}  \* as an include id

Obj(n, refs) == [id |-> n, refs |-> refs]
Inc(n, file, inputs) == [id |-> n, file |-> file, inputs |-> inputs]
Give(t) == [n \in {I} |-> t]
File_(includes, inputs, outputs, objs) ==
  [includes |-> includes, inputs |-> inputs, outputs |-> outputs, objs |-> objs]

\* The leaf: objects x and y that refer to each other, to an input, to names it does
\* not define; exports of an object, of an input, of one object twice.
Leaves ==
  {File_(<< >>, {}, outs, <<Obj(X, <<Id(Y), Id(Z), Id(W)>>), Obj(Y, <<Id(X), Id(M)>>)>>) :
     outs \in {None_, W :> Id(X) @@ Y :> Id(Y), W :> Id(X) @@ Y :> Id(X), W :> Id(Z)}}
  \cup {File_(<< >>, {I}, outs, objs) :
     outs \in {None_, W :> Id(X), W :> In(I)},
     objs \in {<< >>, <<Obj(X, <<Id(X), In(I)>>), Obj(Y, <<Id(W)>>)>>}}

\* mid: its includes, and an object z that refers to what they export.
Mids ==
  {File_(incs, {}, outs, <<Obj(Z, refs)>>) :
     incs \in {<< >>, <<Inc(Q, "leaf", None_)>>, <<Inc(Q, "leaf", Give(Id(Z)))>>,
               <<Inc(Q, "leaf", None_), Inc(P, "leaf", None_)>>,
               <<Inc(Q, "leaf", Give(Id(Z))), Inc(P, "leaf", Give(Out(Q, W)))>>,
               <<Inc(Q, "main", None_)>>, <<Inc(Q, "gone", None_)>>},
     outs \in {X :> Id(Z), W :> Out(Q, W)},
     refs \in {<<Id(Z), Id(M), Id(W)>>, <<Out(Q, W), Id(Q \o X)>>}}
  \cup {File_(<<Inc(Q, "leaf", Give(t))>>, {I}, W :> out, <<Obj(Z, refs)>>) :
     t \in {Id(Z), In(I)}, out \in {In(I), Out(Q, W)},
     refs \in {<<In(I)>>, <<Out(Q, W)>>}}

Mains ==
  {File_(incs, {}, None_, objs) :
     incs \in {<<Inc(P, "mid", None_)>>, <<Inc(P, "mid", Give(Id(M)))>>,
               <<Inc(P, "mid", None_), Inc(Q, "leaf", Give(Out(P, W)))>>,
               <<Inc(P, "mid", None_), Inc(P \o Q, "leaf", None_)>>,
               <<Inc(P, "leaf", None_), Inc(Q, "leaf", None_)>>,
               <<Inc(P, "leaf", None_), Inc(P, "leaf", None_)>>,
               <<Inc(I, "leaf", None_)>>},
     objs \in {<<Obj(M, <<Id(P \o Z), Id(P \o Q \o X), Id(X)>>)>>,
               <<Obj(M, <<Out(P, W), Id(W), Id(Z)>>)>>}}

AllProjects ==
  {[f \in {"main", "mid", "leaf"} |->
      IF f = "main" THEN main ELSE IF f = "mid" THEN mid ELSE leaf]
   : main \in Mains, mid \in Mids, leaf \in Leaves}

\* An input named like an object of the block it is given to.
CapturingProjects ==
  {[f \in {"main", "leaf"} |->
      IF f = "main"
      THEN File_(<<Inc(P, "leaf", Give(Id(X)))>>, {}, None_, <<Obj(X, << >>)>>)
      ELSE leaf] : leaf \in Leaves}
=============================================================================
