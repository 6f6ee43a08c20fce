--------------------------- MODULE WorkspaceInitProofs ---------------------------
(***************************************************************************)
(* What an init may destroy, what it leaves when it reports success, what  *)
(* the rc file names and which checkout commands work on: proofs for       *)
(* WorkspaceInit, for any workspaces, refs and command lines.              *)
(***************************************************************************)
EXTENDS WorkspaceInit, TLAPS

-----------------------------------------------------------------------------
(* Types *)

\* The variables of a run and of what it leaves, in two parts.
FilesTyped ==
  /\ trees \in [Roots -> [Kinds -> Trees \cup {None}]]
  /\ linked \subseteq Roots /\ own \subseteq Roots /\ made \subseteq Roots
  /\ rc \in RcFiles
  /\ newest \in [Sources -> Refs]
RunTyped ==
  /\ request \in Requests \cup {None} /\ (stage # "idle" => request # None)
  /\ ref \in Refs \cup {None}
  /\ (stage \in {"prepare", "fetch", "link", "rc", "dump"} => ref # None)
  /\ stage \in {"idle", "resolve", "prepare", "fetch", "link", "rc", "dump"}
  /\ kind \in Kinds
  /\ outcome \in Outcomes \cup {None}
  /\ runs \in 0..MaxRuns

LEMMA TypeParts == TypeOK <=> FilesTyped /\ RunTyped
  BY DEF TypeOK, FilesTyped, RunTyped

LEMMA NoneApart == None \notin Refs /\ None \notin Trees /\ None \notin Roots
                   /\ None \notin Requests /\ None # "done" /\ Latest \notin Refs
  BY WorkspaceAssumption DEF Outcomes

\* While a run is under way, its request is one.
LEMMA TargetTyped ==
  ASSUME TypeOK, stage # "idle"
  PROVE  /\ request \in Request /\ Target \in Roots
         /\ \A k \in Kinds : ref \in Refs => WantedRef(k) \in Refs
<1>1. request \in Request
  BY WorkspaceAssumption DEF TypeOK
<1>2. Target \in Roots /\ request.nuttx \in Refs /\ request.apps \in Refs
  BY <1>1 DEF Request, Target
<1> QED BY <1>1, <1>2 DEF WantedRef, Kinds

LEMMA NothingTyped == Nothing \in [Kinds -> Trees \cup {None}]
  BY DEF Nothing

LEMMA TypeInit == Init => TypeOK
<1> SUFFICES ASSUME Init
             PROVE  TypeOK
  OBVIOUS
<1>1. rc \in RcFiles
  BY DEF Init, EmptyRc, RcFiles
<1>2. trees \in [Roots -> [Kinds -> Trees \cup {None}]]
  BY NothingTyped DEF Init
<1>3. 0 \in 0..MaxRuns
  BY WorkspaceAssumption
<1> QED BY <1>1, <1>2, <1>3 DEF Init, TypeOK, Kinds

\* What Follow makes of the run.
LEMMA FollowTyped ==
  ASSUME Follow(kind), RunTyped, stage = "fetch",
         UNCHANGED <<request, ref, runs>>
  PROVE  RunTyped'
<1>1. /\ stage' \in {"prepare", "link", "rc", "idle"}
      /\ kind' \in Kinds /\ outcome' \in Outcomes \cup {None}
  BY DEF Follow, Ends, Outcomes, RunTyped, Kinds
<1> QED BY <1>1 DEF RunTyped

\* A tree delivered at the target.
LEMMA DeliveredTyped ==
  ASSUME TypeOK, stage = "fetch", NEW state \in States, Delivered(state)
  PROVE  trees' \in [Roots -> [Kinds -> Trees \cup {None}]]
<1>1. Target \in Roots /\ WantedRef(kind) \in Refs /\ kind \in Kinds
  BY TargetTyped, NoneApart DEF TypeOK
<1>2. [ref |-> WantedRef(kind), state |-> state] \in Trees
  BY <1>1 DEF Trees
<1> QED BY <1>1, <1>2 DEF Delivered, TypeOK

\* What Prepare makes of the files.
LEMMA EmptiedTyped ==
  ASSUME TypeOK, stage = "prepare", Emptied
  PROVE  /\ trees' \in [Roots -> [Kinds -> Trees \cup {None}]]
         /\ linked' \subseteq Roots /\ own' \subseteq Roots /\ made' \subseteq Roots
<1>1. Target \in Roots /\ kind \in Kinds
  BY TargetTyped DEF TypeOK
<1>2. CASE kind = "dawn"
  BY <1>1, <1>2, NothingTyped DEF Emptied, TypeOK
<1>3. CASE kind # "dawn"
  BY <1>1, <1>3 DEF Emptied, TypeOK
<1> QED BY <1>2, <1>3

\* What is left of a removal that stops, in terms of what is gone and what is torn.
LEMMA RemovalParts ==
  ASSUME RemovalStops
  PROVE  \E gone \in SUBSET InTheWay, torn \in SUBSET InTheWay, state \in States :
           PartlyRemoved(gone, torn, state)
<1>1. PICK gone \in SUBSET InTheWay, state \in States \ {"whole"} :
        \E torn \in {{}} \cup {{p} : p \in InTheWay \ gone} :
          gone \cup torn # {} /\ PartlyRemoved(gone, torn, state)
  BY Zenon DEF RemovalStops
<1>2. PICK torn \in {{}} \cup {{p} : p \in InTheWay \ gone} :
        PartlyRemoved(gone, torn, state)
  BY <1>1
<1>3. torn \in SUBSET InTheWay
  BY <1>2
<1> QED BY <1>2, <1>3, Zenon

LEMMA RemovalTyped ==
  ASSUME TypeOK, RemovalStops
  PROVE  /\ trees' \in [Roots -> [Kinds -> Trees \cup {None}]]
         /\ linked' \subseteq Roots /\ own' \subseteq Roots
<1>1. PICK gone \in SUBSET InTheWay, torn \in SUBSET InTheWay, state \in States :
        PartlyRemoved(gone, torn, state)
  BY RemovalParts
<1>2. ASSUME NEW r \in Roots, NEW k \in Kinds
      PROVE  trees'[r][k] \in Trees \cup {None}
  <2>1. trees[r][k] \in Trees \cup {None}
    BY DEF TypeOK
  <2>2. trees'[r][k] = IF <<r, k>> \in gone THEN None
                       ELSE IF <<r, k>> \in torn THEN [trees[r][k] EXCEPT !.state = state]
                       ELSE trees[r][k]
    BY <1>1 DEF PartlyRemoved
  <2>3. CASE <<r, k>> \in torn
    <3>1. trees[r][k] # None
      BY <2>3 DEF InTheWay
    <3>2. [trees[r][k] EXCEPT !.state = state] \in Trees
      BY <2>1, <3>1 DEF Trees
    <3> QED BY <2>2, <2>3, <3>2
  <2> QED BY <2>1, <2>2, <2>3
<1>3. trees' \in [Roots -> [Kinds -> Trees \cup {None}]]
  BY <1>1, <1>2 DEF PartlyRemoved
<1>4. linked' \subseteq Roots
  BY <1>1 DEF PartlyRemoved, TypeOK
<1>5. own' \subseteq Roots
  BY DEF RemovalStops, TypeOK
<1> QED BY <1>3, <1>4, <1>5

LEMMA StartTyped ==
  ASSUME TypeOK, NEW q \in Requests, NEW cwd \in Roots, Start(q, cwd)
  PROVE  TypeOK'
<1>1. q \in Request /\ q # None
  BY NoneApart, WorkspaceAssumption
<1>2. Outer(q.root) \in Roots
  BY <1>1 DEF Request, Roots, Outer
<1>3. runs' \in 0..MaxRuns
  BY WorkspaceAssumption DEF Start, TypeOK
<1>4. FilesTyped'
  BY <1>2 DEF Start, TypeOK, FilesTyped
<1>5. RunTyped'
  BY <1>1, <1>3 DEF Start, TypeOK, RunTyped, Kinds
<1> QED BY <1>4, <1>5 DEF FilesTyped, RunTyped, TypeOK

LEMMA ResolveTyped ==
  ASSUME TypeOK, ResolveRef
  PROVE  TypeOK'
<1>1. request \in Request
  BY TargetTyped DEF ResolveRef
<1>2. request.source \in Sources /\ request.dawn \in Refs \cup {Latest}
  BY <1>1 DEF Request
<1>3. ref' \in Refs
  BY <1>2 DEF ResolveRef, TypeOK
<1>4. ref' # None
  BY <1>3, NoneApart
<1> QED BY <1>3, <1>4 DEF ResolveRef, TypeOK, files

LEMMA RcWritten ==
  ASSUME TypeOK, stage # "idle"
  PROVE  /\ Dumped \in RcFiles /\ EmptyRc \in RcFiles
         /\ [EmptyRc EXCEPT !.text = "torn"] \in RcFiles
         /\ [EmptyRc EXCEPT !.root = Target] \in RcFiles
  BY TargetTyped DEF Dumped, EmptyRc, RcFiles

LEMMA TypeStep == TypeOK /\ [Next]_vars => TypeOK'
<1> SUFFICES ASSUME TypeOK, [Next]_vars
             PROVE  TypeOK'
  OBVIOUS
<1>0. FilesTyped /\ RunTyped
  BY TypeParts
<1>1. ASSUME NEW q \in Requests, NEW cwd \in Roots, Start(q, cwd)
      PROVE  TypeOK'
  BY <1>1, StartTyped
<1>2. CASE ResolveRef
  BY <1>2, ResolveTyped
<1>3. CASE RefUnresolved \/ Refuse \/ LinkRefused \/ Stop
  <2>1. UNCHANGED <<files, rc, newest>>
    BY <1>3 DEF RefUnresolved, Refuse, LinkRefused, Stop
  <2>2. FilesTyped'
    BY <1>0, <2>1 DEF FilesTyped, files
  <2>3. RunTyped'
    BY <1>0, <1>3 DEF RunTyped, RefUnresolved, Refuse, LinkRefused, Stop, Ends, Outcomes
  <2> QED BY <2>2, <2>3 DEF FilesTyped, RunTyped, TypeOK
<1>4. CASE Prepare
  <2>1. stage = "prepare" /\ Target \in Roots
    BY <1>4, TargetTyped DEF Prepare
  <2>2. /\ trees' \in [Roots -> [Kinds -> Trees \cup {None}]]
        /\ linked' \subseteq Roots /\ own' \subseteq Roots /\ made' \subseteq Roots
    <3>1. CASE request.force
      BY <1>4, <2>1, <3>1, EmptiedTyped DEF Prepare
    <3>2. CASE ~request.force
      BY <1>4, <2>1, <3>2 DEF Prepare, TypeOK
    <3> QED BY <3>1, <3>2
  <2>3. FilesTyped'
    BY <1>0, <1>4, <2>2 DEF FilesTyped, Prepare
  <2>4. RunTyped'
    BY <1>0, <1>4 DEF RunTyped, Prepare
  <2> QED BY <2>3, <2>4 DEF FilesTyped, RunTyped, TypeOK
<1>5. CASE RemovalStops
  <2>1. FilesTyped'
    BY <1>0, <1>5, RemovalTyped DEF FilesTyped, RemovalStops
  <2>2. RunTyped'
    BY <1>0, <1>5 DEF RunTyped, RemovalStops, Ends, Outcomes
  <2> QED BY <2>1, <2>2 DEF FilesTyped, RunTyped, TypeOK
<1>6. CASE Fetch
  <2>1. trees' \in [Roots -> [Kinds -> Trees \cup {None}]]
    BY <1>6, DeliveredTyped DEF Fetch, States
  <2>2. FilesTyped'
    BY <1>0, <1>6, <2>1 DEF FilesTyped, Fetch
  <2>3. RunTyped'
    BY <1>0, <1>6, FollowTyped DEF Fetch
  <2> QED BY <2>2, <2>3 DEF FilesTyped, RunTyped, TypeOK
<1>7. CASE FetchFails
  <2>1. trees' \in [Roots -> [Kinds -> Trees \cup {None}]]
    BY <1>7, DeliveredTyped DEF FetchFails, TypeOK
  <2>2. FilesTyped'
    BY <1>0, <1>7, <2>1 DEF FilesTyped, FetchFails
  <2>3. RunTyped'
    BY <1>0, <1>7 DEF RunTyped, FetchFails, Ends, Outcomes
  <2> QED BY <2>2, <2>3 DEF FilesTyped, RunTyped, TypeOK
<1>8. CASE Link
  <2>1. Target \in Roots
    BY <1>8, TargetTyped DEF Link
  <2>2. FilesTyped'
    BY <1>0, <1>8, <2>1 DEF FilesTyped, Link
  <2>3. RunTyped'
    BY <1>0, <1>8 DEF RunTyped, Link, Ends, Outcomes
  <2> QED BY <2>2, <2>3 DEF FilesTyped, RunTyped, TypeOK
<1>9. CASE TruncateRc \/ DumpRc \/ DumpStops
  <2>1. stage \in {"rc", "dump"}
    BY <1>9 DEF TruncateRc, DumpRc, DumpStops
  <2>2. rc' \in RcFiles
    BY <1>9, <2>1, RcWritten DEF TruncateRc, DumpRc, DumpStops
  <2>3. UNCHANGED <<files, newest>>
    BY <1>9 DEF TruncateRc, DumpRc, DumpStops
  <2>4. FilesTyped'
    BY <1>0, <2>2, <2>3 DEF FilesTyped, files
  <2>5. RunTyped'
    BY <1>0, <1>9 DEF RunTyped, TruncateRc, DumpRc, DumpStops, Ends, Outcomes
  <2> QED BY <2>4, <2>5 DEF FilesTyped, RunTyped, TypeOK
<1>10. ASSUME NEW r \in Roots, UserAdds(r) \/ UserRemoves(r)
       PROVE  TypeOK'
  <2>1. trees' \in [Roots -> [Kinds -> Trees \cup {None}]]
    BY <1>10, NothingTyped DEF UserAdds, UserRemoves, TypeOK
  <2>2. FilesTyped'
    BY <1>0, <1>10, <2>1 DEF FilesTyped, UserAdds, UserRemoves
  <2>3. RunTyped'
    BY <1>0, <1>10 DEF RunTyped, UserAdds, UserRemoves
  <2> QED BY <2>2, <2>3 DEF FilesTyped, RunTyped, TypeOK
<1>11. CASE UserEditsRc
  <2>1. rc' \in RcFiles
    BY <1>0, <1>11 DEF FilesTyped, UserEditsRc, RcFiles
  <2>2. FilesTyped'
    BY <1>0, <1>11, <2>1 DEF FilesTyped, UserEditsRc, files
  <2>3. RunTyped'
    BY <1>0, <1>11 DEF RunTyped, UserEditsRc
  <2> QED BY <2>2, <2>3 DEF FilesTyped, RunTyped, TypeOK
<1>12. ASSUME NEW s \in Sources, NEW v \in Refs, Publish(s, v)
       PROVE  TypeOK'
  BY <1>12 DEF Publish, TypeOK, files
<1>13. CASE UNCHANGED vars
  BY <1>13 DEF vars, TypeOK
<1> QED
  BY <1>1, <1>2, <1>3, <1>4, <1>5, <1>6, <1>7, <1>8, <1>9, <1>10, <1>11, <1>12, <1>13
  DEF Next

\* For any workspaces, refs and command lines every variable keeps its type, and a run
\* that fetches, links or writes the rc file knows its request and its ref.
THEOREM TypeCorrect == Spec => []TypeOK
  BY TypeInit, TypeStep, PTL DEF Spec

-----------------------------------------------------------------------------
(* What a run has established, by the stage it is at *)

\* The tree k is there as it was asked for.
Arrived(k) == trees[Target][k] = [ref |-> WantedRef(k), state |-> "whole"]

\* The link lies in the apps.
LinksLead == \A r \in linked : trees[r]["apps"] # None

\* Where a tree is fetched to there is none, and none at all where Dawn comes.
Cleared ==
  stage = "fetch" =>
    trees[Target][kind] = None /\ (kind = "dawn" => trees[Target] = Nothing)

\* The trees come in order, and the rc file after all of them.
Arriving ==
  /\ stage = "resolve" => kind = "dawn"
  /\ stage \in {"prepare", "fetch"} /\ kind = "nuttx" =>
       request.withNuttx /\ Arrived("dawn")
  /\ stage \in {"prepare", "fetch"} /\ kind = "apps" =>
       request.withNuttx /\ Arrived("dawn") /\ Arrived("nuttx")
  /\ stage = "link" =>
       request.withNuttx /\ Arrived("dawn") /\ Arrived("nuttx") /\ Arrived("apps")

\* All that a run was asked for but the rc file.
Assembled ==
  /\ Arrived("dawn")
  /\ IF request.withNuttx
     THEN Arrived("nuttx") /\ Arrived("apps") /\ Target \in linked /\ ref \in Libraries
     ELSE /\ trees[Target]["nuttx"] = None /\ trees[Target]["apps"] = None
          /\ Target \notin linked
AtRc == stage \in {"rc", "dump"} => request.writeRc /\ Assembled

\* The global rc file names the NuttX of no root but the one it names.
RcTogether == rc.nuttx \in {None, rc.root}

InitInv == TypeOK /\ LinksLead /\ Cleared /\ Arriving /\ AtRc /\ RcTogether

LEMMA InitInvInit == Init => InitInv
<1> SUFFICES ASSUME Init
             PROVE  InitInv
  OBVIOUS
<1>1. TypeOK
  BY TypeInit
<1>2. stage = "idle" /\ linked = {} /\ rc.nuttx = None
  BY DEF Init, EmptyRc
<1> QED BY <1>1, <1>2 DEF InitInv, LinksLead, Cleared, Arriving, AtRc, RcTogether

\* Steps that leave the trees, the links and the request alone keep what has arrived.
LEMMA TreesKept ==
  ASSUME UNCHANGED <<trees, linked, request, ref>>
  PROVE  /\ \A k : Arrived(k)' <=> Arrived(k)
         /\ Assembled' <=> Assembled
         /\ LinksLead' <=> LinksLead
<1>1. \A k : Arrived(k)' <=> Arrived(k)
  BY DEF Arrived, Target, WantedRef
<1>2. Assembled' <=> Assembled
  BY <1>1 DEF Assembled, Target
<1>3. LinksLead' <=> LinksLead
  BY DEF LinksLead
<1> QED BY <1>1, <1>2, <1>3

\* A run that has ended promises nothing of the trees.
LEMMA IdleKeeps ==
  ASSUME TypeOK', LinksLead', RcTogether', stage' = "idle"
  PROVE  InitInv'
  BY DEF InitInv, Cleared, Arriving, AtRc

LEMMA PrepareKeeps ==
  ASSUME InitInv, Prepare, TypeOK'
  PROVE  InitInv'
<1>1. /\ stage = "prepare" /\ stage' = "fetch"
      /\ UNCHANGED <<rc, request, ref, kind>>
  BY DEF Prepare
<1>2. /\ Target \in Roots /\ kind \in Kinds
      /\ trees \in [Roots -> [Kinds -> Trees \cup {None}]]
  BY <1>1, TargetTyped DEF InitInv, TypeOK
<1>3. Target' = Target /\ \A k : WantedRef(k)' = WantedRef(k)
  BY <1>1 DEF Target, WantedRef
<1>4. Target \in Beneath(Target)
  BY <1>2 DEF Beneath
<1>5. Cleared' /\ LinksLead'
  <2>1. CASE request.force /\ kind = "dawn"
    <3>1. /\ trees' = [r \in Roots |-> IF r \in Beneath(Target) THEN Nothing ELSE trees[r]]
          /\ linked' = linked \ Beneath(Target)
      BY <2>1 DEF Prepare, Emptied
    <3>2. trees'[Target] = Nothing
      BY <1>2, <1>4, <3>1
    <3>3. LinksLead'
      BY <3>1 DEF LinksLead, InitInv, TypeOK
    <3> QED BY <1>1, <1>3, <2>1, <3>2, <3>3 DEF Cleared, Nothing, Kinds
  <2>2. CASE request.force /\ kind # "dawn"
    <3>1. /\ trees' = [trees EXCEPT ![Target][kind] = None]
          /\ linked' = IF kind = "apps" THEN linked \ {Target} ELSE linked
      BY <2>2 DEF Prepare, Emptied
    <3>2. trees'[Target][kind] = None
      BY <1>2, <3>1
    <3>3. LinksLead'
      BY <1>2, <2>2, <3>1 DEF LinksLead, InitInv, TypeOK, Kinds
    <3> QED BY <1>1, <1>3, <2>2, <3>2, <3>3 DEF Cleared
  <2>3. CASE ~request.force
    <3>1. UNCHANGED <<trees, linked>> /\ ~NonEmpty(Target, kind)
      BY <2>3 DEF Prepare
    <3>2. trees[Target][kind] = None /\ (kind = "dawn" => trees[Target] = Nothing)
      BY <1>2, <3>1 DEF NonEmpty, Nothing
    <3>3. LinksLead'
      BY <3>1 DEF LinksLead, InitInv
    <3> QED BY <1>1, <1>3, <3>1, <3>2, <3>3 DEF Cleared
  <2> QED BY <2>1, <2>2, <2>3
<1>6. ASSUME kind # "dawn", NEW k \in Kinds, k # kind
      PROVE  trees'[Target][k] = trees[Target][k]
  <2>1. CASE request.force
    BY <1>2, <1>6, <2>1 DEF Prepare, Emptied
  <2>2. CASE ~request.force
    BY <2>2 DEF Prepare
  <2> QED BY <2>1, <2>2
<1>7. Arriving'
  <2>1. CASE kind = "nuttx"
    <3>1. trees'[Target]["dawn"] = trees[Target]["dawn"]
      BY <1>6, <2>1 DEF Kinds
    <3>2. request.withNuttx /\ Arrived("dawn")
      BY <1>1, <2>1 DEF InitInv, Arriving
    <3> QED BY <1>1, <1>3, <2>1, <3>1, <3>2 DEF Arriving, Arrived
  <2>2. CASE kind = "apps"
    <3>1. /\ trees'[Target]["dawn"] = trees[Target]["dawn"]
          /\ trees'[Target]["nuttx"] = trees[Target]["nuttx"]
      BY <1>6, <2>2 DEF Kinds
    <3>2. request.withNuttx /\ Arrived("dawn") /\ Arrived("nuttx")
      BY <1>1, <2>2 DEF InitInv, Arriving
    <3> QED BY <1>1, <1>3, <2>2, <3>1, <3>2 DEF Arriving, Arrived
  <2>3. CASE kind = "dawn"
    BY <1>1, <2>3 DEF Arriving
  <2> QED BY <1>2, <2>1, <2>2, <2>3 DEF Kinds
<1> QED BY <1>1, <1>5, <1>7 DEF InitInv, AtRc, RcTogether

LEMMA RemovalKeeps ==
  ASSUME InitInv, RemovalStops, TypeOK'
  PROVE  InitInv'
<1>1. PICK gone \in SUBSET InTheWay, torn \in SUBSET InTheWay, state \in States :
        PartlyRemoved(gone, torn, state)
  BY RemovalParts
<1>2. ASSUME NEW r \in linked'
      PROVE  trees'[r]["apps"] # None
  <2>1. r \in linked /\ r \in Roots /\ <<r, "apps">> \notin gone \cup torn
    BY <1>1, <1>2 DEF PartlyRemoved, InitInv, TypeOK
  <2>2. trees'[r]["apps"] = trees[r]["apps"]
    BY <1>1, <2>1 DEF PartlyRemoved, Kinds
  <2> QED BY <2>1, <2>2 DEF InitInv, LinksLead
<1>3. LinksLead'
  BY <1>2 DEF LinksLead
<1>4. stage' = "idle" /\ rc' = rc
  BY DEF RemovalStops, Ends
<1> QED BY <1>3, <1>4, IdleKeeps DEF InitInv, RcTogether

\* A tree comes to a place where none is.
LEMMA DeliveredKeeps ==
  ASSUME InitInv, stage = "fetch", NEW state \in States, Delivered(state),
         UNCHANGED <<linked, request, ref>>
  PROVE  /\ LinksLead'
         /\ trees'[Target][kind] = [ref |-> WantedRef(kind), state |-> state]
         /\ \A k \in Kinds : k # kind => trees'[Target][k] = trees[Target][k]
<1>1. /\ Target \in Roots /\ kind \in Kinds /\ WantedRef(kind) \in Refs
      /\ trees \in [Roots -> [Kinds -> Trees \cup {None}]]
  BY TargetTyped, NoneApart DEF InitInv, TypeOK
<1>2. trees' = [trees EXCEPT ![Target][kind] = [ref |-> WantedRef(kind), state |-> state]]
  BY DEF Delivered
<1>3. [ref |-> WantedRef(kind), state |-> state] # None
  <2>1. [ref |-> WantedRef(kind), state |-> state] \in Trees
    BY <1>1 DEF Trees
  <2> QED BY <2>1, NoneApart
<1>4. ASSUME NEW r \in linked
      PROVE  trees'[r]["apps"] # None
  <2>1. r \in Roots /\ trees[r]["apps"] # None
    BY DEF InitInv, LinksLead, TypeOK
  <2> QED BY <1>1, <1>2, <1>3, <2>1 DEF Kinds
<1>5. LinksLead'
  BY <1>4 DEF LinksLead
<1> QED BY <1>1, <1>2, <1>5

\* Dawn alone was asked for, and comes to an empty place.
LEMMA FetchAssembles ==
  ASSUME InitInv, Fetch, kind = "dawn", ~request.withNuttx
  PROVE  Assembled'
<1>1. stage = "fetch" /\ Delivered("whole") /\ UNCHANGED <<linked, request, ref>>
  BY DEF Fetch
<1>2. /\ trees'[Target]["dawn"] = [ref |-> ref, state |-> "whole"]
      /\ \A k \in Kinds : k # "dawn" => trees'[Target][k] = trees[Target][k]
  BY <1>1, DeliveredKeeps DEF States, WantedRef
<1>3. Target' = Target /\ \A k : WantedRef(k)' = WantedRef(k)
  BY <1>1 DEF Target, WantedRef
<1>4. trees[Target] = Nothing
  BY <1>1 DEF InitInv, Cleared
<1>5. trees'[Target]["nuttx"] = None /\ trees'[Target]["apps"] = None
  BY <1>2, <1>4 DEF Nothing, Kinds
<1>6. Target \notin linked
  BY <1>4 DEF InitInv, LinksLead, Nothing, Kinds
<1>7. Arrived("dawn")'
  BY <1>1, <1>2, <1>3 DEF Arrived, WantedRef
<1> QED BY <1>1, <1>3, <1>5, <1>6, <1>7 DEF Assembled

LEMMA FetchKeeps ==
  ASSUME InitInv, Fetch, TypeOK'
  PROVE  InitInv'
<1>1. /\ stage = "fetch" /\ Delivered("whole") /\ Follow(kind)
      /\ UNCHANGED <<linked, rc, request, ref>>
  BY DEF Fetch
<1>2. /\ LinksLead'
      /\ trees'[Target][kind] = [ref |-> WantedRef(kind), state |-> "whole"]
      /\ \A k \in Kinds : k # kind => trees'[Target][k] = trees[Target][k]
  BY <1>1, DeliveredKeeps DEF States
<1>3. Target' = Target /\ \A k : WantedRef(k)' = WantedRef(k)
  BY <1>1 DEF Target, WantedRef
<1>4. kind \in Kinds /\ Target \in Roots
  BY <1>1, TargetTyped DEF InitInv, TypeOK
<1>5. Cleared' /\ RcTogether' /\ stage' # "resolve" /\ stage' # "fetch"
  BY <1>1 DEF Cleared, RcTogether, InitInv, Follow, Ends
<1>6. CASE kind = "dawn" /\ request.withNuttx
  <2>1. stage' = "prepare" /\ kind' = "nuttx"
    BY <1>1, <1>6 DEF Follow
  <2>2. Arrived("dawn")'
    BY <1>2, <1>3, <1>6 DEF Arrived
  <2> QED BY <1>1, <1>2, <1>5, <1>6, <2>1, <2>2 DEF InitInv, Arriving, AtRc
<1>7. CASE kind = "dawn" /\ ~request.withNuttx
  <2>1. stage' \in {"rc", "idle"} /\ (stage' = "rc" => request.writeRc)
    BY <1>1, <1>7 DEF Follow, Ends
  <2>2. Assembled'
    BY <1>7, FetchAssembles
  <2> QED BY <1>1, <1>2, <1>5, <2>1, <2>2 DEF InitInv, Arriving, AtRc
<1>8. CASE kind = "nuttx"
  <2>1. stage' = "prepare" /\ kind' = "apps"
    BY <1>1, <1>8 DEF Follow
  <2>2. request.withNuttx /\ Arrived("dawn")
    BY <1>1, <1>8 DEF InitInv, Arriving
  <2>3. Arrived("dawn")'
    BY <1>2, <1>3, <1>8, <2>2 DEF Arrived, Kinds
  <2>4. Arrived("nuttx")'
    BY <1>2, <1>3, <1>8 DEF Arrived
  <2> QED BY <1>1, <1>2, <1>5, <2>1, <2>2, <2>3, <2>4 DEF InitInv, Arriving, AtRc
<1>9. CASE kind = "apps"
  <2>1. stage' = "link"
    BY <1>1, <1>9 DEF Follow
  <2>2. request.withNuttx /\ Arrived("dawn") /\ Arrived("nuttx")
    BY <1>1, <1>9 DEF InitInv, Arriving
  <2>3. Arrived("dawn")' /\ Arrived("nuttx")'
    BY <1>2, <1>3, <1>9, <2>2 DEF Arrived, Kinds
  <2>4. Arrived("apps")'
    BY <1>2, <1>3, <1>9 DEF Arrived
  <2> QED BY <1>1, <1>2, <1>5, <2>1, <2>2, <2>3, <2>4 DEF InitInv, Arriving, AtRc
<1> QED BY <1>4, <1>6, <1>7, <1>8, <1>9 DEF Kinds

LEMMA FetchFailsKeeps ==
  ASSUME InitInv, FetchFails, TypeOK'
  PROVE  InitInv'
<1>1. /\ stage = "fetch" /\ stage' = "idle"
      /\ UNCHANGED <<linked, rc, request, ref>>
  BY DEF FetchFails, Ends
<1>2. LinksLead'
  <2>1. CASE UNCHANGED trees
    BY <1>1, <2>1 DEF InitInv, LinksLead
  <2>2. CASE \E state \in States \ {"whole"} : Delivered(state)
    BY <1>1, <2>2, DeliveredKeeps
  <2> QED BY <2>1, <2>2 DEF FetchFails
<1> QED BY <1>1, <1>2, IdleKeeps DEF InitInv, RcTogether

LEMMA LinkAssembles ==
  ASSUME InitInv, Link
  PROVE  Assembled'
<1>1. /\ stage = "link" /\ ref \in Libraries /\ linked' = linked \cup {Target}
      /\ UNCHANGED <<trees, request, ref>>
  BY DEF Link
<1>2. request.withNuttx /\ Arrived("dawn") /\ Arrived("nuttx") /\ Arrived("apps")
  BY <1>1 DEF InitInv, Arriving
<1>3. Target' = Target /\ \A k : Arrived(k)' <=> Arrived(k)
  BY <1>1 DEF Target, Arrived, WantedRef
<1> QED BY <1>1, <1>2, <1>3 DEF Assembled

LEMMA LinkKeeps ==
  ASSUME InitInv, Link, TypeOK'
  PROVE  InitInv'
<1>1. /\ stage = "link" /\ ref \in Libraries /\ linked' = linked \cup {Target}
      /\ stage' \in {"rc", "idle"} /\ (stage' = "rc" => request.writeRc)
      /\ UNCHANGED <<trees, rc, request, ref>>
  BY DEF Link, Ends
<1>2. request.withNuttx /\ Arrived("dawn") /\ Arrived("nuttx") /\ Arrived("apps")
  BY <1>1 DEF InitInv, Arriving
<1>4. trees[Target]["apps"] # None
  <2>1. Target \in Roots /\ WantedRef("apps") \in Refs
    BY <1>1, TargetTyped, NoneApart DEF InitInv, TypeOK, Kinds
  <2>2. [ref |-> WantedRef("apps"), state |-> "whole"] \in Trees
    BY <2>1 DEF Trees, States
  <2> QED BY <1>2, <2>2, NoneApart DEF Arrived
<1>5. LinksLead'
  BY <1>1, <1>4 DEF InitInv, LinksLead
<1>6. Assembled'
  BY LinkAssembles
<1> QED BY <1>1, <1>5, <1>6 DEF InitInv, Cleared, Arriving, AtRc, RcTogether

\* The rc file that an init writes names its own root or none.
LEMMA RcNames ==
  ASSUME TruncateRc \/ DumpRc \/ DumpStops
  PROVE  /\ rc'.root \in {None, Target}
         /\ rc'.nuttx \in {None, rc'.root}
         /\ rc'.nuttx # None => request.withNuttx
<1>1. /\ EmptyRc.root = None /\ EmptyRc.nuttx = None
      /\ [EmptyRc EXCEPT !.text = "torn"].root = None
      /\ [EmptyRc EXCEPT !.text = "torn"].nuttx = None
      /\ [EmptyRc EXCEPT !.root = Target].root = Target
      /\ [EmptyRc EXCEPT !.root = Target].nuttx = None
  BY DEF EmptyRc
<1>2. /\ Dumped.root = Target /\ Dumped.nuttx \in {None, Target}
      /\ Dumped.nuttx # None => request.withNuttx
  BY DEF EmptyRc, Dumped
<1>3. rc' \in {EmptyRc, [EmptyRc EXCEPT !.text = "torn"], [EmptyRc EXCEPT !.root = Target],
               Dumped}
  BY DEF TruncateRc, DumpRc, DumpStops
<1> QED BY <1>1, <1>2, <1>3

LEMMA RcStepsKeep ==
  ASSUME InitInv, TruncateRc \/ DumpRc \/ DumpStops, TypeOK'
  PROVE  InitInv'
<1>1. UNCHANGED <<trees, linked, request, ref>> /\ stage \in {"rc", "dump"}
      /\ stage' \in {"dump", "idle"}
  BY DEF TruncateRc, DumpRc, DumpStops, Ends, files
<1>2. RcTogether'
  BY RcNames DEF RcTogether
<1>3. LinksLead' /\ AtRc'
  BY <1>1, TreesKept DEF InitInv, AtRc
<1> QED BY <1>1, <1>2, <1>3 DEF InitInv, Cleared, Arriving

\* A run begins, or the world around it moves.
LEMMA StartKeeps ==
  ASSUME InitInv, NEW q \in Requests, NEW cwd \in Roots, Start(q, cwd), TypeOK'
  PROVE  InitInv'
<1>1. stage' = "resolve" /\ kind' = "dawn" /\ UNCHANGED <<trees, linked, rc>>
  BY DEF Start
<1> QED BY <1>1 DEF InitInv, LinksLead, Cleared, Arriving, AtRc, RcTogether

LEMMA ResolveKeeps ==
  ASSUME InitInv, ResolveRef, TypeOK'
  PROVE  InitInv'
<1>1. /\ stage' = "prepare" /\ kind' = "dawn"
      /\ UNCHANGED <<trees, linked, rc>>
  BY DEF ResolveRef, InitInv, Arriving, files
<1> QED BY <1>1 DEF InitInv, LinksLead, Cleared, Arriving, AtRc, RcTogether

LEMMA UserKeeps ==
  ASSUME InitInv, NEW r \in Roots, UserAdds(r) \/ UserRemoves(r), TypeOK'
  PROVE  InitInv'
<1>1. stage' = "idle" /\ rc' = rc
  BY DEF UserAdds, UserRemoves
<1>2. LinksLead'
  BY DEF UserAdds, UserRemoves, InitInv, LinksLead, TypeOK
<1> QED BY <1>1, <1>2, IdleKeeps DEF InitInv, RcTogether

LEMMA InitInvStep == InitInv /\ [Next]_vars => InitInv'
<1> SUFFICES ASSUME InitInv, [Next]_vars
             PROVE  InitInv'
  OBVIOUS
<1>1. TypeOK'
  BY TypeStep DEF InitInv
<1>2. ASSUME NEW q \in Requests, NEW cwd \in Roots, Start(q, cwd)
      PROVE  InitInv'
  BY <1>1, <1>2, StartKeeps
<1>3. CASE ResolveRef
  BY <1>1, <1>3, ResolveKeeps
<1>4. CASE RefUnresolved \/ Refuse \/ LinkRefused \/ Stop
  <2>1. stage' = "idle" /\ UNCHANGED <<trees, linked, rc>>
    BY <1>4 DEF RefUnresolved, Refuse, LinkRefused, Stop, Ends, files
  <2> QED BY <1>1, <2>1, IdleKeeps DEF InitInv, LinksLead, RcTogether
<1>5. CASE Prepare
  BY <1>1, <1>5, PrepareKeeps
<1>6. CASE RemovalStops
  BY <1>1, <1>6, RemovalKeeps
<1>7. CASE Fetch
  BY <1>1, <1>7, FetchKeeps
<1>8. CASE FetchFails
  BY <1>1, <1>8, FetchFailsKeeps
<1>9. CASE Link
  BY <1>1, <1>9, LinkKeeps
<1>10. CASE TruncateRc \/ DumpRc \/ DumpStops
  BY <1>1, <1>10, RcStepsKeep
<1>11. ASSUME NEW r \in Roots, UserAdds(r) \/ UserRemoves(r)
       PROVE  InitInv'
  BY <1>1, <1>11, UserKeeps
<1>12. CASE UserEditsRc
  <2>1. stage' = "idle" /\ rc'.nuttx = rc.nuttx /\ rc'.root = rc.root
        /\ UNCHANGED <<trees, linked>>
    BY <1>12 DEF UserEditsRc, files, InitInv, TypeOK, RcFiles
  <2> QED BY <1>1, <2>1, IdleKeeps DEF InitInv, LinksLead, RcTogether
<1>13. CASE UNCHANGED <<trees, linked, rc, request, ref, stage, kind>>
  <2>1. Target' = Target
    BY <1>13 DEF Target
  <2>2. LinksLead' /\ AtRc' /\ RcTogether'
    BY <1>13, TreesKept DEF InitInv, AtRc, RcTogether
  <2>3. Cleared' /\ Arriving'
    BY <1>13, <2>1, TreesKept DEF InitInv, Cleared, Arriving
  <2> QED BY <1>1, <2>2, <2>3 DEF InitInv
<1>14. ASSUME NEW s \in Sources, NEW v \in Refs, Publish(s, v)
       PROVE  InitInv'
  BY <1>13, <1>14 DEF Publish, files
<1>15. CASE UNCHANGED vars
  BY <1>13, <1>15 DEF vars
<1> QED
  BY <1>2, <1>3, <1>4, <1>5, <1>6, <1>7, <1>8, <1>9, <1>10, <1>11, <1>12, <1>14, <1>15
  DEF Next

LEMMA InitInvAlways == Spec => []InitInv
  BY InitInvInit, InitInvStep, PTL DEF Spec

-----------------------------------------------------------------------------
(* The theorems *)

\* Whatever fails or is killed, an init removes or replaces what others delivered or the
\* user keeps only under --force, at or beneath its own root, once its ref is resolved.
THEOREM OnlyForceDestroys == Spec => OnlyForceLoses
<1> DEFINE Safe == \A r \in Roots : stage # "idle" /\ Lost(r) =>
                     request.force /\ r \in Beneath(Target) /\ ref # None
<1>1. ASSUME InitInv, Prepare, NEW r \in Roots, Lost(r)
      PROVE  request.force /\ r \in Beneath(Target) /\ ref # None
  <2>1. stage = "prepare" /\ Target \in Roots /\ kind \in Kinds
    BY <1>1, TargetTyped DEF Prepare, InitInv, TypeOK
  <2>2. ref # None
    BY <1>1, <2>1 DEF InitInv, TypeOK
  <2>3. request.force
    BY <1>1 DEF Prepare, Lost
  <2>4. r \in Beneath(Target)
    <3>1. CASE kind = "dawn"
      BY <1>1, <2>3, <3>1 DEF Prepare, Emptied, Lost, InitInv, TypeOK
    <3>2. CASE kind # "dawn"
      <4>1. r # Target => trees'[r] = trees[r] /\ own' = own /\ (r \in linked => r \in linked')
        BY <1>1, <2>1, <2>3, <3>2 DEF Prepare, Emptied, InitInv, TypeOK
      <4>2. r = Target
        BY <1>1, <4>1 DEF Lost
      <4> QED BY <4>2 DEF Beneath
    <3> QED BY <3>1, <3>2
  <2> QED BY <2>2, <2>3, <2>4
<1>2. ASSUME InitInv, RemovalStops, NEW r \in Roots, Lost(r)
      PROVE  request.force /\ r \in Beneath(Target) /\ ref # None
  <2>1. stage = "prepare" /\ Target \in Roots /\ kind \in Kinds /\ request.force
    BY <1>2, TargetTyped DEF RemovalStops, InitInv, TypeOK
  <2>2. ref # None
    BY <1>2, <2>1 DEF InitInv, TypeOK
  <2>3. PICK gone \in SUBSET InTheWay, torn \in SUBSET InTheWay, state \in States :
          PartlyRemoved(gone, torn, state)
    BY <1>2, RemovalParts
  <2>4. \A k \in Kinds : <<r, k>> \in InTheWay => r \in Beneath(Target)
    BY <2>1 DEF InTheWay, Beneath
  <2>5. ASSUME r \notin Beneath(Target)
        PROVE  FALSE
    <3>1. \A k \in Kinds : trees'[r][k] = trees[r][k]
      BY <2>3, <2>4, <2>5 DEF PartlyRemoved
    <3>2. r \in linked => r \in linked'
      BY <2>3, <2>4, <2>5 DEF PartlyRemoved, Kinds
    <3>3. r \in own => r \in own'
      BY <1>2, <2>5 DEF RemovalStops
    <3> QED BY <1>2, <3>1, <3>2, <3>3 DEF Lost
  <2> QED BY <2>1, <2>2, <2>5
<1>3. ASSUME InitInv, Fetch \/ FetchFails, NEW r \in Roots
      PROVE  ~Lost(r)
  <2>1. stage = "fetch" /\ UNCHANGED <<linked, own, request, ref>>
    BY <1>3 DEF Fetch, FetchFails
  <2>2. Target \in Roots /\ kind \in Kinds
    BY <1>3, <2>1, TargetTyped DEF InitInv, TypeOK
  <2>3. trees[Target][kind] = None
    BY <1>3, <2>1 DEF InitInv, Cleared
  <2>4. \A k \in Kinds : trees[r][k] # None => trees'[r][k] = trees[r][k]
    BY <1>3, <2>2, <2>3 DEF Fetch, FetchFails, Delivered, InitInv, TypeOK
  <2> QED BY <2>1, <2>4 DEF Lost
<1>4. ASSUME UNCHANGED <<trees, own>>, linked \subseteq linked', NEW r \in Roots
      PROVE  ~Lost(r)
  BY <1>4 DEF Lost
<1>5. ASSUME InitInv, [Next]_vars
      PROVE  Safe
  <2>1. CASE stage = "idle"
    BY <2>1
  <2>2. CASE Prepare
    BY <1>1, <1>5, <2>2
  <2>3. CASE RemovalStops
    BY <1>2, <1>5, <2>3
  <2>4. CASE Fetch \/ FetchFails
    BY <1>3, <1>5, <2>4
  <2>5. CASE UNCHANGED <<trees, own>> /\ linked \subseteq linked'
    BY <1>4, <2>5
  <2>6. ASSUME stage # "idle", ~Prepare, ~RemovalStops, ~Fetch, ~FetchFails
        PROVE  UNCHANGED <<trees, own>> /\ linked \subseteq linked'
    <3>1. \/ ResolveRef \/ RefUnresolved \/ Refuse \/ Link \/ LinkRefused
          \/ TruncateRc \/ DumpRc \/ DumpStops \/ Stop
          \/ \E s \in Sources, v \in Refs : Publish(s, v)
          \/ UNCHANGED vars
      BY <1>5, <2>6 DEF Next, Start, UserAdds, UserRemoves, UserEditsRc
    <3> QED
      BY <3>1 DEF ResolveRef, RefUnresolved, Refuse, Link, LinkRefused, TruncateRc, DumpRc,
                  DumpStops, Stop, Publish, files, vars
  <2> QED BY <2>1, <2>2, <2>3, <2>4, <2>5, <2>6
<1>6. InitInv /\ [Next]_vars => [Safe]_vars
  BY <1>5
<1> QED BY <1>6, InitInvAlways, PTL DEF Spec, OnlyForceLoses

\* The global rc file comes to name a root only once every tree it names there is whole,
\* and the link that builds Dawn among the apps with them.
THEOREM RcFollowsDelivery == Spec => RcNamesDelivered
<1> DEFINE Told ==
      /\ rc'.root \notin {None, rc.root} => IsWhole(trees[rc'.root]["dawn"])
      /\ rc'.nuttx \notin {None, rc.nuttx} =>
           /\ IsWhole(trees[rc'.nuttx]["nuttx"])
           /\ IsWhole(trees[rc'.nuttx]["apps"])
           /\ rc'.nuttx \in linked
<1>1. ASSUME rc'.root \in {None, rc.root}, rc'.nuttx \in {None, rc.nuttx}
      PROVE  Told
  BY <1>1
<1>2. ASSUME InitInv, NEW k \in Kinds, Arrived(k), stage # "idle", ref \in Refs
      PROVE  IsWhole(trees[Target][k])
  <2>1. [ref |-> WantedRef(k), state |-> "whole"] \in Trees
    BY <1>2, TargetTyped DEF InitInv, Trees, States
  <2>2. [ref |-> WantedRef(k), state |-> "whole"] # None
    BY <2>1, NoneApart
  <2> QED BY <1>2, <2>2 DEF Arrived, IsWhole
<1>3. ASSUME InitInv, DumpRc \/ DumpStops
      PROVE  Told
  <2>1. stage = "dump" /\ ref \in Refs /\ Assembled
    BY <1>3, NoneApart DEF DumpRc, DumpStops, InitInv, AtRc, TypeOK
  <2>2. IsWhole(trees[Target]["dawn"])
    BY <1>2, <1>3, <2>1 DEF Assembled, Kinds
  <2>3. ASSUME request.withNuttx
        PROVE  /\ IsWhole(trees[Target]["nuttx"]) /\ IsWhole(trees[Target]["apps"])
               /\ Target \in linked
    BY <1>2, <1>3, <2>1, <2>3 DEF Assembled, Kinds
  <2> QED BY <1>3, <2>2, <2>3, RcNames
<1>4. ASSUME InitInv, [Next]_vars
      PROVE  Told
  <2>1. CASE DumpRc \/ DumpStops
    BY <1>3, <1>4, <2>1
  <2>2. CASE TruncateRc
    <3>1. rc'.root = None /\ rc'.nuttx = None
      BY <2>2 DEF TruncateRc, EmptyRc
    <3> QED BY <1>1, <3>1
  <2>3. CASE UserEditsRc
    <3>1. rc'.root = rc.root /\ rc'.nuttx = rc.nuttx
      BY <1>4, <2>3 DEF UserEditsRc, InitInv, TypeOK, RcFiles
    <3> QED BY <1>1, <3>1
  <2>4. CASE UNCHANGED rc
    BY <1>1, <2>4
  <2>5. ASSUME ~DumpRc, ~DumpStops, ~TruncateRc, ~UserEditsRc
        PROVE  UNCHANGED rc
    BY <1>4, <2>5
    DEF Next, Start, ResolveRef, RefUnresolved, Refuse, Prepare, RemovalStops, Fetch,
        FetchFails, Link, LinkRefused, Stop, UserAdds, UserRemoves, Publish, vars
  <2> QED BY <2>1, <2>2, <2>3, <2>4, <2>5
<1>5. InitInv /\ [Next]_vars => [Told]_vars
  BY <1>4
<1> QED BY <1>5, InitInvAlways, PTL DEF Spec, RcNamesDelivered

\* What a successful run leaves, in terms of Complete.
Ready ==
  /\ Target \in Roots /\ ref \in Refs /\ Assembled
  /\ request.writeRc => rc = Dumped

LEMMA ReadyIsComplete == Ready => Complete(request, ref)
<1> SUFFICES ASSUME Ready
             PROVE  Complete(request, ref)
  OBVIOUS
<1>1. /\ trees[Target]["dawn"] = [ref |-> ref, state |-> "whole"]
      /\ request.withNuttx =>
           /\ trees[Target]["nuttx"] = [ref |-> request.nuttx, state |-> "whole"]
           /\ trees[Target]["apps"] = [ref |-> request.apps, state |-> "whole"]
  BY DEF Ready, Assembled, Arrived, WantedRef
<1>2. Recognised(Target)
  <2>1. [ref |-> ref, state |-> "whole"] \in Trees
    BY DEF Ready, Trees, States
  <2>2. [ref |-> ref, state |-> "whole"] # None
    BY <2>1, NoneApart
  <2> QED BY <1>1, <2>2 DEF Recognised
<1>3. Target # None
  BY NoneApart DEF Ready
<1>4. DawnRoot(Target, Plain) = Target \/ RcAt(Target).root \notin {None, Target}
  <2>1. CASE RcAt(Target).root = None
    <3>1. DawnRoot(Target, Plain) = Nearest(Target, Recognised)
      BY <2>1 DEF DawnRoot, FirstNamed, Plain
    <3>2. Nearest(Target, Recognised) = Target
      BY <1>2 DEF Nearest
    <3> QED BY <3>1, <3>2
  <2>2. CASE RcAt(Target).root = Target
    BY <1>3, <2>2 DEF DawnRoot, FirstNamed, Plain
  <2> QED BY <2>1, <2>2
<1>5. request.writeRc => rc.root = Target /\ (request.withNuttx <=> rc.nuttx = Target)
  BY <1>3 DEF Ready, Dumped, EmptyRc
<1> QED BY <1>1, <1>4, <1>5 DEF Ready, Complete, Assembled, Target

\* An init that reports success has made all it was asked for: the trees of the refs and
\* no others, the link, the rc file, and a root that commands started in it work on unless
\* an rc file names another.
THEOREM SuccessMeansComplete == Spec => SuccessIsComplete
<1>1. ASSUME InitInv, [Next]_vars, outcome' = "done", outcome # "done"
      PROVE  Ready'
  <2>1. Fetch \/ Link \/ DumpRc
    BY <1>1, NoneApart
    DEF Next, Start, ResolveRef, RefUnresolved, Refuse, Prepare, RemovalStops, FetchFails,
        LinkRefused, TruncateRc, DumpStops, Stop, UserAdds, UserRemoves, UserEditsRc,
        Publish, Ends, vars
  <2>2. stage # "idle" /\ ref \in Refs /\ UNCHANGED <<request, ref>>
    BY <1>1, <2>1, NoneApart DEF Fetch, Link, DumpRc, InitInv, TypeOK
  <2>3. Target \in Roots
    BY <1>1, <2>2, TargetTyped DEF InitInv
  <2>4. (Target \in Roots /\ ref \in Refs)'
    BY <2>2, <2>3 DEF Target
  <2>5. CASE Fetch
    <3>1. kind = "dawn" /\ ~request.withNuttx /\ ~request.writeRc
      BY <1>1, <2>5 DEF Fetch, Follow, Ends
    <3> QED BY <1>1, <2>2, <2>4, <2>5, <3>1, FetchAssembles DEF Ready
  <2>6. CASE Link
    <3>1. ~request.writeRc
      BY <1>1, <2>6 DEF Link, Ends
    <3> QED BY <1>1, <2>2, <2>4, <2>6, <3>1, LinkAssembles DEF Ready
  <2>7. CASE DumpRc
    <3>1. UNCHANGED <<trees, linked>> /\ rc' = Dumped /\ Dumped' = Dumped
      BY <2>2, <2>7 DEF DumpRc, files, Dumped, Target
    <3>2. Assembled'
      BY <1>1, <2>2, <2>7, <3>1, TreesKept DEF DumpRc, InitInv, AtRc
    <3> QED BY <2>4, <3>1, <3>2 DEF Ready
  <2> QED BY <2>1, <2>5, <2>6, <2>7
<1>2. Ready' => Complete(request, ref)'
  BY ReadyIsComplete, PTL
<1>3. InitInv /\ [Next]_vars =>
        [outcome' = "done" /\ outcome # "done" => Complete(request, ref)']_vars
  BY <1>1, <1>2
<1> QED BY <1>3, InitInvAlways, PTL DEF Spec, SuccessIsComplete

\* No command builds one Dawn against the NuttX of another, nor takes a whole checkout for
\* an out-of-tree project of another, unless an option, the environment or an rc file
\* names one of the two.
THEOREM CheckoutsTogether == Spec => []OneCheckout
<1>1. InitInv => OneCheckout
  <2> SUFFICES ASSUME InitInv, NEW r \in Roots, NEW o \in Overrides, Resolves(r, o)
               PROVE  /\ NuttxRoot(r, o) = DawnRoot(r, o)
                         \/ o.nuttx # None \/ (o.root # None /\ RcAt(r).nuttx # None)
                      /\ LET p == ProjectRoot(r, o)
                         IN p \in Roots /\ p # DawnRoot(r, o) /\ p \notin own
                            /\ IsWhole(trees[p]["dawn"])
                            => o.root # None \/ RcAt(r).root # None
    BY DEF OneCheckout
  <2>1. RcAt(r).nuttx \in {None, RcAt(r).root}
    BY DEF RcAt, EmptyRc, InitInv, RcTogether
  <2>2. NuttxRoot(r, o) = DawnRoot(r, o)
        \/ o.nuttx # None \/ (o.root # None /\ RcAt(r).nuttx # None)
    BY <2>1 DEF NuttxRoot, DawnRoot, FirstNamed
  <2>3. ASSUME o.root = None, RcAt(r).root = None, NEW p, p = ProjectRoot(r, o),
               p # DawnRoot(r, o), p \notin own, IsWhole(trees[p]["dawn"])
        PROVE  FALSE
    <3>1. DawnRoot(r, o) = Nearest(r, Recognised) /\ DawnRoot(r, o) # None
      BY <2>3 DEF DawnRoot, FirstNamed, Resolves
    <3>2. \/ DawnRoot(r, o) = r /\ Recognised(r)
          \/ DawnRoot(r, o) = Outer(r) /\ ~Recognised(r) /\ Recognised(Outer(r))
      BY <3>1 DEF Nearest
    <3>3. \A s : Recognised(s) => HasBoards(s)
      BY DEF Recognised, HasBoards
    <3>4. \/ Nearest(r, HasBoards) = r /\ HasBoards(r)
          \/ Nearest(r, HasBoards) = Outer(r) /\ ~HasBoards(r)
      BY <3>2, <3>3 DEF Nearest
    <3>5. r # None /\ Outer(r) # None
      BY NoneApart DEF Outer, Roots
    <3>6. p = Nearest(r, HasBoards)
      BY <2>3, <3>4, <3>5 DEF ProjectRoot, FirstNamed
    <3>7. p = r => Recognised(r)
      BY <2>3 DEF IsWhole, Recognised
    <3> QED BY <2>3, <3>2, <3>3, <3>4, <3>6, <3>7
  <2> QED BY <2>2, <2>3
<1> QED BY <1>1, InitInvAlways, PTL
=============================================================================
