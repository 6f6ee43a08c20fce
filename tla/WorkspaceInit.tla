---------------------------- MODULE WorkspaceInit ----------------------------
(***************************************************************************)
(* `dawnpy init` (dawn/workspace_init.py) and what the other commands make *)
(* of its result: the global rc file (config.py) and Project.resolve       *)
(* (dawn/project.py).  An init resolves the ref, empties or refuses its    *)
(* target, fetches Dawn and perhaps NuttX and its apps beneath it, links   *)
(* Dawn into the apps and writes the rc file last.  Every step may fail or *)
(* be interrupted, and what it did stays; git, GitHub and the file system  *)
(* are external.  The user keeps files in these directories, removes trees *)
(* and edits the rc file between the runs.                                 *)
(***************************************************************************)
EXTENDS Naturals, FiniteSets

CONSTANTS
  Workspaces,   \* the PATH arguments, none beneath another
  Refs,         \* tags and branches of the three repositories
  Libraries,    \* Dawn refs whose tree has a dawn/ directory
  Occupied,     \* apps refs whose tree has something at external
  Requests,     \* the command lines that occur
  LocalRc,      \* the Dawn root that the .dawnrc of a user's project names
  Latest,       \* the default of --dawn-ref
  Home,         \* the directory of the global rc file
  None,
  MaxRuns       \* bound on the inits of a behaviour

Kinds   == {"dawn", "nuttx", "apps"}
Sources == {"git", "release"}
Roots   == [ws : Workspaces, layout : {"workspace", "inline"}]

\* What a tree lacks tells which walks still find it: "marked" has boards,
\* dawn and Documentation, "boards" only the first, "bare" none.
States  == {"whole", "marked", "boards", "bare"}
Trees   == [ref : Refs, state : States]

Outcomes == {"done", "refused", "failed"}

Request == [root : Roots, source : Sources, dawn : Refs \cup {Latest},
            nuttx : Refs, apps : Refs, withNuttx : BOOLEAN,
            writeRc : BOOLEAN, force : BOOLEAN]

ASSUME WorkspaceAssumption ==
  /\ Latest \notin Refs
  /\ None \notin Refs \cup Trees \cup Roots \cup Request \cup Outcomes
  /\ Home \notin Roots \cup {None}
  /\ Libraries \subseteq Refs /\ Occupied \subseteq Refs
  /\ Requests \subseteq Request
  /\ LocalRc \in [Workspaces -> Roots \cup {None}]
  /\ MaxRuns \in Nat

VARIABLES
  trees,     \* what lies at each root: a tree of each kind, or None
  linked,    \* roots whose apps have the link to Dawn
  own,       \* roots that hold files of the user, boards/ among them
  made,      \* roots whose directory exists
  rc,        \* the global dawnrc
  newest,    \* what "latest" means upstream, by source
  request,   \* the init under way, or the last one
  ref,       \* the ref its --dawn-ref resolved to
  stage,     \* the step it is at
  kind,      \* the tree it is at
  outcome,   \* how it ended
  runs       \* how many were started

files == <<trees, linked, own, made>>
vars  == <<trees, linked, own, made, rc, newest, request, ref, stage, kind,
           outcome, runs>>

Nothing == [k \in Kinds |-> None]

\* The rc file as its readers see it: whether it parses, the Dawn root it
\* names, the root whose NuttX and apps it names, and whether it has other
\* sections, project.oot among them.
RcFiles == [text : {"absent", "toml", "torn"}, root : Roots \cup {None},
            nuttx : Roots \cup {None}, other : BOOLEAN]
EmptyRc == [text |-> "toml", root |-> None, nuttx |-> None, other |-> FALSE]

Init ==
  /\ trees = [r \in Roots |-> Nothing]
  /\ linked = {} /\ own = {} /\ made = {}
  /\ rc = [EmptyRc EXCEPT !.text = "absent"]
  /\ newest \in [Sources -> Refs]
  /\ request = None /\ ref = None /\ stage = "idle" /\ kind = "dawn"
  /\ outcome = None /\ runs = 0

-----------------------------------------------------------------------------
(* Directories *)

Inside(s, r)  == s.ws = r.ws /\ s.layout = "workspace" /\ r.layout = "inline"
Beneath(r)    == {s \in Roots : s = r \/ Inside(s, r)}
Target        == request.root
IsWhole(t)    == t # None /\ t.state = "whole"

\* any(path.iterdir()) of the directory that tree k is fetched into
NonEmpty(r, k) ==
  IF k = "dawn"
  THEN \/ trees[r] # Nothing
       \/ r \in own
       \/ \E s \in made : Inside(s, r)
  ELSE trees[r][k] # None

\* load_dawnrc from a directory: the project's own file, else the global one
Outer(r) == [r EXCEPT !.layout = "inline"]
OwnRc(r) == Outer(r) \in own /\ LocalRc[r.ws] # None
RcAt(r) ==
  IF OwnRc(r)
  THEN [EmptyRc EXCEPT !.root = LocalRc[r.ws], !.other = TRUE]
  ELSE rc

Ends(how) == stage' = "idle" /\ outcome' = how

\* Mutant: the rc file is written as soon as Dawn is there.
FollowRcFirst(k) ==
  IF k = "dawn" /\ request.writeRc
  THEN stage' = "rc" /\ UNCHANGED <<kind, outcome>>
  ELSE \/ k # "apps" /\ request.withNuttx /\ stage' = "prepare"
          /\ kind' = (IF k = "dawn" THEN "nuttx" ELSE "apps") /\ UNCHANGED outcome
       \/ k = "apps" /\ stage' = "link" /\ UNCHANGED <<kind, outcome>>
       \/ k = "dawn" /\ ~request.withNuttx /\ Ends("done") /\ UNCHANGED kind
\* The tree that follows k, and the stage that prepares it.
Follow(k) ==
  \/ /\ k = "dawn" /\ request.withNuttx
     /\ stage' = "prepare" /\ kind' = "nuttx" /\ UNCHANGED outcome
  \/ /\ k = "nuttx"
     /\ stage' = "prepare" /\ kind' = "apps" /\ UNCHANGED outcome
  \/ /\ k = "apps"
     /\ stage' = "link" /\ UNCHANGED <<kind, outcome>>
  \/ /\ k = "dawn" /\ ~request.withNuttx
     /\ IF request.writeRc THEN stage' = "rc" /\ UNCHANGED outcome
                           ELSE Ends("done")
     /\ UNCHANGED kind

-----------------------------------------------------------------------------
(* One init *)

\* Every dawnpy command, init too, reads the rc file of its working
\* directory first and does not begin when it is no TOML.
Start(q, cwd) ==
  /\ stage = "idle" /\ runs < MaxRuns
  /\ RcAt(cwd).text # "torn"
  /\ request' = q /\ ref' = None /\ outcome' = None /\ runs' = runs + 1
  /\ made' = made \cup {Outer(q.root)}
  /\ stage' = "resolve" /\ kind' = "dawn"
  /\ UNCHANGED <<trees, linked, own, rc, newest>>

\* Mutant: "latest" is passed on.
ResolveAsGiven ==
  /\ stage = "resolve"
  /\ ref' = request.dawn /\ stage' = "prepare"
  /\ UNCHANGED <<files, rc, newest, request, kind, outcome, runs>>

ResolveRef ==
  /\ stage = "resolve"
  /\ ref' = IF request.dawn = Latest THEN newest[request.source]
                                     ELSE request.dawn
  /\ stage' = "prepare"
  /\ UNCHANGED <<files, rc, newest, request, kind, outcome, runs>>

\* GitHub or git cannot say what "latest" is
RefUnresolved ==
  /\ stage = "resolve" /\ request.dawn = Latest
  /\ Ends("failed")
  /\ UNCHANGED <<files, rc, newest, request, ref, kind, runs>>

Refuse ==
  /\ stage = "prepare" /\ NonEmpty(Target, kind) /\ ~request.force
  /\ Ends("refused")
  /\ UNCHANGED <<files, rc, newest, request, ref, kind, runs>>

\* Mutant: --force replaces a tree alone and keeps what lies beneath it.
EmptiedOfDawn ==
  /\ trees' = [trees EXCEPT ![Target][kind] = None]
  /\ linked' = IF kind = "apps" THEN linked \ {Target} ELSE linked
  /\ UNCHANGED <<own, made>>

\* shutil.rmtree takes a root with all that lies beneath it, the dawn-src
\* of the other layout and the user's files included.
Emptied ==
  IF kind = "dawn"
  THEN /\ trees' = [r \in Roots |-> IF r \in Beneath(Target) THEN Nothing
                                                             ELSE trees[r]]
       /\ linked' = linked \ Beneath(Target)
       /\ own' = own \ Beneath(Target)
       /\ made' = (made \ Beneath(Target)) \cup {Target}
  ELSE /\ trees' = [trees EXCEPT ![Target][kind] = None]
       /\ linked' = IF kind = "apps" THEN linked \ {Target} ELSE linked
       /\ UNCHANGED <<own, made>>

\* Mutant: whatever is in the way is removed.
PrepareAnyway ==
  /\ stage = "prepare"
  /\ Emptied
  /\ stage' = "fetch"
  /\ UNCHANGED <<rc, newest, request, ref, kind, outcome, runs>>

Prepare ==
  /\ stage = "prepare"
  /\ IF request.force
     THEN Emptied
     ELSE /\ ~NonEmpty(Target, kind)
          /\ made' = made \cup {Target}
          /\ UNCHANGED <<trees, linked, own>>
  /\ stage' = "fetch"
  /\ UNCHANGED <<rc, newest, request, ref, kind, outcome, runs>>

\* The trees that --force removes, each by its root and kind.
InTheWay ==
  {p \in (IF kind = "dawn" THEN Beneath(Target) \X Kinds ELSE {<<Target, kind>>}) :
     trees[p[1]][p[2]] # None}

PartlyRemoved(gone, torn, state) ==
  /\ trees' = [r \in Roots |-> [k \in Kinds |->
       IF <<r, k>> \in gone THEN None
       ELSE IF <<r, k>> \in torn THEN [trees[r][k] EXCEPT !.state = state]
       ELSE trees[r][k]]]
  /\ linked' = {r \in linked : <<r, "apps">> \notin gone \cup torn}

\* The removal stops half way: some trees are gone, one is torn.
RemovalStops ==
  /\ stage = "prepare" /\ request.force
  /\ \E gone \in SUBSET InTheWay, state \in States \ {"whole"} :
     \E torn \in {{}} \cup {{p} : p \in InTheWay \ gone} :
       gone \cup torn # {} /\ PartlyRemoved(gone, torn, state)
  /\ IF kind = "dawn" THEN \E lost \in SUBSET (own \cap Beneath(Target)) : own' = own \ lost
                      ELSE UNCHANGED own
  /\ Ends("failed")
  /\ UNCHANGED <<made, rc, newest, request, ref, kind, runs>>

WantedRef(k) == CASE k = "dawn" -> ref
                  [] k = "nuttx" -> request.nuttx
                  [] k = "apps" -> request.apps

Delivered(state) ==
  trees' = [trees EXCEPT ![Target][kind] = [ref |-> WantedRef(kind), state |-> state]]

Fetch ==
  /\ stage = "fetch"
  /\ Delivered("whole")
  /\ Follow(kind)
  /\ UNCHANGED <<linked, own, made, rc, newest, request, ref, runs>>

\* git takes its files away when it fails, but not when it is killed; the
\* children of a tarball are moved to their place one by one
FetchFails ==
  /\ stage = "fetch"
  /\ \/ UNCHANGED trees
     \/ \E state \in States \ {"whole"} : Delivered(state)
  /\ Ends("failed")
  /\ UNCHANGED <<linked, own, made, rc, newest, request, ref, kind, runs>>

Link ==
  /\ stage = "link"
  /\ ref \in Libraries /\ request.apps \notin Occupied
  /\ linked' = linked \cup {Target}
  /\ IF request.writeRc THEN stage' = "rc" /\ UNCHANGED outcome
                        ELSE Ends("done")
  /\ UNCHANGED <<trees, own, made, rc, newest, request, ref, kind, runs>>

LinkRefused ==
  /\ stage = "link"
  /\ ref \notin Libraries \/ request.apps \in Occupied
  /\ Ends("failed")
  /\ UNCHANGED <<files, rc, newest, request, ref, kind, runs>>

\* path.open("wb") cuts the old file before anything is written
TruncateRc ==
  /\ stage = "rc"
  /\ rc' = EmptyRc
  /\ stage' = "dump"
  /\ UNCHANGED <<files, newest, request, ref, kind, outcome, runs>>

Dumped == [EmptyRc EXCEPT !.root = Target,
                          !.nuttx = IF request.withNuttx THEN Target ELSE None]

DumpRc ==
  /\ stage = "dump"
  /\ rc' = Dumped
  /\ Ends("done")
  /\ UNCHANGED <<files, newest, request, ref, kind, runs>>

\* What was written of the file before the dump stopped may parse or not.
DumpStops ==
  /\ stage = "dump"
  /\ rc' \in {EmptyRc, [EmptyRc EXCEPT !.text = "torn"],
              [EmptyRc EXCEPT !.root = Target], Dumped}
  /\ Ends("failed")
  /\ UNCHANGED <<files, newest, request, ref, kind, runs>>

\* A kill, an interrupt or an operating system error between two effects.
Stop ==
  /\ stage # "idle"
  /\ Ends("failed")
  /\ UNCHANGED <<files, rc, newest, request, ref, kind, runs>>

-----------------------------------------------------------------------------
(* The world around *)

UserAdds(r) ==
  /\ stage = "idle" /\ r \in made \ own
  /\ own' = own \cup {r}
  /\ UNCHANGED <<trees, linked, made, rc, newest, request, ref, stage, kind,
                 outcome, runs>>

UserRemoves(r) ==
  /\ stage = "idle" /\ trees[r] # Nothing
  /\ trees' = [s \in Roots |-> IF s \in Beneath(r) THEN Nothing ELSE trees[s]]
  /\ linked' = linked \ Beneath(r)
  /\ own' = own \ Beneath(r)
  /\ made' = made \ Beneath(r)
  /\ UNCHANGED <<rc, newest, request, ref, stage, kind, outcome, runs>>

UserEditsRc ==
  /\ stage = "idle" /\ ~rc.other
  /\ rc' = [rc EXCEPT !.text = "toml", !.other = TRUE]
  /\ UNCHANGED <<files, newest, request, ref, stage, kind, outcome, runs>>

Publish(s, v) ==
  /\ newest[s] # v
  /\ newest' = [newest EXCEPT ![s] = v]
  /\ UNCHANGED <<files, rc, request, ref, stage, kind, outcome, runs>>

Next ==
  \/ \E q \in Requests, cwd \in Roots : Start(q, cwd)
  \/ ResolveRef \/ RefUnresolved
  \/ Refuse \/ Prepare \/ RemovalStops
  \/ Fetch \/ FetchFails
  \/ Link \/ LinkRefused
  \/ TruncateRc \/ DumpRc \/ DumpStops
  \/ Stop
  \/ \E r \in Roots : UserAdds(r) \/ UserRemoves(r)
  \/ UserEditsRc
  \/ \E s \in Sources, v \in Refs : Publish(s, v)

Spec == Init /\ [][Next]_vars

-----------------------------------------------------------------------------
(* Project.resolve: what a command that starts in directory r works on, with *)
(* the Dawn root and the NuttX directory that options and environment name.  *)

Overrides == [root : Roots \cup {None}, nuttx : Roots \cup {None}]
Plain     == [root |-> None, nuttx |-> None]

Recognised(r) == trees[r]["dawn"] # None /\ trees[r]["dawn"].state \in {"whole", "marked"}
HasBoards(r)  == r \in own \/ (trees[r]["dawn"] # None /\ trees[r]["dawn"].state # "bare")

\* The first of r and the workspace around it for which P holds
Nearest(r, P(_)) == CASE P(r) -> r
                      [] ~P(r) /\ P(Outer(r)) -> Outer(r)
                      [] OTHER -> None

FirstNamed(a, b, c) == IF a # None THEN a ELSE IF b # None THEN b ELSE c

DawnRoot(r, o)  == FirstNamed(o.root, RcAt(r).root, Nearest(r, Recognised))
\* Mutant: NuttX is looked for in the checkout around the directory.
NuttxOfCheckout(r, o) == FirstNamed(o.nuttx, RcAt(r).nuttx, Nearest(r, Recognised))
NuttxRoot(r, o) == FirstNamed(o.nuttx, RcAt(r).nuttx, DawnRoot(r, o))

\* A project.oot without boards/ is where its rc file lies.
ProjectRoot(r, o) ==
  FirstNamed(Nearest(r, HasBoards),
             CASE ~RcAt(r).other -> None
               [] RcAt(r).other /\ OwnRc(r) -> Outer(r)
               [] RcAt(r).other /\ ~OwnRc(r) -> Home,
             DawnRoot(r, o))

Resolves(r, o) == RcAt(r).text # "torn" /\ DawnRoot(r, o) # None

-----------------------------------------------------------------------------
(* Properties *)

TypeOK ==
  /\ trees \in [Roots -> [Kinds -> Trees \cup {None}]]
  /\ linked \subseteq Roots /\ own \subseteq Roots /\ made \subseteq Roots
  /\ rc \in RcFiles
  /\ newest \in [Sources -> Refs]
  /\ request \in Requests \cup {None} /\ (stage # "idle" => request # None)
  /\ ref \in Refs \cup {None}
  /\ (stage \in {"prepare", "fetch", "link", "rc", "dump"} => ref # None)
  /\ stage \in {"idle", "resolve", "prepare", "fetch", "link", "rc", "dump"}
  /\ kind \in Kinds
  /\ outcome \in Outcomes \cup {None}
  /\ runs \in 0..MaxRuns

\* An init takes away what others delivered or the user keeps only under
\* --force, only at its own root or beneath it, and not before it knows
\* which ref will come instead (run_init_request, _prepare_target).
Lost(r) == \/ \E k \in Kinds : trees[r][k] # None /\ trees'[r][k] # trees[r][k]
           \/ r \in own /\ r \notin own'
           \/ r \in linked /\ r \notin linked'
OnlyForceLoses ==
  [][\A r \in Roots : stage # "idle" /\ Lost(r) =>
       request.force /\ r \in Beneath(Target) /\ ref # None]_vars

\* An init that reports success leaves exactly what was asked for: whole
\* trees of the refs and no others, the link that builds Dawn as an app, an
\* rc file that names them, and a root that commands started in it work on
\* unless an rc file names another.
Complete(q, v) ==
  LET at(k) == trees[q.root][k]
  IN /\ at("dawn") = [ref |-> v, state |-> "whole"]
     /\ IF q.withNuttx
        THEN /\ at("nuttx") = [ref |-> q.nuttx, state |-> "whole"]
             /\ at("apps") = [ref |-> q.apps, state |-> "whole"]
             /\ q.root \in linked /\ v \in Libraries
        ELSE at("nuttx") = None /\ at("apps") = None /\ q.root \notin linked
     /\ q.writeRc => rc.root = q.root /\ (q.withNuttx <=> rc.nuttx = q.root)
     /\ DawnRoot(q.root, Plain) = q.root \/ RcAt(q.root).root \notin {None, q.root}
SuccessIsComplete ==
  [][outcome' = "done" /\ outcome # "done" => Complete(request, ref)']_vars

\* The rc file comes to name a root only when every tree it names there is
\* whole: what it points at later was delivered once, so only --force or
\* the user's hand can make it stale (_write_global_dawnrc comes last).
RcNamesDelivered ==
  [][/\ rc'.root \notin {None, rc.root} => IsWhole(trees[rc'.root]["dawn"])
     /\ rc'.nuttx \notin {None, rc.nuttx} =>
          /\ IsWhole(trees[rc'.nuttx]["nuttx"])
          /\ IsWhole(trees[rc'.nuttx]["apps"])
          /\ rc'.nuttx \in linked]_vars

\* Whatever was overwritten, torn or moved before, a command never builds
\* one Dawn against the NuttX of another, nor takes a whole checkout for an
\* out-of-tree project of another, unless an option, the environment or an
\* rc file names one of the two (Project.resolve, write_dawnrc).
OneCheckout ==
  \A r \in Roots, o \in Overrides : Resolves(r, o) =>
    /\ NuttxRoot(r, o) = DawnRoot(r, o)
       \/ o.nuttx # None \/ (o.root # None /\ RcAt(r).nuttx # None)
    /\ LET p == ProjectRoot(r, o)
       IN p \in Roots /\ p # DawnRoot(r, o) /\ p \notin own /\ IsWhole(trees[p]["dawn"])
          => o.root # None \/ RcAt(r).root # None
=============================================================================
