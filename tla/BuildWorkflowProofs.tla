-------------------------- MODULE BuildWorkflowProofs --------------------------
(***************************************************************************)
(* What the build commands guarantee for any configurations, overrides,    *)
(* directories and invocations, and any mix of failures and kills: proofs  *)
(* for BuildWorkflow.                                                      *)
(***************************************************************************)
EXTENDS BuildWorkflow, TLAPS

-----------------------------------------------------------------------------
(* The inductive invariant.  The run's properties speak of images and of     *)
(* finished invocations; a running one keeps them because of what is known   *)
(* of its current item at each step.                                         *)

\* An invocation works at one of its items, and goes on after a failed one only if
\* it was told to; it has no outcome yet.
AtAnItem ==
  Running =>
    /\ req \in Requests
    /\ Len(job.results) < Len(req.items)
    /\ ~req.carryOn => \A n \in 1..Len(job.results) : job.results[n]
    /\ last = None

\* The .config of the current item is for its configuration once it is configured ...
Configured ==
  (Running /\ ~req.buildOnly /\ job.pc # "begin") =>
    /\ job.pc = "configure" => item.conf # None
    /\ (item.conf # None /\ job.pc # "configure") =>
         /\ config[item.dir] # None
         /\ config[item.dir].conf = item.conf

\* ... and holds the overrides set so far, all of them from "refresh" on.
Overridden ==
  (Running /\ ~req.buildOnly) =>
    /\ job.pc \in {"begin", "configure"} => job.k = 0
    /\ job.pc = "set" => job.k < Len(item.over)
                           /\ (job.k # 0 => config[item.dir] # None)
                           /\ Applied(config[item.dir], item.over, job.k)
    /\ job.pc = "refresh" => item.over # << >>
    /\ job.pc \in {"refresh", "check", "validate", "build"} =>
         (item.over # << >> => config[item.dir] # None)
           /\ Applied(config[item.dir], item.over, Len(item.over))
    /\ (job.pc \in {"check", "validate", "build"} /\ item.over # << >>) => item.dir \in fresh

\* --build-only never configures.
OnlyBuilds == (Running /\ req.buildOnly) => job.pc \in {"begin", "check", "validate", "build"}

\* What is about to be built was validated.
Validated == (Running /\ job.pc = "build") => Passes(config[item.dir]) /\ ~req.configOnly

\* Items already built are still as they were asked for, unless an item since then,
\* or the current one, uses their directory.
StillBuilt ==
  (Running /\ ~req.configOnly /\ ~req.buildOnly) =>
    \A n \in 1..Len(job.results) :
      /\ job.results[n]
      /\ \A m \in (n + 1)..(Len(job.results) + 1) : req.items[m].dir # req.items[n].dir
      => Built(req.items[n])

Progress == Configured /\ Overridden /\ OnlyBuilds /\ Validated

IInv == TypeOK /\ AtAnItem /\ Progress /\ StillBuilt
          /\ ElfValidated /\ ReportsOutcome /\ BuiltAsAsked

-----------------------------------------------------------------------------
(* Where an invocation is *)

\* The initial state.
LEMMA InvInit == Init => IInv
BY BuildAssumption DEF Init, IInv, TypeOK, AtAnItem, Progress, Configured, Overridden,
   OnlyBuilds, Validated, StillBuilt, ElfValidated, ReportsOutcome, BuiltAsAsked, Running

\* A running invocation has a well-typed request and a current item.
LEMMA Here ==
  ASSUME TypeOK, AtAnItem, Running
  PROVE  /\ job \in Job
         /\ req \in Request /\ req.items \in Seq(Item)
         /\ Len(job.results) \in Nat /\ job.results \in Seq(BOOLEAN)
         /\ Len(job.results) + 1 \in 1..Len(req.items)
         /\ item = req.items[Len(job.results) + 1]
         /\ item \in Item /\ item.dir \in Dir
         /\ item.over \in Seq(Override)
<1>1. job \in Job
  BY DEF TypeOK, Running
<1>2. req \in Request /\ req.items \in Seq(Item) /\ job.results \in Seq(BOOLEAN)
  BY <1>1 DEF Job, Request, req
<1>3. Len(job.results) \in Nat /\ Len(job.results) + 1 \in 1..Len(req.items)
  BY <1>2 DEF AtAnItem
<1>4. item = req.items[Len(job.results) + 1] /\ item \in Item
  BY <1>2, <1>3 DEF item
<1>5. QED BY <1>1, <1>2, <1>3, <1>4 DEF Item

\* Ending early says nothing of items that were not finished.
LEMMA EndsKeeps ==
  ASSUME TypeOK, AtAnItem, Running, NEW results \in Seq(BOOLEAN),
         NEW exit \in {"error", "killed", "raised"}, exit = "error" => results = << >>,
         Ends(exit, results)
  PROVE  /\ job' = None /\ last' \in End
         /\ AtAnItem' /\ Progress' /\ StillBuilt' /\ ReportsOutcome'
<1>1. job' = None /\ ~Running'
  BY DEF Ends, Running
<1>2. last' \in End
  <2>1. req \in Request
    BY Here
  <2>2. QED BY <2>1 DEF Ends, End
<1>3. ReportsOutcome'
  BY DEF Ends, ReportsOutcome
<1>4. QED
  BY <1>1, <1>2, <1>3 DEF AtAnItem, Progress, Configured, Overridden, OnlyBuilds, Validated,
     StillBuilt

\* Finishing an item keeps the bookkeeping of the invocation right, and what its end
\* reports.
LEMMA ItemDoneKeeps ==
  ASSUME TypeOK, AtAnItem, ReportsOutcome, Running, NEW success \in BOOLEAN,
         ItemDone(success)
  PROVE  /\ (job' = None \/ job' \in Job) /\ (last' = None \/ last' \in End)
         /\ AtAnItem' /\ Progress' /\ ReportsOutcome'
<1> DEFINE results == Append(job.results, success)
           more == Len(results) < Len(req.items) /\ (success \/ req.carryOn)
<1>1. /\ results \in Seq(BOOLEAN) /\ Len(results) = Len(job.results) + 1
      /\ Len(results) <= Len(req.items)
      /\ results[Len(results)] = success
      /\ \A k \in 1..Len(job.results) : results[k] = job.results[k]
  BY Here
<1> HIDE DEF results
<1>2. CASE more
  <2>1. /\ job' = [job EXCEPT !.results = results, !.pc = "begin", !.k = 0]
        /\ last' = last
    BY <1>2 DEF ItemDone, results
  <2>2. job' \in Job
    BY <2>1, <1>1, Here DEF Job
  <2>3. AtAnItem'
    BY <2>1, <1>1, <1>2, Here DEF AtAnItem, Job, req, Running
  <2>4. Progress'
    BY <2>1, <2>2 DEF Progress, Configured, Overridden, OnlyBuilds, Validated, Job
  <2>5. QED BY <2>1, <2>2, <2>3, <2>4 DEF TypeOK, ReportsOutcome
<1>3. CASE ~more
  <2>1. job' = None /\ last' = [req |-> req, results |-> results, exit |-> ExitCode(results)]
    BY <1>3 DEF ItemDone, results, Ends
  <2>2. last' \in End
    BY <2>1, <1>1, Here DEF End, ExitCode
  <2>3. AtAnItem' /\ Progress'
    BY <2>1 DEF AtAnItem, Progress, Configured, Overridden, OnlyBuilds, Validated, Running
  <2>4. ReportsOutcome'
    <3>1. ~req.carryOn => \A k \in 1..Len(job.results) : results[k]
      BY <1>1 DEF AtAnItem
    <3>2. (\A k \in 1..Len(results) : results[k]) => Len(results) = Len(req.items)
      BY <1>1, <1>3, Here
    <3>3. req.carryOn => Len(results) = Len(req.items)
      BY <1>1, <1>3, Here
    <3>4. ExitCode(results) = "ok" <=> \A k \in 1..Len(results) : results[k]
      BY DEF ExitCode
    <3>5. ~req.carryOn => \A k \in 1..(Len(results) - 1) : results[k]
      <4>1. Len(results) - 1 = Len(job.results)
        BY <1>1, Here
      <4>2. QED BY <3>1, <4>1
    <3>6. /\ last'.exit = ExitCode(results) /\ last'.results = results /\ last'.req = req
      BY <2>1
    <3>7. QED BY <3>2, <3>3, <3>4, <3>5, <3>6 DEF ReportsOutcome
  <2>5. QED BY <2>1, <2>2, <2>3, <2>4
<1>4. QED BY <1>2, <1>3

-----------------------------------------------------------------------------
(* What is in the directories *)

\* A step confined to the current item's directory leaves the others as built; if it
\* finishes the item, the item's own directory is as asked for.
LEMMA ItemDoneBuilt ==
  ASSUME TypeOK, AtAnItem, StillBuilt, BuiltAsAsked, Running,
         NEW success \in BOOLEAN, ItemDone(success),
         \A d \in Dir : d # item.dir =>
           config'[d] = config[d] /\ elf'[d] = elf[d] /\ (d \in fresh => d \in fresh'),
         (success /\ ~req.configOnly /\ ~req.buildOnly) =>
           /\ elf'[item.dir] # None /\ elf'[item.dir] = config'[item.dir]
           /\ item.conf # None => elf'[item.dir].conf = item.conf
           /\ Applied(elf'[item.dir], item.over, Len(item.over))
           /\ item.over # << >> => item.dir \in fresh'
  PROVE  StillBuilt' /\ BuiltAsAsked'
<1> DEFINE results == Append(job.results, success)
           more == Len(results) < Len(req.items) /\ (success \/ req.carryOn)
           BuiltNow(i) ==
             /\ elf'[i.dir] # None /\ elf'[i.dir] = config'[i.dir]
             /\ i.conf # None => elf'[i.dir].conf = i.conf
             /\ Applied(elf'[i.dir], i.over, Len(i.over))
             /\ i.over # << >> => i.dir \in fresh'
           Kept ==
             (~req.configOnly /\ ~req.buildOnly) =>
               \A n \in 1..Len(results) :
                 /\ results[n]
                 /\ \A m \in (n + 1)..Len(results) : req.items[m].dir # req.items[n].dir
                 => BuiltNow(req.items[n])
<1>1. /\ results \in Seq(BOOLEAN) /\ Len(results) = Len(job.results) + 1
      /\ Len(results) <= Len(req.items)
      /\ results[Len(results)] = success
      /\ \A k \in 1..Len(job.results) : results[k] = job.results[k]
  BY Here
<1> HIDE DEF results
<1>2. Kept
  <2> SUFFICES ASSUME ~req.configOnly, ~req.buildOnly, NEW n \in 1..Len(results), results[n],
                      \A m \in (n + 1)..Len(results) : req.items[m].dir # req.items[n].dir
               PROVE  BuiltNow(req.items[n])
    OBVIOUS
  <2>1. CASE n = Len(results)
    BY <2>1, <1>1, Here
  <2>2. CASE n # Len(results)
    <3>1. n \in 1..Len(job.results) /\ job.results[n]
      BY <2>2, <1>1, Here
    <3>2. Built(req.items[n])
      BY <3>1, <1>1 DEF StillBuilt
    <3>3. req.items[n].dir \in Dir /\ req.items[n].dir # item.dir
      <4>1. n \in 1..Len(req.items) /\ Len(results) \in (n + 1)..Len(results)
        BY <3>1, <1>1, Here
      <4>2. item = req.items[Len(results)]
        BY <1>1, Here
      <4>3. req.items[n] \in Item
        BY <4>1, Here
      <4>4. QED BY <4>1, <4>2, <4>3 DEF Item
    <3>4. QED BY <3>2, <3>3 DEF Built
  <2>3. QED BY <2>1, <2>2
<1>3. CASE more
  <2>1. /\ job' = [job EXCEPT !.results = results, !.pc = "begin", !.k = 0]
        /\ last' = last
    BY <1>3 DEF ItemDone, results
  <2>2. req' = req /\ job'.results = results
    BY <2>1, Here DEF req, Job
  <2>3. StillBuilt'
    <3> SUFFICES ASSUME ~req.configOnly, ~req.buildOnly, NEW n \in 1..Len(results), results[n],
                        \A m \in (n + 1)..(Len(results) + 1) :
                          req.items[m].dir # req.items[n].dir
                 PROVE  BuiltNow(req.items[n])
      BY <2>2 DEF StillBuilt, Built
    <3>1. \A m \in (n + 1)..Len(results) : req.items[m].dir # req.items[n].dir
      BY <1>1, Here
    <3>2. QED BY <3>1, <1>2
  <2>4. last' = None
    BY <2>1 DEF AtAnItem
  <2>5. QED BY <2>3, <2>4 DEF BuiltAsAsked
<1>4. CASE ~more
  <2>1. job' = None /\ last' = [req |-> req, results |-> results, exit |-> ExitCode(results)]
    BY <1>4 DEF ItemDone, results, Ends
  <2>2. StillBuilt'
    BY <2>1 DEF StillBuilt, Running
  <2>3. BuiltAsAsked'
    <3> SUFFICES ASSUME ~req.configOnly, ~req.buildOnly, NEW n \in 1..Len(results), results[n],
                        \A m \in (n + 1)..Len(req.items) :
                          req.items[m].dir # req.items[n].dir
                 PROVE  BuiltNow(req.items[n])
      BY <2>1 DEF BuiltAsAsked, Built
    <3>1. \A m \in (n + 1)..Len(results) : req.items[m].dir # req.items[n].dir
      BY <1>1, Here
    <3>2. QED BY <3>1, <1>2
  <2>4. QED BY <2>2, <2>3
<1>5. QED BY <1>3, <1>4

\* So does a step inside the item.
LEMMA WithinKeeps ==
  ASSUME TypeOK, AtAnItem, StillBuilt, BuiltAsAsked, ReportsOutcome, Running,
         job' \in Job, job'.req = job.req, job'.results = job.results, last' = last,
         \A d \in Dir : d # item.dir =>
           config'[d] = config[d] /\ elf'[d] = elf[d] /\ (d \in fresh => d \in fresh')
  PROVE  req' = req /\ item' = item
         /\ AtAnItem' /\ StillBuilt' /\ BuiltAsAsked' /\ ReportsOutcome'
<1>1. req' = req /\ item' = item
  BY DEF req, item
<1>2. AtAnItem'
  BY <1>1, Here DEF AtAnItem
<1>3. StillBuilt'
  <2> SUFFICES ASSUME ~req.configOnly, ~req.buildOnly,
                      NEW n \in 1..Len(job.results), job.results[n],
                      \A m \in (n + 1)..(Len(job.results) + 1) :
                        req.items[m].dir # req.items[n].dir
               PROVE  Built(req.items[n])'
    BY <1>1 DEF StillBuilt, Built
  <2>1. n \in 1..Len(req.items) /\ Len(job.results) + 1 \in (n + 1)..(Len(job.results) + 1)
    BY Here
  <2>2. req.items[n] \in Item /\ item = req.items[Len(job.results) + 1]
    BY <2>1, Here
  <2>3. req.items[n].dir \in Dir /\ req.items[n].dir # item.dir
    BY <2>1, <2>2 DEF Item
  <2>4. Built(req.items[n])
    BY DEF StillBuilt
  <2>5. QED BY <1>1, <2>3, <2>4 DEF Built
<1>4. BuiltAsAsked' /\ ReportsOutcome'
  BY DEF AtAnItem, BuiltAsAsked, ReportsOutcome
<1>5. QED BY <1>1, <1>2, <1>3, <1>4

\* So does an early end, which changes no directory.
LEMMA EndsBuilt ==
  ASSUME TypeOK, AtAnItem, StillBuilt, Running, NEW results \in {job.results, << >>},
         NEW exit, Ends(exit, results), UNCHANGED <<config, fresh, elf>>
  PROVE  BuiltAsAsked'
<1>1. job' = None /\ last' = [req |-> req, results |-> results, exit |-> exit]
  BY DEF Ends
<1> SUFFICES ASSUME ~req.configOnly, ~req.buildOnly, NEW n \in 1..Len(results), results[n],
                    \A m \in (n + 1)..Len(req.items) : req.items[m].dir # req.items[n].dir
             PROVE  Built(req.items[n])
  BY <1>1 DEF BuiltAsAsked, Built
<1>2. CASE results = << >>
  BY <1>2
<1>3. CASE results = job.results
  <2>1. \A m \in (n + 1)..(Len(job.results) + 1) : req.items[m].dir # req.items[n].dir
    BY <1>3, Here
  <2>2. QED BY <1>3, <2>1 DEF StillBuilt
<1>4. QED BY <1>2, <1>3

-----------------------------------------------------------------------------
(* One lemma for each step *)

\* An invocation starts at its first item.
LEMMA InvokeKeeps == IInv /\ Invoke => IInv'
<1> SUFFICES ASSUME IInv, Invoke PROVE IInv'
  OBVIOUS
<1>1. PICK r \in Requests :
        job' = [req |-> r, results |-> << >>, k |-> 0, pc |-> "begin"]
  BY DEF Invoke
<1>2. r \in Request /\ r.items # << >> /\ r.items \in Seq(Item)
  BY BuildAssumption DEF Request
<1>3. job' \in Job
  BY <1>1, <1>2 DEF Job
<1>4. TypeOK'
  BY <1>3, BuildAssumption DEF IInv, TypeOK, Invoke, files
<1>5. AtAnItem' /\ Progress' /\ StillBuilt'
  BY <1>1, <1>2 DEF AtAnItem, Progress, Configured, Overridden, OnlyBuilds, Validated,
     StillBuilt, req, Invoke
<1>6. ElfValidated' /\ ReportsOutcome' /\ BuiltAsAsked'
  BY DEF IInv, ElfValidated, ReportsOutcome, BuiltAsAsked, Invoke, files
<1>7. QED BY <1>4, <1>5, <1>6 DEF IInv

\* A failed item that touched nothing.
LEMMA FailedKeeps ==
  ASSUME IInv, Running, ItemDone(FALSE), UNCHANGED <<files, runs>>
  PROVE  IInv'
<1>1. UNCHANGED <<cached, config, fresh, elf, runs>>
  BY DEF files
<1>2. (job' = None \/ job' \in Job) /\ (last' = None \/ last' \in End)
      /\ AtAnItem' /\ Progress' /\ ReportsOutcome'
  BY ItemDoneKeeps DEF IInv
<1>3. StillBuilt' /\ BuiltAsAsked'
  BY <1>1, ItemDoneBuilt DEF IInv
<1>4. TypeOK'
  BY <1>1, <1>2 DEF IInv, TypeOK
<1>5. ElfValidated'
  BY <1>1 DEF IInv, ElfValidated
<1>6. QED BY <1>2, <1>3, <1>4, <1>5 DEF IInv

\* An invocation that ends early and touched nothing.
LEMMA EndedKeeps ==
  ASSUME IInv, Running, NEW results \in {job.results, << >>},
         NEW exit \in {"error", "killed", "raised"}, exit = "error" => results = << >>,
         Ends(exit, results), UNCHANGED <<files, runs>>
  PROVE  IInv'
<1>1. UNCHANGED <<cached, config, fresh, elf, runs>>
  BY DEF files
<1>2. results \in Seq(BOOLEAN)
  <2>1. job.results \in Seq(BOOLEAN) /\ << >> \in Seq(BOOLEAN)
    BY Here DEF IInv
  <2>2. QED BY <2>1
<1>3. job' = None /\ last' \in End /\ AtAnItem' /\ Progress' /\ StillBuilt' /\ ReportsOutcome'
  BY <1>2, EndsKeeps DEF IInv
<1>4. BuiltAsAsked'
  BY <1>1, EndsBuilt DEF IInv
<1>5. TypeOK'
  BY <1>1, <1>3 DEF IInv, TypeOK
<1>6. ElfValidated'
  BY <1>1 DEF IInv, ElfValidated
<1>7. QED BY <1>3, <1>4, <1>5, <1>6 DEF IInv

\* Going on to another step of the item touches nothing else of the invocation.
LEMMA GoingOn ==
  ASSUME IInv, Running,
         NEW p \in {"begin", "configure", "set", "refresh", "check", "validate", "build"},
         GoTo(p)
  PROVE  /\ job' \in Job /\ job'.req = job.req /\ job'.results = job.results
         /\ job'.k = job.k /\ job'.pc = p /\ last' = last
BY Here DEF IInv, GoTo, Job

\* So, when the files stay as they are, only the progress of the item is to be shown.
LEMMA GoingOnKeeps ==
  ASSUME IInv, Running,
         NEW p \in {"begin", "configure", "set", "refresh", "check", "validate", "build"},
         GoTo(p), UNCHANGED <<files, runs>>, Progress'
  PROVE  IInv'
<1>1. UNCHANGED <<cached, config, fresh, elf, runs>>
  BY DEF files
<1>2. job' \in Job /\ job'.req = job.req /\ job'.results = job.results /\ last' = last
  BY GoingOn
<1>3. AtAnItem' /\ StillBuilt' /\ BuiltAsAsked' /\ ReportsOutcome'
  BY <1>1, <1>2, WithinKeeps DEF IInv
<1>4. TypeOK' /\ ElfValidated'
  BY <1>1, <1>2 DEF IInv, TypeOK, ElfValidated
<1>5. QED BY <1>3, <1>4 DEF IInv

\* An item starts, or is refused, or its configuration cannot be resolved.
LEMMA BeginKeeps == IInv /\ Begin => IInv'
<1> SUFFICES ASSUME IInv, Begin PROVE IInv'
  OBVIOUS
<1>1. Running /\ job.pc = "begin" /\ UNCHANGED <<files, runs>>
  BY DEF Begin, At
<1>2. CASE Ends("error", << >>) \/ Ends("raised", job.results)
  BY <1>1, <1>2, EndedKeeps
<1> DEFINE p == IF req.buildOnly THEN "check"
                ELSE IF item.conf # None THEN "configure"
                ELSE IF item.over # << >> THEN "set"
                ELSE "check"
<1>3. CASE GoTo(p)
  <2>1. /\ job' \in Job /\ job'.req = job.req /\ job'.results = job.results
        /\ job'.k = job.k /\ job'.pc = p
    BY <1>1, <1>3, GoingOn
  <2>2. req' = req /\ item' = item /\ item.over \in Seq(Override)
    BY <2>1, <1>1, Here DEF req, item, IInv
  <2>3. Configured'
    BY <2>1, <2>2 DEF Configured
  <2>4. Overridden'
    <3>1. ~req.buildOnly => job.k = 0
      BY <1>1 DEF IInv, Progress, Overridden
    <3>2. p \in {"set", "check"} /\ ~req.buildOnly => (p = "set" <=> item.over # << >>)
      OBVIOUS
    <3>3. \A c : Applied(c, item.over, 0)
      BY DEF Applied
    <3>4. item.over # << >> => 0 < Len(item.over)
      BY <2>2
    <3>5. Len(<< >>) = 0
      OBVIOUS
    <3>6. p \notin {"refresh", "validate", "build"}
      OBVIOUS
    <3>7. QED BY <2>1, <2>2, <3>1, <3>2, <3>3, <3>4, <3>5, <3>6 DEF Overridden
  <2>5. OnlyBuilds' /\ Validated'
    BY <2>1, <2>2 DEF OnlyBuilds, Validated
  <2>6. QED BY <1>1, <1>3, <2>3, <2>4, <2>5, GoingOnKeeps DEF Progress
<1>4. QED BY <1>2, <1>3 DEF Begin

\* Steps that fail before they touch anything.
LEMMA SetSymbolFailsKeeps == IInv /\ SetSymbolFails => IInv'
BY FailedKeeps DEF SetSymbolFails, At

LEMMA RefreshFailsKeeps == IInv /\ RefreshFails => IInv'
BY FailedKeeps DEF RefreshFails, At

LEMMA BuildFailsKeeps == IInv /\ BuildFails => IInv'
BY FailedKeeps DEF BuildFails, At

LEMMA KilledKeeps == IInv /\ Killed => IInv'
BY EndedKeeps DEF Killed

\* The check for an earlier configuration.
LEMMA CheckKeeps == IInv /\ Check => IInv'
<1> SUFFICES ASSUME IInv, Check PROVE IInv'
  OBVIOUS
<1>1. Running /\ job.pc = "check" /\ UNCHANGED <<files, runs>>
  BY DEF Check, At
<1>2. CASE ItemDone(FALSE)
  BY <1>1, <1>2, FailedKeeps
<1>3. CASE GoTo("validate")
  <2>1. /\ job' \in Job /\ job'.req = job.req /\ job'.results = job.results
        /\ job'.k = job.k /\ job'.pc = "validate"
    BY <1>1, <1>3, GoingOn
  <2>2. req' = req /\ item' = item
    BY <2>1 DEF req, item
  <2>3. Progress'
    BY <1>1, <2>1, <2>2 DEF IInv, Progress, Configured, Overridden, OnlyBuilds, Validated, files
  <2>4. QED BY <1>1, <1>3, <2>3, GoingOnKeeps
<1>4. QED BY <1>2, <1>3 DEF Check

\* The configuration step.
LEMMA ConfigureKeeps == IInv /\ Configure => IInv'
<1> SUFFICES ASSUME IInv, Configure PROVE IInv'
  OBVIOUS
<1>1. Running /\ job.pc = "configure" /\ UNCHANGED <<elf, runs>>
      /\ cached' = cached \cup {item.dir}
  BY DEF Configure, At
<1>2. item \in Item /\ item.dir \in Dir /\ item.over \in Seq(Override)
  BY <1>1, Here DEF IInv
<1>3. PICK c \in {Defaults(item.conf), config[item.dir]} :
        /\ c # None /\ c.conf = item.conf
        /\ config' = [config EXCEPT ![item.dir] = c]
        /\ fresh' = IF c = config[item.dir] THEN fresh ELSE fresh \cup {item.dir}
  BY DEF Configure
<1> DEFINE p == IF item.over # << >> THEN "set" ELSE "validate"
<1>4. GoTo(p)
  BY DEF Configure
<1>5. /\ job' \in Job /\ job'.req = job.req /\ job'.results = job.results
      /\ job'.k = job.k /\ job'.pc = p /\ last' = last
  BY <1>1, <1>4, GoingOn
<1>6. ~req.buildOnly /\ item.conf # None /\ job.k = 0
  BY <1>1 DEF IInv, Progress, Configured, Overridden, OnlyBuilds
<1>7. c \in Content
  <2>1. CASE c = Defaults(item.conf)
    BY <2>1, <1>2, <1>6 DEF Item, Content, Defaults
  <2>2. CASE c = config[item.dir]
    BY <2>2, <1>2, <1>3 DEF IInv, TypeOK
  <2>3. QED BY <2>1, <2>2
<1>8. config'[item.dir] = c
      /\ \A d \in Dir : d # item.dir => config'[d] = config[d]
  BY <1>2, <1>3 DEF IInv, TypeOK
<1>9. fresh \subseteq fresh' /\ fresh' \subseteq Dir
  BY <1>2, <1>3 DEF IInv, TypeOK
<1>10. TypeOK'
  BY <1>1, <1>2, <1>3, <1>5, <1>7, <1>9 DEF IInv, TypeOK
<1>11. req' = req /\ item' = item /\ AtAnItem' /\ StillBuilt' /\ BuiltAsAsked' /\ ReportsOutcome'
  BY <1>1, <1>5, <1>8, <1>9, WithinKeeps DEF IInv
<1>12. Configured'
  BY <1>3, <1>5, <1>8, <1>11 DEF Configured
<1>13. Overridden'
  <2>1. \A e : Applied(e, item.over, 0)
    BY DEF Applied
  <2>2. item.over # << >> => 0 < Len(item.over)
    BY <1>2
  <2>3. item.over = << >> => Len(item.over) = 0
    OBVIOUS
  <2>4. p \in {"set", "validate"} /\ (p = "set" <=> item.over # << >>)
    OBVIOUS
  <2>5. QED BY <1>5, <1>6, <1>11, <2>1, <2>2, <2>3, <2>4 DEF Overridden
<1>14. OnlyBuilds' /\ Validated'
  BY <1>5, <1>6, <1>11 DEF OnlyBuilds, Validated
<1>15. ElfValidated'
  BY <1>1 DEF IInv, ElfValidated
<1>16. QED BY <1>10, <1>11, <1>12, <1>13, <1>14, <1>15 DEF IInv, Progress

\* A configuration that fails may have replaced the .config.
LEMMA ConfigureFailsKeeps == IInv /\ ConfigureFails => IInv'
<1> SUFFICES ASSUME IInv, ConfigureFails PROVE IInv'
  OBVIOUS
<1>1. Running /\ job.pc = "configure" /\ ItemDone(FALSE) /\ UNCHANGED <<elf, runs>>
  BY DEF ConfigureFails, At
<1>2. item \in Item /\ item.dir \in Dir /\ item.conf # None
  BY <1>1, Here DEF IInv, Progress, Configured, OnlyBuilds
<1>3. Defaults(item.conf) \in Content
  BY <1>2 DEF Item, Content, Defaults
<1>4. /\ cached' \subseteq Dir /\ fresh \subseteq fresh' /\ fresh' \subseteq Dir
      /\ config' \in [Dir -> Content \cup {None}]
      /\ \A d \in Dir : d # item.dir => config'[d] = config[d]
  BY <1>2, <1>3 DEF IInv, TypeOK, ConfigureFails
<1>5. (job' = None \/ job' \in Job) /\ (last' = None \/ last' \in End)
      /\ AtAnItem' /\ Progress' /\ ReportsOutcome'
  BY <1>1, ItemDoneKeeps DEF IInv
<1>6. StillBuilt' /\ BuiltAsAsked'
  BY <1>1, <1>4, ItemDoneBuilt DEF IInv
<1>7. TypeOK' /\ ElfValidated'
  BY <1>1, <1>4, <1>5 DEF IInv, TypeOK, ElfValidated
<1>8. QED BY <1>5, <1>6, <1>7 DEF IInv

\* olddefconfig completes the .config.
LEMMA RefreshKeeps == IInv /\ Refresh => IInv'
<1> SUFFICES ASSUME IInv, Refresh PROVE IInv'
  OBVIOUS
<1>1. Running /\ job.pc = "refresh" /\ UNCHANGED <<cached, config, elf, runs>>
      /\ fresh' = fresh \cup {item.dir} /\ GoTo(AfterOverrides)
  BY DEF Refresh, At
<1>2. item.dir \in Dir /\ AfterOverrides \in {"check", "validate"}
  BY <1>1, Here DEF IInv, AfterOverrides
<1>3. /\ job' \in Job /\ job'.req = job.req /\ job'.results = job.results
      /\ job'.k = job.k /\ job'.pc = AfterOverrides /\ last' = last
  BY <1>1, <1>2, GoingOn
<1>4. req' = req /\ item' = item /\ AtAnItem' /\ StillBuilt' /\ BuiltAsAsked' /\ ReportsOutcome'
  BY <1>1, <1>3, WithinKeeps DEF IInv
<1>5. ~req.buildOnly
  BY <1>1 DEF IInv, Progress, OnlyBuilds
<1>6. Configured'
  BY <1>1, <1>2, <1>3, <1>4, <1>5 DEF IInv, Progress, Configured
<1>7. Overridden'
  BY <1>1, <1>2, <1>3, <1>4, <1>5 DEF IInv, Progress, Overridden
<1>8. OnlyBuilds' /\ Validated'
  BY <1>2, <1>3, <1>4, <1>5 DEF OnlyBuilds, Validated
<1>9. TypeOK' /\ ElfValidated'
  BY <1>1, <1>2, <1>3 DEF IInv, TypeOK, ElfValidated
<1>10. QED BY <1>4, <1>6, <1>7, <1>8, <1>9 DEF IInv, Progress

\* Descriptor validation lets the item go on to its build only if it accepts the
\* .config.
LEMMA ValidateKeeps == IInv /\ Validate => IInv'
<1> SUFFICES ASSUME IInv, Validate PROVE IInv'
  OBVIOUS
<1>1. Running /\ job.pc = "validate" /\ UNCHANGED <<files, runs>>
      /\ UNCHANGED <<cached, config, fresh, elf, runs>>
  BY DEF Validate, At, files
<1>2. CASE ItemDone(FALSE)
  BY <1>1, <1>2, FailedKeeps
<1>3. CASE req.configOnly /\ ItemDone(TRUE)
  <2>1. (job' = None \/ job' \in Job) /\ (last' = None \/ last' \in End)
        /\ AtAnItem' /\ Progress' /\ ReportsOutcome'
    BY <1>1, <1>3, ItemDoneKeeps DEF IInv
  <2>2. StillBuilt' /\ BuiltAsAsked'
    BY <1>1, <1>3, ItemDoneBuilt DEF IInv
  <2>3. TypeOK' /\ ElfValidated'
    BY <1>1, <2>1 DEF IInv, TypeOK, ElfValidated
  <2>4. QED BY <2>1, <2>2, <2>3 DEF IInv
<1>4. CASE Passes(config[item.dir]) /\ ~req.configOnly /\ GoTo("build")
  <2>1. /\ job' \in Job /\ job'.req = job.req /\ job'.results = job.results
        /\ job'.k = job.k /\ job'.pc = "build"
    BY <1>1, <1>4, GoingOn
  <2>2. req' = req /\ item' = item
    BY <2>1 DEF req, item
  <2>3. Progress'
    BY <1>1, <1>4, <2>1, <2>2 DEF IInv, Progress, Configured, Overridden, OnlyBuilds, Validated,
       Passes
  <2>4. QED BY <1>1, <1>4, <2>3, GoingOnKeeps
<1>5. QED BY <1>2, <1>3, <1>4 DEF Validate

\* The build leaves the image the item asks for.
LEMMA BuildKeeps == IInv /\ Build => IInv'
<1> SUFFICES ASSUME IInv, Build PROVE IInv'
  OBVIOUS
<1>1. Running /\ job.pc = "build" /\ ItemDone(TRUE) /\ config[item.dir] # None
      /\ UNCHANGED <<cached, config, fresh, runs>>
  BY DEF Build, At
<1>2. item.dir \in Dir
  BY <1>1, Here DEF IInv
<1>3. /\ elf' = [elf EXCEPT ![item.dir] = config[item.dir]]
      /\ elf'[item.dir] = config'[item.dir]
      /\ \A d \in Dir : d # item.dir => config'[d] = config[d] /\ elf'[d] = elf[d]
  BY <1>1, <1>2 DEF Build, IInv, TypeOK
<1>4. ~req.buildOnly => (item.conf # None => elf'[item.dir].conf = item.conf)
  BY <1>1, <1>3 DEF IInv, Progress, Configured
<1>5. ~req.buildOnly => /\ Applied(elf'[item.dir], item.over, Len(item.over))
                        /\ item.over # << >> => item.dir \in fresh'
  BY <1>1, <1>3 DEF IInv, Progress, Overridden
<1>6. (job' = None \/ job' \in Job) /\ (last' = None \/ last' \in End)
      /\ AtAnItem' /\ Progress' /\ ReportsOutcome'
  BY <1>1, ItemDoneKeeps DEF IInv
<1>7. StillBuilt' /\ BuiltAsAsked'
  BY <1>1, <1>3, <1>4, <1>5, ItemDoneBuilt DEF IInv
<1>8. TypeOK'
  BY <1>1, <1>2, <1>3, <1>6 DEF IInv, TypeOK
<1>9. ElfValidated'
  BY <1>1, <1>2, <1>3 DEF IInv, TypeOK, ElfValidated, Progress, Validated, Passes
<1>10. QED BY <1>6, <1>7, <1>8, <1>9 DEF IInv

\* One more override is in force, and none of those before it is lost, unless it is for
\* the same symbol.
LEMMA OneMoreApplied ==
  ASSUME NEW c \in Content, NEW over \in Seq(Override), NEW k \in Nat, k < Len(over),
         over[k + 1][2] # None, Applied(c, over, k)
  PROVE  /\ [c EXCEPT !.val[over[k + 1][1]] = over[k + 1][2]] \in Content
         /\ [c EXCEPT !.val[over[k + 1][1]] = over[k + 1][2]].conf = c.conf
         /\ Applied([c EXCEPT !.val[over[k + 1][1]] = over[k + 1][2]], over, k + 1)
<1> DEFINE s == over[k + 1][1]
           v == over[k + 1][2]
           new == [c EXCEPT !.val[s] = v]
<1>1. \A j \in 1..Len(over) : over[j] \in Override /\ over[j][1] \in Sym
  BY DEF Override
<1>2. s \in Sym /\ v \in Val
  BY DEF Override
<1>3. c.val \in [Sym -> Val \cup {Default}] /\ c.conf \in Conf
  BY DEF Content
<1>4. /\ new \in Content /\ new.conf = c.conf /\ new.val = [c.val EXCEPT ![s] = v]
  BY <1>2, <1>3 DEF Content
<1>5. new.val[s] = v /\ \A t \in Sym : t # s => new.val[t] = c.val[t]
  BY <1>2, <1>3, <1>4
<1>6. Applied(new, over, k + 1)
  <2> SUFFICES ASSUME NEW j \in 1..(k + 1),
                      \A m \in (j + 1)..(k + 1) : over[m][1] # over[j][1]
               PROVE  new.val[over[j][1]] = over[j][2]
    BY DEF Applied
  <2>1. CASE j = k + 1
    BY <2>1, <1>5
  <2>2. CASE j # k + 1
    <3>1. j \in 1..k /\ j \in 1..Len(over) /\ k + 1 \in (j + 1)..(k + 1)
      BY <2>2
    <3>2. over[j][1] \in Sym /\ over[j][1] # s
      BY <3>1, <1>1
    <3>3. \A m \in (j + 1)..k : over[m][1] # over[j][1]
      OBVIOUS
    <3>4. c.val[over[j][1]] = over[j][2]
      BY <3>1, <3>3 DEF Applied
    <3>5. QED BY <3>2, <3>4, <1>5
  <2>3. QED BY <2>1, <2>2
<1>7. QED BY <1>4, <1>6

\* An override is set.
LEMMA SetSymbolKeeps == IInv /\ SetSymbol => IInv'
<1> SUFFICES ASSUME IInv, SetSymbol PROVE IInv'
  OBVIOUS
<1> DEFINE new == [config[item.dir] EXCEPT !.val[item.over[job.k + 1][1]]
                                             = item.over[job.k + 1][2]]
           p == IF job.k + 1 < Len(item.over) THEN "set" ELSE "refresh"
<1>1. /\ Running /\ job.pc = "set" /\ UNCHANGED <<cached, elf, last, runs>>
      /\ config[item.dir] # None /\ item.over[job.k + 1][2] # None
      /\ fresh' = fresh \ {item.dir}
      /\ job' = [job EXCEPT !.k = job.k + 1, !.pc = p]
  BY DEF SetSymbol, At
<1>2. job \in Job /\ item.dir \in Dir /\ item.over \in Seq(Override) /\ job.k \in Nat
  BY <1>1, Here DEF IInv, Job
<1>3. config' = [config EXCEPT ![item.dir] = new]
  BY DEF SetSymbol
<1>4. config[item.dir] \in Content
  BY <1>1, <1>2 DEF IInv, TypeOK
<1>5. ~req.buildOnly
  BY <1>1 DEF IInv, Progress, OnlyBuilds
<1>6. job.k < Len(item.over) /\ Applied(config[item.dir], item.over, job.k)
  BY <1>1, <1>5 DEF IInv, Progress, Overridden
<1>7. /\ new \in Content /\ new.conf = config[item.dir].conf
      /\ Applied(new, item.over, job.k + 1)
  BY <1>1, <1>2, <1>4, <1>6, OneMoreApplied
<1> HIDE DEF new
<1>8. config'[item.dir] = new /\ new # None
      /\ \A d \in Dir : d # item.dir => config'[d] = config[d] /\ elf'[d] = elf[d]
                                         /\ (d \in fresh => d \in fresh')
  BY <1>1, <1>2, <1>3, <1>7, BuildAssumption DEF IInv, TypeOK
<1>9. /\ job' \in Job /\ job'.req = job.req /\ job'.results = job.results
      /\ job'.k = job.k + 1 /\ job'.pc = p /\ p \in {"set", "refresh"}
  <2>1. p \in {"set", "refresh"}
    OBVIOUS
  <2>2. job' = [job EXCEPT !.k = job.k + 1, !.pc = p] /\ job \in Job /\ job.k + 1 \in Nat
    BY <1>1, <1>2
  <2> HIDE DEF p
  <2>3. QED BY <2>1, <2>2 DEF Job
<1>10. req' = req /\ item' = item /\ AtAnItem' /\ StillBuilt' /\ BuiltAsAsked' /\ ReportsOutcome'
  BY <1>1, <1>8, <1>9, WithinKeeps DEF IInv
<1>11. Configured'
  BY <1>1, <1>5, <1>7, <1>8, <1>9, <1>10 DEF IInv, Progress, Configured
<1>12. Overridden'
  <2>1. p = "refresh" => job.k + 1 = Len(item.over)
    BY <1>2, <1>6
  <2>2. p = "set" => job.k + 1 < Len(item.over)
    OBVIOUS
  <2>3. item.over # << >>
    BY <1>2, <1>6
  <2>4. QED BY <1>7, <1>8, <1>9, <1>10, <2>1, <2>2, <2>3 DEF Overridden
<1>13. OnlyBuilds' /\ Validated'
  BY <1>5, <1>9, <1>10 DEF OnlyBuilds, Validated
<1>14. TypeOK' /\ ElfValidated'
  BY <1>1, <1>2, <1>3, <1>7, <1>9 DEF IInv, TypeOK, ElfValidated
<1>15. QED BY <1>10, <1>11, <1>12, <1>13, <1>14 DEF IInv, Progress

-----------------------------------------------------------------------------
(* The theorems *)

\* Every step keeps the invariant.
LEMMA InvStep == IInv /\ [Next]_vars => IInv'
<1>1. IInv /\ Step => IInv'
  BY BeginKeeps, ConfigureKeeps, ConfigureFailsKeeps, SetSymbolKeeps, SetSymbolFailsKeeps,
     RefreshKeeps, RefreshFailsKeeps, CheckKeeps, ValidateKeeps, BuildKeeps, BuildFailsKeeps
     DEF Step
<1>2. IInv /\ Next => IInv'
  BY <1>1, InvokeKeeps, KilledKeeps DEF Next
<1>3. ASSUME IInv, UNCHANGED vars PROVE IInv'
  <2>1. UNCHANGED <<cached, config, fresh, elf, job, last, runs>>
    BY <1>3 DEF vars, files
  <2>2. UNCHANGED <<req, item>>
    BY <2>1 DEF req, item
  <2>3. TypeOK' /\ ElfValidated' /\ ReportsOutcome'
    BY <1>3, <2>1 DEF IInv, TypeOK, ElfValidated, ReportsOutcome
  <2>4. AtAnItem' /\ Progress'
    BY <1>3, <2>1, <2>2 DEF IInv, AtAnItem, Progress, Configured, Overridden, OnlyBuilds,
       Validated, Running
  <2>5. \A i : Built(i) => Built(i)'
    BY <2>1 DEF Built
  <2>6. StillBuilt' /\ BuiltAsAsked'
    BY <1>3, <2>1, <2>2, <2>5 DEF IInv, StillBuilt, BuiltAsAsked, Running
  <2>7. QED BY <2>3, <2>4, <2>6 DEF IInv
<1>4. QED BY <1>2, <1>3

\* Type correctness: in particular the working item is always one of the request's.
THEOREM TypeCorrect == Spec => []TypeOK
<1>1. IInv => TypeOK
  BY DEF IInv
<1>2. QED BY <1>1, InvInit, InvStep, PTL DEF Spec

\* build_cmake is never given a .config that descriptor validation rejects, so no
\* directory ever holds an image of one: for any requests, failures and kills.
THEOREM OnlyValidatedBuilt == Spec => []ElfValidated
<1>1. IInv => ElfValidated
  BY DEF IInv
<1>2. QED BY <1>1, InvInit, InvStep, PTL DEF Spec

\* What an invocation reports as built is there as it was asked for: configuration,
\* every override, completed by olddefconfig.
THEOREM BuiltAsReported == Spec => []BuiltAsAsked
<1>1. IInv => BuiltAsAsked
  BY DEF IInv
<1>2. QED BY <1>1, InvInit, InvStep, PTL DEF Spec

\* The exit code of an invocation that comes to its end is that of its items, and
\* --continue-on-error decides how many were tried.
THEOREM OutcomeReported == Spec => []ReportsOutcome
<1>1. IInv => ReportsOutcome
  BY DEF IInv
<1>2. QED BY <1>1, InvInit, InvStep, PTL DEF Spec

\* A step of an invocation changes no directory but that of its current item, and no
\* image at all under --config-only.
THEOREM DirectoryConfined == Spec => OnlyItsDirectory
<1> DEFINE Confined == \A d \in Dir : Touched(d) =>
                          /\ Running /\ d = item.dir
                          /\ req.configOnly => elf'[d] = elf[d]
<1>1. ASSUME IInv, Configure \/ ConfigureFails \/ SetSymbol \/ Refresh PROVE Confined
  <2>1. Running /\ elf' = elf
    BY <1>1 DEF Configure, ConfigureFails, SetSymbol, Refresh, At
  <2>2. ASSUME NEW d \in Dir, d # item.dir
        PROVE  config'[d] = config[d] /\ (d \in cached <=> d \in cached')
                                     /\ (d \in fresh <=> d \in fresh')
    <3>1. CASE Configure
      BY <1>1, <2>2, <3>1 DEF IInv, TypeOK, Configure
    <3>2. CASE ConfigureFails
      BY <1>1, <2>2, <3>2 DEF IInv, TypeOK, ConfigureFails
    <3>3. CASE SetSymbol
      <4>1. config' = [config EXCEPT ![item.dir] = config'[item.dir]]
        BY <1>1, <3>3 DEF IInv, TypeOK, SetSymbol
      <4>2. QED BY <1>1, <2>2, <3>3, <4>1 DEF IInv, TypeOK, SetSymbol
    <3>4. CASE Refresh
      BY <1>1, <2>2, <3>4 DEF IInv, TypeOK, Refresh
    <3>5. QED BY <1>1, <3>1, <3>2, <3>3, <3>4
  <2>3. QED BY <2>1, <2>2 DEF Touched
<1>2. ASSUME IInv, Build PROVE Confined
  <2>1. Running /\ ~req.configOnly /\ UNCHANGED <<cached, config, fresh>>
    BY <1>2 DEF IInv, Progress, Validated, Build, At
  <2>2. \A d \in Dir : d # item.dir => elf'[d] = elf[d]
    BY <1>2 DEF IInv, TypeOK, Build
  <2>3. QED BY <2>1, <2>2 DEF Touched
<1>3. ASSUME UNCHANGED files PROVE Confined
  BY <1>3 DEF files, Touched
<1>4. IInv /\ Next => Confined
  BY <1>1, <1>2, <1>3 DEF Next, Step, Invoke, Begin, SetSymbolFails, RefreshFails, Check,
     Validate, BuildFails, Killed
<1>5. IInv /\ [Next]_vars => [Confined]_vars
  BY <1>4
<1>6. QED BY <1>5, InvInit, InvStep, PTL DEF Spec, OnlyItsDirectory
=============================================================================
