----------------------------- MODULE BuildWorkflow -----------------------------
(***************************************************************************)
(* The build, batch and kconfig commands (dawn/workflows.py, cmake.py,     *)
(* kconfig.py, build_dir.py): what they do to build directories, one       *)
(* external tool at a time, and what they report.                          *)
(*                                                                         *)
(* Each command works through items: a directory, the board configuration  *)
(* to configure it for, and Kconfig overrides.  build has one item, batch  *)
(* one per configuration of its file, kconfig one per value.  cmake,       *)
(* setconfig and olddefconfig are external: each may fail, and a failed    *)
(* cmake run leaves any part of its work.  An invocation may be killed     *)
(* between two tools, and the next one finds the directories as they are.  *)
(***************************************************************************)
EXTENDS Integers, Sequences, SequencesExt

CONSTANTS
  Conf,         \* board configurations
  Dir,          \* build directories
  Sym, Val,     \* Kconfig symbols and the values overrides give them
  Default,      \* the value of a symbol nobody overrode
  Requests,     \* the invocations users make
  Unresolvable, \* configurations for which Project.resolve raises
  NotLocal,     \* configurations not found in the project's boards/
  Rejected,     \* contents of .config that descriptor validation rejects
  MaxRuns,      \* bound on invocations
  None

\* An override without "=" has no value.
Override == Sym \X (Val \cup {None})
Item     == [dir : Dir, conf : Conf \cup {None}, over : Seq(Override)]
Request  == [cmd : {"build", "batch", "kconfig"}, items : Seq(Item),
             configOnly : BOOLEAN, buildOnly : BOOLEAN, carryOn : BOOLEAN]
Content  == [conf : Conf, val : [Sym -> Val \cup {Default}]]

ASSUME BuildAssumption ==
  /\ Requests \subseteq Request
  /\ \A r \in Requests : r.items # << >>
  /\ Unresolvable \subseteq Conf /\ NotLocal \subseteq Conf
  /\ Rejected \subseteq Content
  /\ MaxRuns \in Nat
  /\ None \notin Conf \cup Val \cup Content /\ Default \notin Val

VARIABLES
  cached,  \* the directories with a CMakeCache.txt
  config,  \* .config of each directory, or None
  fresh,   \* the directories whose .config olddefconfig has completed
  elf,     \* the image in each directory: the .config it was built from, or None
  job,     \* the running invocation, or None
  last,    \* how the previous one ended, or None
  runs     \* invocations so far

files == <<cached, config, fresh, elf>>
vars  == <<files, job, last, runs>>

\* results: of the items finished; k: overrides of the current item already set.
Job == [req : Request, results : Seq(BOOLEAN), k : Nat,
        pc : {"begin", "configure", "set", "refresh", "check", "validate", "build"}]
End == [req : Request, results : Seq(BOOLEAN), exit : {"ok", "error", "killed", "raised"}]

Init ==
  /\ cached = {} /\ fresh = {}
  /\ config = [d \in Dir |-> None]
  /\ elf = [d \in Dir |-> None]
  /\ job = None /\ last = None /\ runs = 0

Running == job # None
At(p) == Running /\ job.pc = p
req  == job.req
item == req.items[Len(job.results) + 1]
Defaults(c) == [conf |-> c, val |-> [s \in Sym |-> Default]]

-----------------------------------------------------------------------------
(* How an item, and an invocation, ends                                      *)

GoTo(p) == job' = [job EXCEPT !.pc = p] /\ UNCHANGED last

Ends(exit, results) ==
  /\ job' = None
  /\ last' = [req |-> req, results |-> results, exit |-> exit]

\* _print_batch_summary: an error as soon as one item failed.  Mutant: only when the
\* last one did.
ExitOfLast(results) == IF results[Len(results)] THEN "ok" ELSE "error"
ExitCode(results) == IF \A k \in 1..Len(results) : results[k] THEN "ok" ELSE "error"

\* _run_build_sequence after an item.  Mutant: a failed item is taken up again.
Retried(success) ==
  LET results == IF success THEN Append(job.results, success) ELSE job.results IN
  IF Len(results) < Len(req.items) /\ (success \/ req.carryOn)
  THEN /\ job' = [job EXCEPT !.results = results, !.pc = "begin", !.k = 0]
       /\ UNCHANGED last
  ELSE Ends(ExitCode(Append(job.results, success)), Append(job.results, success))
ItemDone(success) ==
  LET results == Append(job.results, success) IN
  IF Len(results) < Len(req.items) /\ (success \/ req.carryOn)
  THEN /\ job' = [job EXCEPT !.results = results, !.pc = "begin", !.k = 0]
       /\ UNCHANGED last
  ELSE Ends(ExitCode(results), results)

-----------------------------------------------------------------------------
(* The steps of an item                                                      *)

Invoke ==
  /\ ~Running /\ runs < MaxRuns
  /\ \E r \in Requests : job' = [req |-> r, results |-> << >>, k |-> 0, pc |-> "begin"]
  /\ runs' = runs + 1
  /\ last' = None
  /\ UNCHANGED files

\* Where an item starts: _run_build_only, _run_configure_build, _run_batch_config
\* or _run_kconfig_value.  An exception of Project.resolve is caught nowhere.
Begin ==
  /\ At("begin")
  /\ \/ req.configOnly /\ req.buildOnly /\ Ends("error", << >>)
     \/ /\ ~(req.configOnly /\ req.buildOnly)
        /\ item.conf \in Unresolvable
        /\ Ends("raised", job.results)
     \/ /\ ~(req.configOnly /\ req.buildOnly)
        /\ item.conf \notin Unresolvable
        /\ GoTo(IF req.buildOnly THEN "check"
                ELSE IF item.conf # None THEN "configure"
                ELSE IF item.over # << >> THEN "set"
                ELSE "check")
  /\ UNCHANGED <<files, runs>>

\* configure_cmake.  cmake keeps a .config that was made for the same configuration,
\* or makes it anew.
Configure ==
  /\ At("configure")
  /\ item.conf \notin NotLocal
  /\ cached' = cached \cup {item.dir}
  /\ \E c \in {Defaults(item.conf), config[item.dir]} :
       /\ c # None /\ c.conf = item.conf
       /\ config' = [config EXCEPT ![item.dir] = c]
       /\ fresh' = IF c = config[item.dir] THEN fresh ELSE fresh \cup {item.dir}
  /\ GoTo(IF item.over # << >> THEN "set" ELSE "validate")
  /\ UNCHANGED <<elf, runs>>

ConfigureFails ==
  /\ At("configure")
  /\ \/ UNCHANGED <<cached, config, fresh>>
     \/ /\ item.conf \notin NotLocal
        /\ cached' = cached \cup {item.dir}
        /\ \/ UNCHANGED <<config, fresh>>
           \/ /\ config' = [config EXCEPT ![item.dir] = Defaults(item.conf)]
              /\ fresh' = fresh \cup {item.dir}
  /\ ItemDone(FALSE)
  /\ UNCHANGED <<elf, runs>>

\* Mutants: a malformed override is set all the same; only the first one is set.
SetSymbolUnchecked ==
  /\ At("set")
  /\ config[item.dir] # None
  /\ config' = [config EXCEPT ![item.dir].val[item.over[job.k + 1][1]] = item.over[job.k + 1][2]]
  /\ fresh' = fresh \ {item.dir}
  /\ job' = [job EXCEPT !.k = job.k + 1,
                        !.pc = IF job.k + 1 < Len(item.over) THEN "set" ELSE "refresh"]
  /\ UNCHANGED <<cached, elf, last, runs>>
SetSymbolFirst ==
  /\ At("set")
  /\ config[item.dir] # None
  /\ item.over[job.k + 1][2] # None
  /\ config' = [config EXCEPT ![item.dir].val[item.over[job.k + 1][1]] = item.over[job.k + 1][2]]
  /\ fresh' = fresh \ {item.dir}
  /\ job' = [job EXCEPT !.k = job.k + 1, !.pc = "refresh"]
  /\ UNCHANGED <<cached, elf, last, runs>>

\* One setconfig of set_kconfig_values, or the one of set_kconfig_value.
SetSymbol ==
  /\ At("set")
  /\ config[item.dir] # None
  /\ item.over[job.k + 1][2] # None
  /\ config' = [config EXCEPT ![item.dir].val[item.over[job.k + 1][1]] = item.over[job.k + 1][2]]
  /\ fresh' = fresh \ {item.dir}
  /\ job' = [job EXCEPT !.k = job.k + 1,
                        !.pc = IF job.k + 1 < Len(item.over) THEN "set" ELSE "refresh"]
  /\ UNCHANGED <<cached, elf, last, runs>>

\* No .config, a tool that is missing or fails, or a malformed override: those set
\* before it stay.
SetSymbolFails ==
  /\ At("set")
  /\ ItemDone(FALSE)
  /\ UNCHANGED <<files, runs>>

\* build with overrides and no CONFPATH looks at its other arguments only now.
AfterOverrides == IF item.conf = None THEN "check" ELSE "validate"

Refresh ==
  /\ At("refresh")
  /\ fresh' = fresh \cup {item.dir}
  /\ GoTo(AfterOverrides)
  /\ UNCHANGED <<cached, config, elf, runs>>

RefreshFails ==
  /\ At("refresh")
  /\ ItemDone(FALSE)
  /\ UNCHANGED <<files, runs>>

\* _ensure_configured, and the check that --config-only has a CONFPATH.
Check ==
  /\ At("check")
  /\ IF req.configOnly \/ item.dir \notin cached THEN ItemDone(FALSE) ELSE GoTo("validate")
  /\ UNCHANGED <<files, runs>>

\* _validate_generated_config; without a .config there is nothing to reject.
\* Mutant: nothing is validated unless this invocation configures.
PassesUnconfigured(c) == req.buildOnly \/ c \notin Rejected
Passes(c) == c \notin Rejected

\* Mutant: --config-only goes on to the build.
ValidateThenBuild ==
  /\ At("validate")
  /\ IF Passes(config[item.dir]) THEN GoTo("build") ELSE ItemDone(FALSE)
  /\ UNCHANGED <<files, runs>>

Validate ==
  /\ At("validate")
  /\ IF ~Passes(config[item.dir]) THEN ItemDone(FALSE)
     ELSE IF req.configOnly THEN ItemDone(TRUE)
     ELSE GoTo("build")
  /\ UNCHANGED <<files, runs>>

\* build_cmake: the build system needs the .config cmake generated.
Build ==
  /\ At("build")
  /\ item.dir \in cached /\ config[item.dir] # None
  /\ elf' = [elf EXCEPT ![item.dir] = config[item.dir]]
  /\ ItemDone(TRUE)
  /\ UNCHANGED <<cached, config, fresh, runs>>

BuildFails ==
  /\ At("build")
  /\ ItemDone(FALSE)
  /\ UNCHANGED <<files, runs>>

\* Ctrl-C, a kill, or a tool that is not installed: subprocess.run raises then, and
\* nothing catches it.
Killed ==
  /\ Running
  /\ Ends("killed", job.results)
  /\ UNCHANGED <<files, runs>>

Step ==
  \/ Begin \/ Configure \/ ConfigureFails
  \/ SetSymbol \/ SetSymbolFails \/ Refresh \/ RefreshFails
  \/ Check \/ Validate \/ Build \/ BuildFails

Next == Invoke \/ Step \/ Killed

\* The tools terminate and the thread goes on; users need not invoke anything.
Spec == Init /\ [][Next]_vars /\ WF_vars(Step)

-----------------------------------------------------------------------------
(* Properties *)

\* Every variable has its type.
TypeOK ==
  /\ cached \subseteq Dir /\ fresh \subseteq Dir
  /\ config \in [Dir -> Content \cup {None}]
  /\ elf \in [Dir -> Content \cup {None}]
  /\ job = None \/ job \in Job
  /\ last = None \/ last \in End
  /\ runs \in 0..MaxRuns

\* No image in any directory comes from a .config that descriptor validation rejects,
\* whatever mix of invocations, failures and kills led there.
ElfValidated == \A d \in Dir : elf[d] \notin Rejected

\* The first k overrides of a list are in force in a .config, the later of two for one
\* symbol replacing the earlier.
Applied(c, over, k) ==
  \A j \in 1..k :
    (\A m \in (j + 1)..k : over[m][1] # over[j][1]) => c.val[over[j][1]] = over[j][2]

\* The directory of an item holds what the item asks for.
Built(i) ==
  /\ elf[i.dir] # None /\ elf[i.dir] = config[i.dir]
  /\ i.conf # None => elf[i.dir].conf = i.conf
  /\ Applied(elf[i.dir], i.over, Len(i.over))
  /\ i.over # << >> => i.dir \in fresh

\* An item reported as built left, in its directory, an image of its configuration
\* with all its overrides, from a .config that olddefconfig completed, unless a later
\* item of the invocation reused the directory.  (--build-only ignores overrides.)
BuiltAsAsked ==
  (last # None /\ ~last.req.configOnly /\ ~last.req.buildOnly) =>
    \A n \in 1..Len(last.results) :
      /\ last.results[n]
      /\ \A m \in (n + 1)..Len(last.req.items) :
           last.req.items[m].dir # last.req.items[n].dir
      => Built(last.req.items[n])

\* An invocation that comes to its end reports success exactly when every item
\* succeeded; with --continue-on-error it has tried all of them, and without it the
\* first failure is the last thing it did.
ReportsOutcome ==
  (last # None /\ last.exit \in {"ok", "error"} /\ last.results # << >>) =>
    /\ last.exit = "ok" <=> /\ Len(last.results) = Len(last.req.items)
                            /\ \A k \in 1..Len(last.results) : last.results[k]
    /\ last.req.carryOn => Len(last.results) = Len(last.req.items)
    /\ ~last.req.carryOn => \A k \in 1..(Len(last.results) - 1) : last.results[k]

\* A step changes only the directory of its item, and no image under --config-only.
Touched(d) ==
  \/ ~(d \in cached <=> d \in cached') \/ ~(d \in fresh <=> d \in fresh')
  \/ config'[d] # config[d] \/ elf'[d] # elf[d]
OnlyItsDirectory ==
  [][\A d \in Dir : Touched(d) => /\ Running /\ d = item.dir
                                  /\ req.configOnly => elf'[d] = elf[d]]_vars

\* Every invocation ends.
InvocationEnds == Running ~> ~Running

\* What --continue-on-error says: remaining configurations are built if one fails.
KeepsGoing ==
  (last # None /\ last.exit # "killed" /\ last.req.carryOn) =>
    Len(last.results) = Len(last.req.items)
=============================================================================
