--------------------------------- MODULE Deployment ---------------------------------
(***************************************************************************)
(* A descriptor on its way to a device.  In one directory the user edits   *)
(* descriptor.yaml and runs, one after another, desc-valid or the check of *)
(* a build (DescriptorValidation), desc-bin, which writes the image of     *)
(* every slot, desc-compat, which compares the descriptor with what a      *)
(* target says it can do, and the console, which asks the device for the   *)
(* objects of the descriptor.  Each works the ids out anew (ObjectIds) and *)
(* knows nothing of the others; the images on disk are all that lasts.     *)
(*                                                                         *)
(* desc-bin may be killed or fail at any write.  What an object contains,  *)
(* and why an encoder may refuse it, is DescriptorImage's and ObjectImage's*)
(* subject; here any slot may be refused for such a reason.                *)
(***************************************************************************)
EXTENDS DescriptorValidation

CONSTANTS
  Editions,    \* the projects the user may come to write
  Targets,     \* what targets there are: classes, dtypes and number of slots
  SlotChoice,  \* the slots desc-compat may be told, NoSlot for none
  NoSlot,
  NameChoice,  \* the slots whose descriptor it may be told, as numbers
  MaxCommands, \* bounds on commands and edits
  MaxEdits

ASSUME DeploymentAssumption ==
  /\ Editions \subseteq Projects
  /\ \A t \in Targets : t.dtypes \subseteq Dtypes /\ t.slots \in Nat
  /\ NoSlot \notin Nat /\ SlotChoice \subseteq Nat \cup {NoSlot} /\ NameChoice \subseteq Nat
  /\ MaxCommands \in Nat /\ MaxEdits \in Nat

VARIABLES
  command,  \* "idle", "valid", "serialize", "write", "torn"
  images,   \* the slots serialized so far, in order
  written,  \* how many of them have their file
  files,    \* descriptor.bin and the descriptor_slotN.bin there are: what each holds
  before,   \* the files as desc-bin found them
  outcome,  \* of the last desc-bin: "none", "ok", "raised", "failed" or "killed"
  report,   \* of the last desc-compat or discovery
  edits,    \* how often the user has edited
  commands  \* how many commands have begun

output == <<images, written, files, before, outcome>>
bounded == <<edits, commands>>
vars == <<project, validating, command, output, report, bounded>>

NoReport == [kind |-> "none"]
Init ==
  /\ ValidationInit
  /\ command = "idle"
  /\ images = << >> /\ written = 0 /\ files = << >> /\ before = << >> /\ outcome = "none"
  /\ report = NoReport
  /\ edits = 0 /\ commands = 0

Idle == command = "idle" /\ commands < MaxCommands
Starts == commands' = commands + 1 /\ UNCHANGED edits

\* The user writes another descriptor; what was said of the old one is forgotten.
Edit ==
  /\ command = "idle" /\ edits < MaxEdits
  /\ project \in Editions
  /\ \E p \in Editions \ {project} : project' = p
  /\ check' = "none" /\ outcome' = "none" /\ report' = NoReport
  /\ before' = << >>
  /\ edits' = edits + 1
  /\ UNCHANGED <<asked, reading, enabled, errors, command, images, written, files, commands>>

RunValidation ==
  /\ Idle /\ check = "none"
  /\ \E how \in {"directory", "generated"} : Begin(how)
  /\ command' = "valid"
  /\ Starts
  /\ UNCHANGED <<output, report>>

ValidationStep ==
  /\ command = "valid"
  /\ Validate
  /\ command' = IF check' = "done" THEN "idle" ELSE "valid"
  /\ UNCHANGED <<output, report, bounded>>
EndRefused ==
  /\ command = "valid" /\ check = "done"
  /\ command' = "idle"
  /\ UNCHANGED <<project, validating, output, report, bounded>>

-----------------------------------------------------------------------------
(* desc-bin *)

\* Mutant: the first slot only, as generate_descriptor_binary does.
SlotsFirst == 1

\* _get_descriptor_indices counts up to the first number that is missing.
SlotCount ==
  IF project.yaml = "single" THEN 1
  ELSE Min({n \in 1..Cardinality(DOMAIN project.slots) : n \notin DOMAIN project.slots})

Image(s) == [i \in DOMAIN s |-> BinaryId(s[i], Instance(s)[i])]

RunBin ==
  /\ Idle
  /\ project.yaml \in {"single", "slots"}
  /\ command' = "serialize"
  /\ images' = << >> /\ written' = 0 /\ before' = files /\ outcome' = "none"
  /\ Starts
  /\ UNCHANGED <<project, validating, files, report>>

\* The process ends and with it what it held.
Ends(how) ==
  /\ command' = "idle" /\ outcome' = how
  /\ images' = << >> /\ written' = 0

\* One slot after another, all before any is written.
SerializeSlot ==
  /\ command = "serialize" /\ Len(images) < SlotCount
  /\ LET s == project.slots[Len(images)] IN
     /\ \A i \in DOMAIN s : Encodable(s[i])
     /\ images' = Append(images, Image(s))
  /\ UNCHANGED <<project, validating, command, written, files, before, outcome, report, bounded>>

RefuseSlot ==
  /\ command = "serialize" /\ Len(images) < SlotCount
  /\ project.slots[Len(images)] # << >>
  /\ Ends("raised")
  /\ UNCHANGED <<project, validating, files, before, report, bounded>>

\* _slot_output_path: a file has its slot's number only if there are several.
FileOf(n) == IF Len(images) = 1 THEN <<"single", 0>> ELSE <<"slot", n>>

\* What a file holds: an image, cut short where not whole.
Holding(n, whole) ==
  [image |-> IF whole THEN images[n + 1] ELSE << >>, edition |-> edits, slot |-> n, whole |-> whole]
Put(n, whole) == files' = Updated(files, FileOf(n), Holding(n, whole))

\* write_bytes cuts the file before it writes.
OpenFile ==
  /\ \/ command = "serialize" /\ Len(images) = SlotCount
     \/ command = "write" /\ written < Len(images)
  /\ Put(written, FALSE)
  /\ command' = "torn"
  /\ UNCHANGED <<project, validating, images, written, before, outcome, report, bounded>>

FillFile ==
  /\ command = "torn"
  /\ Put(written, TRUE)
  /\ IF written + 1 = Len(images) THEN Ends("ok")
     ELSE /\ written' = written + 1 /\ command' = "write"
          /\ UNCHANGED <<images, outcome>>
  /\ UNCHANGED <<project, validating, before, report, bounded>>

\* A file cannot be opened or the disk is full; nothing is taken back.
WriteFails ==
  /\ \/ command = "serialize" /\ Len(images) = SlotCount
     \/ command \in {"write", "torn"}
  /\ Ends("failed")
  /\ UNCHANGED <<project, validating, files, before, report, bounded>>

Kill ==
  /\ command \in {"serialize", "write", "torn"}
  /\ Ends("killed")
  /\ UNCHANGED <<project, validating, files, before, report, bounded>>

-----------------------------------------------------------------------------
(* desc-compat and the console *)

\* A name that is no key of the file leaves the file as it is; one with slots then has no
\* object at its top level.
Described(name) ==
  IF project.yaml = "single" THEN project.slots[0]
  ELSE IF name \in DOMAIN project.slots THEN project.slots[name] ELSE << >>

\* check_compatibility, for the ids the graph shows.
Fits(ids, target) ==
  \A d \in ids : d.class \in target.classes /\ (d.dtype = "any" \/ d.dtype \in target.dtypes)
InRange(slot, target) == slot = NoSlot \/ slot < target.slots

RunCompat ==
  /\ Idle
  /\ project.yaml \in {"single", "slots"}
  /\ \E target \in Targets, slot \in SlotChoice, name \in NameChoice :
       LET ids == SummaryIds(Described(name), Kinds) IN
       report' = [kind |-> "compat", target |-> target, slot |-> slot, name |-> name,
                  verdict |-> IF ids = {} THEN "nothing"
                              ELSE IF Fits(ids, target) /\ InRange(slot, target) THEN "fits"
                              ELSE "issues"]
  /\ Starts
  /\ UNCHANGED <<project, validating, command, output>>

\* The console asks for the IOs at the top level of the file, each id once.
Discover ==
  /\ Idle
  /\ project.yaml \in {"single", "slots"}
  /\ report' = [kind |-> "asked",
                ids |-> IF project.yaml = "single" THEN SummaryIds(project.slots[0], {"io"})
                        ELSE {}]
  /\ Starts
  /\ UNCHANGED <<project, validating, command, output>>

Bin == RunBin \/ SerializeSlot \/ RefuseSlot \/ OpenFile \/ FillFile \/ WriteFails \/ Kill
Next == Edit \/ RunValidation \/ ValidationStep \/ EndRefused \/ Bin \/ RunCompat \/ Discover

Spec == Init /\ [][Next]_vars

-----------------------------------------------------------------------------
(* Properties *)

\* Every variable has its type.
TypeOK ==
  /\ ValidationTypeOK
  /\ command \in {"idle", "valid", "serialize", "write", "torn"}
  /\ written \in 0..Len(images) /\ Len(images) <= Cardinality(DOMAIN project.slots)
  /\ \A f \in DOMAIN files : files[f].whole => f = <<"single", 0>> \/ f = <<"slot", files[f].slot>>
  /\ outcome \in {"none", "ok", "raised", "failed", "killed"}
  /\ report.kind \in {"none", "compat", "asked"}
  /\ edits \in 0..MaxEdits /\ commands \in 0..MaxCommands

\* The slots up to the first gap, and what should hold the image of each.
Leading ==
  IF project.yaml = "single" THEN {0}
  ELSE {n \in DOMAIN project.slots : 0..n \subseteq DOMAIN project.slots}
Path(n) == IF Leading = {0} THEN <<"single", 0>> ELSE <<"slot", n>>
Holds(f, n) ==
  f \in DOMAIN files /\ files[f] = [image |-> Image(project.slots[n]), edition |-> edits,
                                    slot |-> n, whole |-> TRUE]
AsBefore(fs) ==
  /\ DOMAIN files \cap fs = DOMAIN before \cap fs
  /\ \A f \in DOMAIN files \cap fs : files[f] = before[f]

\* When desc-bin succeeds, every slot before the first gap has its own file of this
\* descriptor, and a descriptor that one slot cannot be made of changes no file at all.
\* When it dies, the files that are new are those of the first slots, the next one may be
\* cut short and all others are as they were.
SlotsTogether ==
  LET new == {Path(n) : n \in Leading}
      all == DOMAIN files \cup DOMAIN before IN
  /\ outcome = "ok" => AsBefore(all \ new) /\ \A n \in Leading : Holds(Path(n), n)
  /\ outcome = "raised" => files = before
  /\ outcome \in {"failed", "killed"} =>
       \E m \in 0..Cardinality(Leading) :
         /\ \A n \in 0..(m - 1) : Holds(Path(n), n)
         /\ \/ AsBefore(all \ {Path(n) : n \in 0..(m - 1)})
            \/ /\ m \in Leading /\ Path(m) \in DOMAIN files /\ ~files[Path(m)].whole
               /\ AsBefore(all \ {Path(n) : n \in 0..m})

\* An IO whose two ids agree: its own dtype is the one written ("any" where the headers do
\* not know it), its number that of the only instance there is, and the flags of systime
\* those of its time stamp.
DtypeRepeated(e) ==
  IF e.type \in {"control", "trigger"} THEN Written(e) = Known("uint8")
  ELSE (ForcedDtype(e) = "" /\ OwnDtype(e.type) # "") => Written(e) = Known(OwnDtype(e.type))
OnlyInstance(e, n) ==
  CASE e.type \in {"sysinfo", "systime"} -> n % (PrivMax + 1) = Min({1, PrivMax})
    [] e.type = "boardctl" -> n % (PrivMax + 1) = 0
    [] OTHER -> TRUE
Faithful(e, n) ==
  e.kind = "io" => /\ DtypeRepeated(e) /\ OnlyInstance(e, n)
                   /\ e.type = "systime" => n % 4 = (IF e.stamp THEN 1 ELSE 0)

\* Of a descriptor whose image is on disk: the id the console and desc-compat work out for
\* an object is the one in the image exactly if the object is Faithful; if all are, the
\* console asks for just the IOs of the image and desc-compat's verdict is that on the
\* image.  Two objects of an image share an id only by the user's hand, beyond the width of
\* the field, or as two types of one class, which are numbered apart.
IdsTell ==
  \A f \in {g \in DOMAIN files : files[g].whole /\ files[g].edition = edits} :
    LET k == files[f].slot
        s == project.slots[k]
        image == files[f].image
        number == Instance(s)
        told == \A i \in DOMAIN s : Faithful(s[i], number[i]) IN
    /\ \A i \in DOMAIN s : (SummaryId(s[i], number[i]) = image[i]) <=> Faithful(s[i], number[i])
    /\ (told /\ report.kind = "asked" /\ project.yaml = "single") =>
         report.ids = {image[i] : i \in {j \in DOMAIN s : s[j].kind = "io"}}
    /\ (/\ told /\ s # << >> /\ report.kind = "compat"
        /\ project.yaml = "single" \/ report.name = k) =>
         (report.verdict = "fits" <=>
            Fits(Range(image), report.target) /\ InRange(report.slot, report.target))
    /\ \A i, j \in DOMAIN s :
         (i < j /\ image[i] = image[j]) =>
           s[j].inst # NoInst \/ number[j] > PrivMax \/ s[i].type # s[j].type
=============================================================================
