---------------------------- MODULE DeploymentProofs ----------------------------
(***************************************************************************)
(* What a run of desc-bin leaves on disk, and what desc-valid says of a    *)
(* descriptor and a configuration, for any descriptors, Kconfig files,     *)
(* targets and sequences of commands: proofs for Deployment.               *)
(***************************************************************************)
EXTENDS Deployment, WellFoundedInduction, FiniteSetTheorems, SequenceTheorems, TLAPS

-----------------------------------------------------------------------------
(* The slots up to the first gap are those that are counted *)

LEMMA LeastNumber ==
  ASSUME NEW S \in SUBSET Nat, S # {}
  PROVE  \E m \in S : \A k \in S : m <= k
<1>1. IsWellFoundedOn(OpToRel(<, Nat), Nat)
  BY NatLessThanWellFounded
<1>2. PICK m \in S : \A k \in S : ~(<<k, m>> \in OpToRel(<, Nat))
  BY <1>1, WFMin
<1>3. ASSUME NEW k \in S, k < m
      PROVE  <<k, m>> \in OpToRel(<, Nat)
  BY <1>2, <1>3 DEF OpToRel
<1>4. \A k \in S : ~(k < m)
  BY <1>2, <1>3
<1> QED BY <1>4

LEMMA MinIsLeast ==
  ASSUME NEW S \in SUBSET Nat, S # {}
  PROVE  Min(S) \in S /\ \A k \in S : Min(S) <= k
  BY LeastNumber DEF Min

\* A set of n numbers, 0 among them, lacks one of 1..n.
LEMMA GapExists ==
  ASSUME NEW S \in SUBSET Nat, IsFiniteSet(S), 0 \in S
  PROVE  \E n \in 1..Cardinality(S) : n \notin S
<1> DEFINE c == Cardinality(S)
<1> SUFFICES ASSUME \A n \in 1..c : n \in S
             PROVE  FALSE
  OBVIOUS
<1>1. c \in Nat
  BY FS_CardinalityType
<1>2. 0..c \in SUBSET S
  BY <1>1
<1>3. Cardinality(0..c) <= c
  BY <1>2, FS_Subset
<1>4. Cardinality(0..c) = c + 1
  BY <1>1, FS_Interval
<1> QED BY <1>1, <1>3, <1>4

LEMMA LeadingCounted ==
  ASSUME IsProject(project)
  PROVE  /\ SlotCount \in Nat \ {0}
         /\ Leading = 0..(SlotCount - 1)
         /\ Leading \subseteq DOMAIN project.slots
         /\ Cardinality(Leading) = SlotCount
<1> DEFINE here == DOMAIN project.slots
<1>1. here \in SUBSET Nat /\ 0 \in here /\ IsFiniteSet(here)
  BY DEF IsProject
<1>2. SlotCount \in Nat \ {0} /\ Leading = 0..(SlotCount - 1) /\ Leading \subseteq here
  <2>1. CASE project.yaml = "single"
    BY <1>1, <2>1 DEF SlotCount, Leading
  <2>2. CASE project.yaml # "single"
    <3> DEFINE gaps == {n \in 1..Cardinality(here) : n \notin here}
    <3>1. Cardinality(here) \in Nat
      BY <1>1, FS_CardinalityType
    <3>2. gaps \in SUBSET Nat /\ gaps # {}
      BY <1>1, <3>1, GapExists
    <3>3. SlotCount = Min(gaps)
      BY <2>2 DEF SlotCount
    <3>4. SlotCount \in gaps /\ \A k \in gaps : SlotCount <= k
      BY <3>2, <3>3, MinIsLeast
    <3>5. 0..(SlotCount - 1) \subseteq here
      BY <1>1, <3>1, <3>4
    <3>6. Leading = {n \in here : 0..n \subseteq here}
      BY <2>2 DEF Leading
    <3>7. ASSUME NEW n \in Leading
          PROVE  n \in 0..(SlotCount - 1)
      BY <1>1, <3>1, <3>4, <3>6
    <3>8. ASSUME NEW n \in 0..(SlotCount - 1)
          PROVE  n \in Leading
      BY <3>1, <3>4, <3>5, <3>6
    <3>9. SlotCount \in Nat \ {0}
      BY <3>1, <3>4
    <3>10. Leading = 0..(SlotCount - 1)
      BY <3>7, <3>8
    <3> QED BY <3>5, <3>9, <3>10
  <2> QED BY <2>1, <2>2
<1>3. Cardinality(0..(SlotCount - 1)) = SlotCount
  BY <1>2, FS_Interval
<1> QED BY <1>2, <1>3

-----------------------------------------------------------------------------
(* The files of a run of desc-bin *)

\* Besides the files fs, all are as the command found them.
Untouched(fs) == AsBefore((DOMAIN files \cup DOMAIN before) \ fs)

\* The files of the first m slots.
Firsts(m) == {Path(n) : n \in 0..(m - 1)}

\* They hold this descriptor.
HoldFirst(m) == \A n \in 0..(m - 1) : Holds(Path(n), n)

\* What was serialized is the first slots.
Serialized ==
  /\ images \in Seq({Image(project.slots[n]) : n \in DOMAIN project.slots})
  /\ Len(images) <= SlotCount
  /\ \A n \in 0..(Len(images) - 1) : images[n + 1] = Image(project.slots[n])

\* How far a run has come, by its command.
Serializing ==
  command = "serialize" => Serialized /\ written = 0 /\ files = before
Writing ==
  command \in {"write", "torn"} =>
    /\ Serialized /\ Len(images) = SlotCount
    /\ written \in 0..(SlotCount - 1) /\ HoldFirst(written)
    /\ command = "write" => Untouched(Firsts(written))
    /\ command = "torn" =>
         /\ Untouched(Firsts(written + 1))
         /\ Path(written) \in DOMAIN files /\ ~files[Path(written)].whole
Running ==
  command \in {"serialize", "write", "torn"} => outcome = "none"

\* What SlotsTogether asks of a run that ended well, or died after m files.
Succeeded == Untouched(Firsts(SlotCount)) /\ HoldFirst(SlotCount)
DiedAt(m) ==
  /\ HoldFirst(m)
  /\ \/ Untouched(Firsts(m))
     \/ /\ m < SlotCount /\ Path(m) \in DOMAIN files /\ ~files[Path(m)].whole
        /\ Untouched(Firsts(m + 1))
Ended ==
  /\ outcome = "ok" => Succeeded
  /\ outcome = "raised" => files = before
  /\ outcome \in {"failed", "killed"} => \E m \in 0..SlotCount : DiedAt(m)

BinInv ==
  /\ project \in Projects
  /\ Running /\ Serializing /\ Writing
  /\ Ended

LEMMA ProjectTyped == project \in Projects => IsProject(project)
  BY ValidationAssumption

LEMMA PathsApart ==
  ASSUME IsProject(project), NEW m \in 0..(SlotCount - 1), NEW n \in 0..(SlotCount - 1), m # n
  PROVE  Path(m) # Path(n)
<1>1. m \in Leading /\ n \in Leading
  BY LeadingCounted
<1>2. Leading # {0}
  BY <1>1, LeadingCounted
<1> QED BY <1>2 DEF Path

\* desc-bin names the files as the property does.
LEMMA FileIsPath ==
  ASSUME IsProject(project), Len(images) = SlotCount, NEW n \in 0..(SlotCount - 1)
  PROVE  FileOf(n) = Path(n)
<1>1. Leading = {0} <=> SlotCount = 1
  <2>1. SlotCount \in Nat \ {0} /\ Leading = 0..(SlotCount - 1)
    BY LeadingCounted
  <2>2. SlotCount # 1 => 1 \in Leading
    BY <2>1
  <2>3. SlotCount = 1 => Leading = {0}
    BY <2>1
  <2> QED BY <2>2, <2>3
<1>2. CASE SlotCount = 1
  BY <1>1, <1>2 DEF FileOf, Path
<1>3. CASE SlotCount # 1
  BY <1>1, <1>3 DEF FileOf, Path
<1> QED BY <1>2, <1>3

LEMMA FirstsGrow ==
  ASSUME NEW m \in Nat
  PROVE  Firsts(m + 1) = Firsts(m) \cup {Path(m)}
<1>1. 0..((m + 1) - 1) = (0..(m - 1)) \cup {m}
  OBVIOUS
<1> QED BY <1>1 DEF Firsts

LEMMA AllFirsts ==
  ASSUME IsProject(project)
  PROVE  {Path(n) : n \in Leading} = Firsts(SlotCount)
  BY LeadingCounted DEF Firsts

\* Ended is the property, told of the first slots.
LEMMA EndedTogether == BinInv => SlotsTogether
<1> SUFFICES ASSUME BinInv
             PROVE  SlotsTogether
  OBVIOUS
<1>1. IsProject(project)
  BY ProjectTyped DEF BinInv
<1>2. /\ SlotCount \in Nat \ {0} /\ Leading = 0..(SlotCount - 1)
      /\ Cardinality(Leading) = SlotCount
  BY <1>1, LeadingCounted
<1>3. {Path(n) : n \in Leading} = Firsts(SlotCount)
  BY <1>1, AllFirsts
<1>4. outcome = "ok" =>
        /\ AsBefore((DOMAIN files \cup DOMAIN before) \ {Path(n) : n \in Leading})
        /\ \A n \in Leading : Holds(Path(n), n)
  BY <1>2, <1>3 DEF BinInv, Ended, Succeeded, Untouched, HoldFirst
<1>5. ASSUME outcome \in {"failed", "killed"}
      PROVE  \E m \in 0..Cardinality(Leading) :
               /\ \A n \in 0..(m - 1) : Holds(Path(n), n)
               /\ \/ AsBefore((DOMAIN files \cup DOMAIN before) \ {Path(n) : n \in 0..(m - 1)})
                  \/ /\ m \in Leading /\ Path(m) \in DOMAIN files /\ ~files[Path(m)].whole
                     /\ AsBefore((DOMAIN files \cup DOMAIN before) \ {Path(n) : n \in 0..m})
  <2>1. PICK m \in 0..SlotCount : DiedAt(m)
    BY <1>5 DEF BinInv, Ended
  <2>2. \A n \in 0..(m - 1) : Holds(Path(n), n)
    BY <2>1 DEF DiedAt, HoldFirst
  <2>3. (m + 1) - 1 = m /\ (m < SlotCount => m \in Leading)
    BY <1>2
  <2>4. \/ AsBefore((DOMAIN files \cup DOMAIN before) \ {Path(n) : n \in 0..(m - 1)})
        \/ /\ m \in Leading /\ Path(m) \in DOMAIN files /\ ~files[Path(m)].whole
           /\ AsBefore((DOMAIN files \cup DOMAIN before) \ {Path(n) : n \in 0..m})
    BY <2>1, <2>3 DEF DiedAt, Untouched, Firsts
  <2> QED BY <1>2, <2>2, <2>4
<1> QED BY <1>4, <1>5 DEF SlotsTogether, BinInv, Ended

-----------------------------------------------------------------------------
(* The steps *)

\* What the property speaks of, in a step that leaves the descriptor alone.
LEMMA SlotsKept ==
  ASSUME UNCHANGED <<project, edits>>
  PROVE  /\ Leading' = Leading /\ SlotCount' = SlotCount
         /\ \A n : Path(n)' = Path(n)
         /\ \A m : Firsts(m)' = Firsts(m)
<1>1. Leading' = Leading /\ SlotCount' = SlotCount
  BY DEF Leading, SlotCount
<1>2. \A n : Path(n)' = Path(n)
  BY <1>1 DEF Path
<1> QED BY <1>1, <1>2 DEF Firsts

LEMMA FilesKept ==
  ASSUME UNCHANGED <<project, edits, files, before>>
  PROVE  /\ \A m : HoldFirst(m)' <=> HoldFirst(m)
         /\ \A m : Untouched(Firsts(m))' <=> Untouched(Firsts(m))
         /\ Succeeded' <=> Succeeded
         /\ \A m : DiedAt(m)' <=> DiedAt(m)
<1>1. \A n : Holds(Path(n), n)' <=> Holds(Path(n), n)
  BY SlotsKept DEF Holds
<1>2. \A m : HoldFirst(m)' <=> HoldFirst(m)
  BY <1>1 DEF HoldFirst
<1>3. \A m : Untouched(Firsts(m))' <=> Untouched(Firsts(m))
  BY SlotsKept DEF Untouched, AsBefore
<1>4. Succeeded' <=> Succeeded
  BY <1>2, SlotsKept DEF Succeeded, Untouched, AsBefore
<1>5. \A m : DiedAt(m)' <=> DiedAt(m)
  BY <1>2, <1>3, SlotsKept DEF DiedAt
<1> QED BY <1>2, <1>3, <1>4, <1>5

\* A step that leaves the descriptor and the files alone, and is not desc-bin's.
LEMMA OthersKeep ==
  ASSUME BinInv, UNCHANGED <<project, output, edits>>,
         command' \in {"idle", "valid"}
  PROVE  BinInv'
<1>1. UNCHANGED <<files, before, outcome>>
  BY DEF output
<1>2. Ended'
  BY <1>1, SlotsKept, FilesKept DEF BinInv, Ended
<1> QED BY <1>2 DEF BinInv, Running, Serializing, Writing

LEMMA EditKeeps ==
  ASSUME BinInv, Edit
  PROVE  BinInv'
<1>1. command' = "idle" /\ outcome' = "none" /\ project' \in Projects
  BY DeploymentAssumption DEF Edit, BinInv
<1>2. Ended'
  BY <1>1 DEF Ended
<1> QED BY <1>1, <1>2 DEF BinInv, Running, Serializing, Writing

LEMMA RunBinKeeps ==
  ASSUME BinInv, RunBin
  PROVE  BinInv'
<1>1. /\ command' = "serialize" /\ images' = << >> /\ written' = 0
      /\ before' = files /\ files' = files /\ outcome' = "none"
      /\ UNCHANGED <<project, edits>>
  BY DEF RunBin, Starts
<1>2. SlotCount' \in Nat \ {0}
  BY <1>1, ProjectTyped, LeadingCounted, SlotsKept DEF BinInv
<1>3. Serialized'
  BY <1>1, <1>2 DEF Serialized
<1>4. Ended'
  BY <1>1 DEF Ended
<1> QED BY <1>1, <1>3, <1>4 DEF BinInv, Running, Serializing, Writing

LEMMA SerializeKeeps ==
  ASSUME BinInv, SerializeSlot
  PROVE  BinInv'
<1> DEFINE n == Len(images)
           all == {Image(project.slots[k]) : k \in DOMAIN project.slots}
<1>1. /\ command = "serialize" /\ command' = "serialize" /\ n < SlotCount
      /\ images' = Append(images, Image(project.slots[n]))
      /\ UNCHANGED <<project, edits, written, files, before, outcome>>
  BY DEF SerializeSlot, bounded
<1>2. images \in Seq(all) /\ written = 0 /\ files = before /\ outcome = "none"
      /\ \A k \in 0..(n - 1) : images[k + 1] = Image(project.slots[k])
  BY <1>1 DEF BinInv, Running, Serializing, Serialized
<1>3. SlotCount \in Nat /\ n \in Nat /\ n \in DOMAIN project.slots
  BY <1>1, <1>2, ProjectTyped, LeadingCounted DEF BinInv
<1>4. Image(project.slots[n]) \in all
  BY <1>3
<1>5. /\ images' \in Seq(all) /\ Len(images') = n + 1
      /\ \A k \in 1..n : images'[k] = images[k]
      /\ images'[n + 1] = Image(project.slots[n])
  BY <1>1, <1>2, <1>4, AppendProperties
<1>6. Serialized'
  <2>1. ASSUME NEW k \in 0..n
        PROVE  images'[k + 1] = Image(project.slots[k])
    BY <1>2, <1>3, <1>5
  <2> QED BY <1>1, <1>3, <1>5, <2>1, SlotsKept DEF Serialized
<1>7. Ended'
  BY <1>1, <1>2 DEF Ended
<1> QED BY <1>1, <1>2, <1>6, <1>7 DEF BinInv, Running, Serializing, Writing

\* A run that ends before it opened a file leaves all as they were.
LEMMA NothingWritten ==
  ASSUME BinInv, command = "serialize", UNCHANGED <<project, edits, files, before>>,
         command' = "idle", outcome' \in {"raised", "failed", "killed"}
  PROVE  BinInv'
<1>1. files = before
  BY DEF BinInv, Serializing
<1>2. HoldFirst(0) /\ Untouched(Firsts(0))
  BY <1>1 DEF Untouched, AsBefore, HoldFirst
<1>3. 0 \in 0..SlotCount
  BY ProjectTyped, LeadingCounted DEF BinInv
<1>4. Ended'
  <2>1. DiedAt(0)'
    BY <1>2, FilesKept DEF DiedAt
  <2> QED BY <1>1, <1>3, <2>1, SlotsKept DEF Ended
<1> QED BY <1>4 DEF BinInv, Running, Serializing, Writing

LEMMA RefuseKeeps ==
  ASSUME BinInv, RefuseSlot
  PROVE  BinInv'
  BY NothingWritten DEF RefuseSlot, Ends, bounded

\* A run that dies between two files, or with one of them cut short.
LEMMA PartWritten ==
  ASSUME BinInv, command \in {"write", "torn"}, UNCHANGED <<project, edits, files, before>>,
         command' = "idle", outcome' \in {"failed", "killed"}
  PROVE  BinInv'
<1>1. /\ written \in 0..(SlotCount - 1) /\ HoldFirst(written)
      /\ command = "write" => Untouched(Firsts(written))
      /\ command = "torn" =>
           /\ Untouched(Firsts(written + 1))
           /\ Path(written) \in DOMAIN files /\ ~files[Path(written)].whole
  BY DEF BinInv, Writing
<1>2. SlotCount \in Nat \ {0} /\ written \in 0..SlotCount /\ written < SlotCount
  BY <1>1, ProjectTyped, LeadingCounted DEF BinInv
<1>3. DiedAt(written)
  BY <1>1, <1>2 DEF DiedAt
<1>4. Ended'
  BY <1>2, <1>3, SlotsKept, FilesKept DEF Ended
<1> QED BY <1>4 DEF BinInv, Running, Serializing, Writing

LEMMA WriteFailsKeeps ==
  ASSUME BinInv, WriteFails
  PROVE  BinInv'
<1>1. /\ command \in {"serialize", "write", "torn"}
      /\ command' = "idle" /\ outcome' = "failed"
      /\ UNCHANGED <<project, edits, files, before>>
  BY DEF WriteFails, Ends, bounded
<1>2. CASE command = "serialize"
  BY <1>1, <1>2, NothingWritten
<1>3. CASE command \in {"write", "torn"}
  BY <1>1, <1>3, PartWritten
<1> QED BY <1>1, <1>2, <1>3

LEMMA KillKeeps ==
  ASSUME BinInv, Kill
  PROVE  BinInv'
<1>1. /\ command \in {"serialize", "write", "torn"}
      /\ command' = "idle" /\ outcome' = "killed"
      /\ UNCHANGED <<project, edits, files, before>>
  BY DEF Kill, Ends, bounded
<1>2. CASE command = "serialize"
  BY <1>1, <1>2, NothingWritten
<1>3. CASE command \in {"write", "torn"}
  BY <1>1, <1>3, PartWritten
<1> QED BY <1>1, <1>2, <1>3

\* The file of slot w is written over: those before it and those of no slot so far stay.
LEMMA PutKeeps ==
  ASSUME IsProject(project), UNCHANGED <<project, edits, before>>,
         NEW w \in 0..(SlotCount - 1), NEW content,
         files' = Updated(files, Path(w), content),
         HoldFirst(w), Untouched(Firsts(w)) \/ Untouched(Firsts(w + 1))
  PROVE  /\ HoldFirst(w)' /\ Untouched(Firsts(w + 1))'
         /\ Path(w) \in DOMAIN files' /\ files'[Path(w)] = content
<1>1. /\ DOMAIN files' = DOMAIN files \cup {Path(w)}
      /\ files'[Path(w)] = content
      /\ \A f \in DOMAIN files : f # Path(w) => files'[f] = files[f]
  BY DEF Updated
<1>2. w \in Nat /\ SlotCount \in Nat
  BY LeadingCounted
<1>3. Path(w) \in Firsts(w + 1) /\ Firsts(w) \subseteq Firsts(w + 1)
  BY <1>2, FirstsGrow
<1>4. Untouched(Firsts(w + 1))
  BY <1>3 DEF Untouched, AsBefore
<1>5. Untouched(Firsts(w + 1))'
  <2>1. Firsts(w + 1)' = Firsts(w + 1)
    BY SlotsKept
  <2> QED BY <1>1, <1>3, <1>4, <2>1 DEF Untouched, AsBefore
<1>6. HoldFirst(w)'
  <2>1. ASSUME NEW n \in 0..(w - 1)
        PROVE  Holds(Path(n), n)'
    <3>1. Holds(Path(n), n)
      BY DEF HoldFirst
    <3>2. n \in 0..(SlotCount - 1) /\ n # w
      BY <1>2
    <3>3. Path(n) # Path(w) /\ Path(n)' = Path(n)
      BY <3>2, PathsApart, SlotsKept
    <3>4. Path(n) \in DOMAIN files /\ files'[Path(n)] = files[Path(n)]
      BY <1>1, <3>1, <3>3 DEF Holds
    <3> QED BY <1>1, <3>1, <3>3, <3>4 DEF Holds
  <2> QED BY <2>1 DEF HoldFirst
<1> QED BY <1>1, <1>5, <1>6

LEMMA OpenFileKeeps ==
  ASSUME BinInv, OpenFile
  PROVE  BinInv'
<1>1. /\ \/ command = "serialize" /\ Len(images) = SlotCount
         \/ command = "write"
      /\ command' = "torn"
      /\ files' = Updated(files, FileOf(written), Holding(written, FALSE))
      /\ UNCHANGED <<project, edits, images, written, before, outcome>>
  BY DEF OpenFile, Put, bounded
<1>2. IsProject(project) /\ SlotCount \in Nat \ {0}
  BY ProjectTyped, LeadingCounted DEF BinInv
<1>3. Serialized /\ Len(images) = SlotCount /\ outcome = "none"
  BY <1>1 DEF BinInv, Running, Serializing, Writing
<1>4. PICK w \in 0..(SlotCount - 1) : w = written
  BY <1>1, <1>2 DEF BinInv, Serializing, Writing
<1>5. HoldFirst(w) /\ Untouched(Firsts(w))
  <2>1. CASE command = "serialize"
    <3>1. w = 0 /\ files = before
      BY <1>4, <2>1 DEF BinInv, Serializing
    <3> QED BY <3>1 DEF HoldFirst, Untouched, AsBefore
  <2>2. CASE command = "write"
    BY <1>4, <2>2 DEF BinInv, Writing
  <2> QED BY <1>1, <2>1, <2>2
<1>6. files' = Updated(files, Path(w), Holding(w, FALSE))
  BY <1>1, <1>2, <1>3, <1>4, FileIsPath
<1>7. /\ HoldFirst(w)' /\ Untouched(Firsts(w + 1))'
      /\ Path(w) \in DOMAIN files' /\ files'[Path(w)] = Holding(w, FALSE)
  BY <1>1, <1>2, <1>5, <1>6, PutKeeps
<1>8. Serialized' /\ Len(images') = SlotCount'
  BY <1>1, <1>3, SlotsKept DEF Serialized
<1>9. written' = w /\ w \in 0..(SlotCount' - 1) /\ Path(w)' = Path(w)
  BY <1>1, <1>4, SlotsKept
<1>10. ~files'[Path(w)].whole
  BY <1>7 DEF Holding
<1>11. Writing'
  BY <1>1, <1>7, <1>8, <1>9, <1>10 DEF Writing
<1>12. Ended'
  BY <1>1, <1>3 DEF Ended
<1> QED BY <1>1, <1>3, <1>11, <1>12 DEF BinInv, Running, Serializing

LEMMA FillFileKeeps ==
  ASSUME BinInv, FillFile
  PROVE  BinInv'
<1>1. /\ command = "torn"
      /\ files' = Updated(files, FileOf(written), Holding(written, TRUE))
      /\ UNCHANGED <<project, edits, before>>
  BY DEF FillFile, Put, bounded
<1>2. IsProject(project) /\ SlotCount \in Nat \ {0}
  BY ProjectTyped, LeadingCounted DEF BinInv
<1>3. /\ Serialized /\ Len(images) = SlotCount /\ outcome = "none"
      /\ HoldFirst(written) /\ Untouched(Firsts(written + 1))
  BY <1>1 DEF BinInv, Running, Writing
<1>4. PICK w \in 0..(SlotCount - 1) : w = written
  BY <1>1 DEF BinInv, Writing
<1>5. files' = Updated(files, Path(w), Holding(w, TRUE))
  BY <1>1, <1>2, <1>3, <1>4, FileIsPath
<1>6. /\ HoldFirst(w)' /\ Untouched(Firsts(w + 1))'
      /\ Path(w) \in DOMAIN files' /\ files'[Path(w)] = Holding(w, TRUE)
  BY <1>1, <1>2, <1>3, <1>4, <1>5, PutKeeps
<1>7. Path(w)' = Path(w) /\ SlotCount' = SlotCount
  BY <1>1, SlotsKept
<1>8. Holds(Path(w), w)'
  <2>1. images[w + 1] = Image(project.slots[w])
    BY <1>3, <1>4 DEF Serialized
  <2>2. Image(project.slots[w])' = Image(project.slots[w])
    BY <1>1 DEF Image
  <2> QED BY <1>1, <1>6, <1>7, <2>1, <2>2 DEF Holds, Holding
<1>9. HoldFirst(w + 1)'
  <2>1. \A n \in 0..((w + 1) - 1) : n \in 0..(w - 1) \/ n = w
    BY <1>4
  <2> QED BY <1>6, <1>8, <2>1 DEF HoldFirst
<1>10. CASE written + 1 = Len(images)
  <2>1. command' = "idle" /\ outcome' = "ok" /\ w + 1 = SlotCount
    BY <1>3, <1>4, <1>10 DEF FillFile, Ends
  <2>2. Succeeded'
    BY <1>6, <1>7, <1>9, <2>1 DEF Succeeded
  <2>3. Ended'
    BY <2>1, <2>2 DEF Ended
  <2> QED BY <1>1, <2>1, <2>3 DEF BinInv, Running, Serializing, Writing
<1>11. CASE written + 1 # Len(images)
  <2>1. /\ command' = "write" /\ written' = w + 1
        /\ UNCHANGED <<images, outcome>>
    BY <1>4, <1>11 DEF FillFile
  <2>2. w + 1 \in 0..(SlotCount - 1)
    BY <1>2, <1>3, <1>4, <1>11
  <2>3. Serialized' /\ Len(images') = SlotCount'
    BY <1>1, <1>3, <2>1, SlotsKept DEF Serialized
  <2>4. Writing'
    BY <1>6, <1>7, <1>9, <2>1, <2>2, <2>3 DEF Writing
  <2>5. Ended'
    BY <1>3, <2>1 DEF Ended
  <2> QED BY <1>1, <1>3, <2>1, <2>4, <2>5 DEF BinInv, Running, Serializing
<1> QED BY <1>10, <1>11

\* The other commands leave the files and the last outcome alone.
LEMMA CommandsKeep ==
  ASSUME BinInv, RunValidation \/ ValidationStep \/ EndRefused \/ RunCompat \/ Discover
  PROVE  BinInv'
<1>1. UNCHANGED <<output, edits>>
  BY DEF RunValidation, ValidationStep, EndRefused, RunCompat, Discover, Starts, bounded
<1>2. UNCHANGED project
  BY DEF RunValidation, ValidationStep, EndRefused, RunCompat, Discover, Begin, Validate,
         ReadKconfig, ReadAssignment, ReadComment, ReadInclude, EndFile, Imply,
         CheckIncludes, CheckObjects, CheckDtypes
<1>3. command' \in {"idle", "valid"}
  BY DEF RunValidation, ValidationStep, EndRefused, RunCompat, Discover, Idle
<1> QED BY <1>1, <1>2, <1>3, OthersKeep

-----------------------------------------------------------------------------
(* The theorem *)

LEMMA InvInit == Init => BinInv
<1> SUFFICES ASSUME Init
             PROVE  BinInv
  OBVIOUS
<1>1. project \in Projects /\ command = "idle" /\ outcome = "none"
  BY DEF Init, ValidationInit
<1> QED BY <1>1 DEF BinInv, Running, Serializing, Writing, Ended

LEMMA InvStep == BinInv /\ [Next]_vars => BinInv'
<1> SUFFICES ASSUME BinInv, [Next]_vars
             PROVE  BinInv'
  OBVIOUS
<1>1. CASE Edit
  BY <1>1, EditKeeps
<1>2. CASE RunValidation \/ ValidationStep \/ EndRefused \/ RunCompat \/ Discover
  BY <1>2, CommandsKeep
<1>3. CASE RunBin
  BY <1>3, RunBinKeeps
<1>4. CASE SerializeSlot
  BY <1>4, SerializeKeeps
<1>5. CASE RefuseSlot
  BY <1>5, RefuseKeeps
<1>6. CASE OpenFile
  BY <1>6, OpenFileKeeps
<1>7. CASE FillFile
  BY <1>7, FillFileKeeps
<1>8. CASE WriteFails
  BY <1>8, WriteFailsKeeps
<1>9. CASE Kill
  BY <1>9, KillKeeps
<1>10. CASE UNCHANGED vars
  <2>1. UNCHANGED <<project, command, edits, images, written, files, before, outcome>>
    BY <1>10 DEF vars, output, bounded
  <2>2. Ended'
    BY <2>1, SlotsKept, FilesKept DEF BinInv, Ended
  <2>3. Serialized' <=> Serialized
    BY <2>1, SlotsKept DEF Serialized
  <2>4. Serializing'
    BY <2>1, <2>3 DEF BinInv, Serializing
  <2>5. Writing'
    <3> PICK w : w = written
      OBVIOUS
    <3> QED BY <2>1, <2>3, SlotsKept, FilesKept DEF BinInv, Writing
  <2> QED BY <2>1, <2>2, <2>4, <2>5 DEF BinInv, Running
<1> QED
  BY <1>1, <1>2, <1>3, <1>4, <1>5, <1>6, <1>7, <1>8, <1>9, <1>10 DEF Next, Bin

\* Whatever is edited, however often desc-bin is run and wherever it raises, fails or is
\* killed: success leaves every slot before the first gap in its own file, a refusal changes
\* no file, and a death leaves a first part of the slots, the next one at most cut short and
\* all else untouched.
THEOREM SlotsStayTogether == Spec => []SlotsTogether
<1>1. Spec => []BinInv
  BY InvInit, InvStep, PTL DEF Spec
<1> QED BY <1>1, EndedTogether, PTL

-----------------------------------------------------------------------------
(* The two ids of an entry *)

\* What 1 becomes in the priv field.
LEMMA PrivOfOne == Priv(1) = Min({1, PrivMax})
<1>1. PrivMax \in Nat
  BY IdAssumption
<1>2. Min({1, PrivMax}) \in {1, PrivMax} /\ \A k \in {1, PrivMax} : Min({1, PrivMax}) <= k
  BY <1>1, MinIsLeast
<1>3. CASE PrivMax = 0
  <2>1. 1 % (0 + 1) = 0
    OBVIOUS
  <2> QED BY <1>2, <1>3, <2>1 DEF Priv
<1>4. CASE PrivMax > 0
  <2>1. 1 % (PrivMax + 1) = 1
    BY <1>1, <1>4
  <2>2. Min({1, PrivMax}) = 1
    BY <1>1, <1>2, <1>4
  <2> QED BY <2>1, <2>2 DEF Priv
<1> QED BY <1>1, <1>3, <1>4

\* Where the handler's own dtype, number and flags are what is written, and only there, the
\* resolver's id is that of the image.
LEMMA IdsAgree ==
  ASSUME NEW e, IsEntry(e), Encodable(e), NEW n \in Nat
  PROVE  SummaryId(e, n) = BinaryId(e, n) <=> Faithful(e, n)
<1>1. CASE e.kind # "io"
  BY <1>1 DEF SummaryId, BinaryId, Faithful
<1>2. CASE e.kind = "io"
  <2>1. SummaryId(e, n) = BinaryId(e, n) <=>
          /\ Known(SummaryDtype(e)) = BinaryDtype(e)
          /\ SummaryFlags(e, n) % 4 = Stamp(e) % 4
          /\ Priv(SummaryInstance(e, n)) = Priv(n)
    BY <1>2 DEF SummaryId, BinaryId, Encode
  <2>2. BinaryDtype(e) \in Dtypes
    BY <1>2 DEF Encodable
  <2>3. Known(SummaryDtype(e)) = BinaryDtype(e) <=> DtypeRepeated(e)
    <3>1. CASE e.type \in {"control", "trigger"}
      <4>1. SummaryDtype(e) = "uint8" /\ BinaryDtype(e) = Written(e)
        BY <3>1 DEF SummaryDtype, BinaryDtype, ForcedDtype
      <4> QED BY <3>1, <4>1 DEF DtypeRepeated
    <3>2. CASE e.type \notin {"control", "trigger"} /\ ForcedDtype(e) # ""
      BY <2>2, <3>2 DEF SummaryDtype, BinaryDtype, DtypeRepeated, Known
    <3>3. CASE e.type \notin {"control", "trigger"} /\ ForcedDtype(e) = ""
      BY <2>2, <3>3 DEF SummaryDtype, BinaryDtype, DtypeRepeated, Known
    <3> QED BY <3>1, <3>2, <3>3
  <2>4. Priv(SummaryInstance(e, n)) = Priv(n) <=> OnlyInstance(e, n)
    <3>1. Priv(1) = Min({1, PrivMax})
      BY PrivOfOne
    <3>2. Priv(0) = 0
      BY IdAssumption DEF Priv
    <3>3. Priv(n) = n % (PrivMax + 1)
      BY DEF Priv
    <3>4. CASE e.type \in {"sysinfo", "systime"}
      BY <3>1, <3>3, <3>4 DEF SummaryInstance, OnlyInstance
    <3>5. CASE e.type = "boardctl"
      BY <3>2, <3>3, <3>5 DEF SummaryInstance, OnlyInstance
    <3>6. CASE e.type \notin {"sysinfo", "systime", "boardctl"}
      BY <3>6 DEF SummaryInstance, OnlyInstance
    <3> QED BY <3>4, <3>5, <3>6
  <2>5. SummaryFlags(e, n) % 4 = Stamp(e) % 4 <=>
          (e.type = "systime" => n % 4 = (IF e.stamp THEN 1 ELSE 0))
    <3>1. Stamp(e) = (IF e.stamp THEN 1 ELSE 0) /\ Stamp(e) % 4 = Stamp(e)
      BY DEF Stamp
    <3> QED BY <3>1 DEF SummaryFlags
  <2> QED BY <1>2, <2>1, <2>3, <2>4, <2>5 DEF Faithful
<1> QED BY <1>1, <1>2

-----------------------------------------------------------------------------
(* The numbers of a descriptor's entries *)

\* What the number of the entry i is, in terms of those before it.
Earlier(s, i) == {k \in 1..(i - 1) : Alike(s[k], s[i])}
Rule(s, f, i) ==
  IF s[i].inst # NoInst THEN s[i].inst ELSE Max({0} \cup {f[j] + 1 : j \in Earlier(s, i)})

\* f numbers the first m entries, each with less than b.
Numbers(s, m, f, b) ==
  /\ f \in [1..m -> Nat] /\ \A i \in 1..m : f[i] < b
  /\ \A i \in 1..m : f[i] = Rule(s, f, i)

LEMMA MaxIsGreatest ==
  ASSUME NEW S \in SUBSET Nat, S # {}, NEW b \in Nat, \A k \in S : k <= b
  PROVE  Max(S) \in S /\ \A k \in S : k <= Max(S)
<1> DEFINE over == {c \in Nat : \A k \in S : k <= c}
<1>1. PICK m \in over : \A c \in over : m <= c
  <2>1. over \in SUBSET Nat /\ over # {}
    OBVIOUS
  <2> QED BY <2>1, LeastNumber
<1>2. m \in S
  <2> SUFFICES ASSUME m \notin S
               PROVE  FALSE
    OBVIOUS
  <2>1. \A k \in S : k \in Nat /\ k < m
    BY <1>1
  <2>2. m # 0
    <3>1. PICK k \in S : TRUE
      OBVIOUS
    <3>2. k \in Nat /\ k < m /\ m \in Nat
      BY <1>1, <2>1
    <3> QED BY ONLY <3>2
  <2>3. m - 1 \in over
    BY <1>1, <2>1, <2>2
  <2> QED BY <1>1, <2>3
<1>3. \A k \in S : m >= k
  BY <1>1
<1>4. Max(S) \in S /\ \A k \in S : Max(S) >= k
  BY <1>2, <1>3 DEF Max
<1> QED BY <1>4

LEMMA RuleTyped ==
  ASSUME NEW s, NEW m \in Nat, NEW i \in 1..m,
         IsEntry(s[i]),
         NEW f, NEW b \in Nat,
         \A k \in 1..(i - 1) : f[k] \in Nat /\ f[k] < b
  PROVE  /\ Rule(s, f, i) \in Nat
         /\ s[i].inst = NoInst => \A k \in Earlier(s, i) : f[k] < Rule(s, f, i)
<1> DEFINE N == {0} \cup {f[j] + 1 : j \in Earlier(s, i)}
<1>1. N \in SUBSET Nat /\ N # {} /\ \A k \in N : k <= b
  BY DEF Earlier
<1>2. Max(N) \in N /\ \A k \in N : k <= Max(N)
  BY <1>1, MaxIsGreatest
<1>3. \A k \in Earlier(s, i) : f[k] \in Nat /\ f[k] + 1 \in N
  BY DEF Earlier
<1>4. \A k \in Earlier(s, i) : f[k] < Max(N)
  BY <1>1, <1>2, <1>3
<1>5. s[i].inst = NoInst \/ s[i].inst \in Nat
  BY DEF IsEntry
<1> QED BY <1>1, <1>2, <1>4, <1>5 DEF Rule

\* Only the numbers before an entry count for its own.
LEMMA RuleLocal ==
  ASSUME NEW s, NEW i \in Nat, NEW f, NEW g, \A k \in 1..(i - 1) : f[k] = g[k]
  PROVE  Rule(s, f, i) = Rule(s, g, i)
<1>1. \A k \in Earlier(s, i) : f[k] = g[k]
  BY DEF Earlier
<1>2. {f[j] + 1 : j \in Earlier(s, i)} = {g[j] + 1 : j \in Earlier(s, i)}
  BY <1>1
<1> QED BY <1>2 DEF Rule

LEMMA NumbersExist ==
  ASSUME NEW s, NEW n \in Nat, \A i \in 1..n : IsEntry(s[i])
  PROVE  \E f, b : b \in Nat /\ Numbers(s, n, f, b)
<1> DEFINE Fails == {m \in 0..n : ~\E f, b : b \in Nat /\ Numbers(s, m, f, b)}
<1> SUFFICES Fails = {}
  OBVIOUS
<1> SUFFICES ASSUME Fails # {}
             PROVE  FALSE
  OBVIOUS
<1>1. PICK m \in Fails : \A k \in Fails : m <= k
  <2>1. Fails \in SUBSET Nat
    OBVIOUS
  <2> QED BY <2>1, LeastNumber
<1>2. m # 0
  <2>1. Numbers(s, 0, << >>, 0)
    BY DEF Numbers
  <2> QED BY <1>1, <2>1
<1>3. m \in 1..n /\ m - 1 \in 0..n /\ m - 1 < m
  BY <1>1, <1>2
<1>4. m - 1 \notin Fails
  BY <1>1, <1>3
<1>5. PICK f, b : b \in Nat /\ Numbers(s, m - 1, f, b)
  BY <1>3, <1>4
<1> DEFINE r == Rule(s, f, m)
           g == [i \in 1..m |-> IF i = m THEN r ELSE f[i]]
<1>6. r \in Nat
  BY <1>3, <1>5, RuleTyped DEF Numbers
<1> HIDE DEF r
<1>7. PICK c \in Nat : b <= c /\ r < c
  <2>1. b <= b + r + 1 /\ r < b + r + 1 /\ b + r + 1 \in Nat
    BY <1>5, <1>6
  <2> QED BY <2>1
<1>8. /\ g \in [1..m -> Nat] /\ g[m] = r
      /\ \A k \in 1..(m - 1) : g[k] = f[k] /\ f[k] \in Nat /\ f[k] < b /\ k \in 1..m
  BY <1>3, <1>5, <1>6 DEF Numbers
<1> HIDE DEF g
<1>9. \A i \in 1..m : i = m \/ i \in 1..(m - 1)
  BY <1>3
<1>10. \A i \in 1..m : g[i] < c
  BY <1>5, <1>7, <1>8, <1>9
<1>11. ASSUME NEW i \in 1..m
       PROVE  g[i] = Rule(s, g, i)
  <2>1. \A k \in 1..(i - 1) : f[k] = g[k]
    BY <1>3, <1>8
  <2>2. Rule(s, f, i) = Rule(s, g, i)
    BY <2>1, RuleLocal
  <2>3. CASE i = m
    BY <1>8, <2>2, <2>3 DEF r
  <2>4. CASE i \in 1..(m - 1)
    BY <1>5, <1>8, <2>2, <2>4 DEF Numbers
  <2> QED BY <1>9, <2>3, <2>4
<1>12. Numbers(s, m, g, c)
  BY <1>8, <1>10, <1>11 DEF Numbers
<1> QED BY <1>1, <1>7, <1>12

\* An entry without a number of its own gets one above those of all like it before it.
LEMMA InstanceRises ==
  ASSUME NEW S, NEW s \in Seq(S), \A i \in DOMAIN s : IsEntry(s[i])
  PROVE  /\ \A i \in DOMAIN s : Instance(s)[i] \in Nat
         /\ \A i, j \in DOMAIN s :
              (i < j /\ Alike(s[i], s[j]) /\ s[j].inst = NoInst) =>
                Instance(s)[i] < Instance(s)[j]
<1> DEFINE n == Len(s)
           g == Instance(s)
<1>1. n \in Nat /\ DOMAIN s = 1..n
  OBVIOUS
<1>2. PICK f, b : b \in Nat /\ Numbers(s, n, f, b)
  BY <1>1, NumbersExist
<1>3. f = [i \in 1..n |-> Rule(s, f, i)]
  BY <1>2 DEF Numbers
<1>4. g = CHOOSE h : h = [i \in DOMAIN s |-> Rule(s, h, i)]
  BY DEF Instance, Rule, Earlier
<1>5. g = [i \in 1..n |-> Rule(s, g, i)]
  BY <1>1, <1>3, <1>4
<1> HIDE DEF g, n
<1>6. \A i \in 1..n : g[i] = Rule(s, g, i)
  BY <1>5
\* It is the one there is.
<1>7. \A i \in 1..n : g[i] = f[i]
  <2> DEFINE Differs == {i \in 1..n : g[i] # f[i]}
  <2> SUFFICES ASSUME Differs # {}
               PROVE  FALSE
    OBVIOUS
  <2>1. PICK i \in Differs : \A k \in Differs : i <= k
    <3>1. Differs \in SUBSET Nat
      BY <1>1
    <3> QED BY <3>1, LeastNumber
  <2>2. \A k \in 1..(i - 1) : g[k] = f[k]
    BY <1>1, <2>1
  <2>3. Rule(s, g, i) = Rule(s, f, i)
    BY <1>1, <2>1, <2>2, RuleLocal
  <2> QED BY <1>2, <1>6, <2>1, <2>3 DEF Numbers
<1>8. \A i \in 1..n : g[i] \in Nat /\ g[i] < b
  BY <1>2, <1>7 DEF Numbers
<1>9. ASSUME NEW i \in 1..n, NEW j \in 1..n, i < j, Alike(s[i], s[j]), s[j].inst = NoInst
      PROVE  g[i] < g[j]
  <2>1. \A k \in 1..(j - 1) : k \in 1..n /\ g[k] \in Nat /\ g[k] < b
    BY <1>1, <1>8
  <2>2. i \in Earlier(s, j)
    BY <1>1, <1>9 DEF Earlier
  <2>3. \A k \in Earlier(s, j) : g[k] < Rule(s, g, j)
    BY <1>1, <1>2, <1>9, <2>1, RuleTyped
  <2> QED BY <1>6, <2>2, <2>3
<1> QED BY <1>1, <1>8, <1>9 DEF g

-----------------------------------------------------------------------------
(* What the files and the report say of the descriptor as it is now *)

\* Every entry of the slot has an id.
Serializable(n) == \A i \in DOMAIN project.slots[n] : Encodable(project.slots[n][i])

\* Only a run holds images, and only of slots that could be serialized.
Held ==
  /\ command \notin {"serialize", "write", "torn"} => images = << >>
  /\ \A n \in 0..(Len(images) - 1) : Serializable(n)

\* A whole file that is not older than the last edit is the image of its slot.
Current(c) ==
  /\ c.edition \in Nat /\ c.edition <= edits
  /\ (c.whole /\ c.edition = edits) =>
       c.slot \in Leading /\ c.image = Image(project.slots[c.slot]) /\ Serializable(c.slot)
OnDisk == edits \in Nat /\ \A f \in DOMAIN files : Current(files[f])

\* The last report is about the descriptor too.
Answered ==
  /\ report.kind = "asked" =>
       report.ids = IF project.yaml = "single" THEN SummaryIds(project.slots[0], {"io"}) ELSE {}
  /\ report.kind = "compat" =>
       LET ids == SummaryIds(Described(report.name), Kinds) IN
       report.verdict = IF ids = {} THEN "nothing"
                        ELSE IF Fits(ids, report.target) /\ InRange(report.slot, report.target)
                             THEN "fits" ELSE "issues"

IdsInv == BinInv /\ Held /\ OnDisk /\ Answered

LEMMA SlotTyped ==
  ASSUME IsProject(project), NEW n \in DOMAIN project.slots
  PROVE  /\ project.slots[n] \in Seq(Range(project.slots[n]))
         /\ \A i \in DOMAIN project.slots[n] : IsEntry(project.slots[n][i])
  BY DEF IsProject

\* Where all of a descriptor's objects are Faithful, what the resolver says of some kinds of
\* them is what stands in the image.
LEMMA SummaryTold ==
  ASSUME NEW S, NEW s \in Seq(S), \A i \in DOMAIN s : IsEntry(s[i]) /\ Encodable(s[i]),
         \A i \in DOMAIN s : Faithful(s[i], Instance(s)[i]), NEW kinds
  PROVE  SummaryIds(s, kinds) = {Image(s)[i] : i \in {j \in DOMAIN s : s[j].kind \in kinds}}
<1> DEFINE there == {j \in DOMAIN s : s[j].kind \in kinds}
<1>1. \A i \in DOMAIN s : SummaryId(s[i], Instance(s)[i]) = Image(s)[i]
  BY InstanceRises, IdsAgree DEF Image
<1>2. {j \in DOMAIN s : s[j].kind \in kinds /\ Resolved(s[j])} = there
  BY DEF Resolved, Encodable
<1>3. SummaryIds(s, kinds) = {SummaryId(s[i], Instance(s)[i]) : i \in there}
  BY <1>2 DEF SummaryIds
<1> QED BY <1>1, <1>3

\* Two alike entries with one id: the later has a number by hand or beyond the field.
LEMMA SharedIds ==
  ASSUME NEW S, NEW s \in Seq(S), \A i \in DOMAIN s : IsEntry(s[i]),
         NEW i \in DOMAIN s, NEW j \in DOMAIN s, i < j, Image(s)[i] = Image(s)[j],
         s[j].inst = NoInst, s[i].type = s[j].type
  PROVE  Instance(s)[j] > PrivMax
<1> DEFINE a == Instance(s)[i]
           b == Instance(s)[j]
<1>1. Image(s)[i] = BinaryId(s[i], a) /\ Image(s)[j] = BinaryId(s[j], b)
  BY DEF Image
<1>2. \A e, n : BinaryId(e, n).kind = e.kind /\ BinaryId(e, n).priv = Priv(n)
  BY DEF BinaryId, Encode
<1>3. Alike(s[i], s[j]) /\ Priv(a) = Priv(b)
  <2> HIDE DEF a, b
  <2>1. Image(s)[i].kind = s[i].kind /\ Image(s)[i].priv = Priv(a)
    BY <1>1, <1>2
  <2>2. Image(s)[j].kind = s[j].kind /\ Image(s)[j].priv = Priv(b)
    BY <1>1, <1>2
  <2> QED BY <2>1, <2>2 DEF Alike
<1>4. a \in Nat /\ b \in Nat /\ a < b
  BY <1>3, InstanceRises
<1> HIDE DEF a, b
<1>5. ASSUME b <= PrivMax
      PROVE  FALSE
  <2>1. \A n \in Nat : n <= PrivMax => n % (PrivMax + 1) = n
    BY IdAssumption
  <2>2. a <= PrivMax
    BY <1>4, <1>5, IdAssumption
  <2>3. Priv(a) = a /\ Priv(b) = b
    BY <1>4, <1>5, <2>1, <2>2 DEF Priv
  <2>4. a = b
    BY <1>3, <2>3, Zenon
  <2> QED BY ONLY <1>4, <2>4
<1> QED BY <1>4, <1>5, IdAssumption DEF b

LEMMA InvTells == IdsInv => IdsTell
<1> SUFFICES ASSUME IdsInv,
                    NEW f \in {g \in DOMAIN files : files[g].whole /\ files[g].edition = edits}
             PROVE  LET k == files[f].slot
                        s == project.slots[k]
                        image == files[f].image
                        number == Instance(s)
                        told == \A i \in DOMAIN s : Faithful(s[i], number[i]) IN
                    /\ \A i \in DOMAIN s :
                         (SummaryId(s[i], number[i]) = image[i]) <=> Faithful(s[i], number[i])
                    /\ (told /\ report.kind = "asked" /\ project.yaml = "single") =>
                         report.ids = {image[i] : i \in {j \in DOMAIN s : s[j].kind = "io"}}
                    /\ (/\ told /\ s # << >> /\ report.kind = "compat"
                        /\ project.yaml = "single" \/ report.name = k) =>
                         (report.verdict = "fits" <=>
                            /\ Fits(Range(image), report.target)
                            /\ InRange(report.slot, report.target))
                    /\ \A i, j \in DOMAIN s :
                         (i < j /\ image[i] = image[j]) =>
                           s[j].inst # NoInst \/ number[j] > PrivMax \/ s[i].type # s[j].type
  BY DEF IdsTell
<1> DEFINE k == files[f].slot
           s == project.slots[k]
           number == Instance(s)
           told == \A i \in DOMAIN s : Faithful(s[i], number[i])
<1>1. IsProject(project)
  BY ProjectTyped DEF IdsInv, BinInv
<1>2. k \in Leading /\ files[f].image = Image(s) /\ Serializable(k)
  BY DEF IdsInv, OnDisk, Current
<1>3. k \in DOMAIN project.slots
  BY <1>1, <1>2, LeadingCounted
<1>4. s \in Seq(Range(s)) /\ \A i \in DOMAIN s : IsEntry(s[i]) /\ Encodable(s[i])
  BY <1>1, <1>2, <1>3, SlotTyped DEF Serializable
<1>5. \A i \in DOMAIN s : number[i] \in Nat /\ Image(s)[i] = BinaryId(s[i], number[i])
  BY <1>4, InstanceRises DEF Image
<1>6. project.yaml = "single" => k = 0
  BY <1>2 DEF Leading
<1> HIDE DEF k, s, number
<1>7. \A i \in DOMAIN s : (SummaryId(s[i], number[i]) = Image(s)[i]) <=> Faithful(s[i], number[i])
  BY <1>4, <1>5, IdsAgree
<1>8. ASSUME told, NEW kinds
      PROVE  SummaryIds(s, kinds) = {Image(s)[i] : i \in {j \in DOMAIN s : s[j].kind \in kinds}}
  BY <1>4, <1>8, SummaryTold DEF number
<1>9. ASSUME told, report.kind = "asked", project.yaml = "single"
      PROVE  report.ids = {Image(s)[i] : i \in {j \in DOMAIN s : s[j].kind = "io"}}
  <2>1. report.ids = SummaryIds(s, {"io"})
    BY <1>6, <1>9 DEF IdsInv, Answered, s, k
  <2>2. {j \in DOMAIN s : s[j].kind \in {"io"}} = {j \in DOMAIN s : s[j].kind = "io"}
    OBVIOUS
  <2> QED BY <1>8, <1>9, <2>1, <2>2
<1>10. ASSUME told, s # << >>, report.kind = "compat", project.yaml = "single" \/ report.name = k
       PROVE  report.verdict = "fits" <=>
                Fits(Range(Image(s)), report.target) /\ InRange(report.slot, report.target)
  <2>1. Described(report.name) = s
    BY <1>3, <1>6, <1>10 DEF Described, s, k
  <2>2. SummaryIds(s, Kinds) = Range(Image(s))
    <3>1. {j \in DOMAIN s : s[j].kind \in Kinds} = DOMAIN s
      BY <1>4 DEF IsEntry
    <3>2. Range(Image(s)) = {Image(s)[i] : i \in DOMAIN s}
      BY DEF Range, Image
    <3> QED BY <1>8, <1>10, <3>1, <3>2
  <2>3. Range(Image(s)) # {}
    <3>1. 1 \in DOMAIN s
      BY <1>4, <1>10
    <3> QED BY <3>1 DEF Range, Image
  <2> QED BY <1>10, <2>1, <2>2, <2>3 DEF IdsInv, Answered
<1>11. ASSUME NEW i \in DOMAIN s, NEW j \in DOMAIN s, i < j, Image(s)[i] = Image(s)[j]
       PROVE  s[j].inst # NoInst \/ number[j] > PrivMax \/ s[i].type # s[j].type
  BY <1>4, <1>11, SharedIds DEF number
<1> QED BY <1>2, <1>7, <1>9, <1>10, <1>11 DEF k, s, number


-----------------------------------------------------------------------------
(* The steps, for the ids *)

\* What Held, OnDisk and Answered speak of, in a step that leaves the descriptor alone.
LEMMA SubjectKept ==
  ASSUME UNCHANGED <<project, edits>>
  PROVE  /\ \A n : Serializable(n)' <=> Serializable(n)
         /\ \A c : Current(c)' <=> Current(c)
         /\ \A name : Described(name)' = Described(name)
<1>1. \A n : Serializable(n)' <=> Serializable(n)
  BY DEF Serializable
<1>2. \A c : Current(c)' <=> Current(c)
  BY <1>1, SlotsKept DEF Current
<1>3. \A name : Described(name)' = Described(name)
  BY DEF Described
<1> QED BY <1>1, <1>2, <1>3

LEMMA OnDiskKept ==
  ASSUME OnDisk, UNCHANGED <<project, edits, files>>
  PROVE  OnDisk'
  BY SubjectKept DEF OnDisk

LEMMA AnsweredKept ==
  ASSUME Answered, UNCHANGED <<project, edits, report>>
  PROVE  Answered'
  BY SubjectKept DEF Answered

LEMMA HeldKept ==
  ASSUME UNCHANGED <<project, edits>>, images' = << >> \/ (Held /\ UNCHANGED images),
         command' \in {"serialize", "write", "torn"} \/ images' = << >>
  PROVE  Held'
<1>1. CASE images' = << >>
  BY <1>1 DEF Held
<1>2. CASE Held /\ UNCHANGED images
  BY <1>2, SubjectKept DEF Held
<1> QED BY <1>1, <1>2

LEMMA EditTells ==
  ASSUME IdsInv, Edit
  PROVE  Held' /\ OnDisk' /\ Answered'
<1>1. /\ command = "idle" /\ command' = "idle" /\ edits' = edits + 1 /\ report' = NoReport
      /\ UNCHANGED <<images, files>>
  BY DEF Edit
<1>2. images' = << >>
  BY <1>1 DEF IdsInv, Held
<1>3. Held'
  BY <1>2 DEF Held
<1>4. OnDisk'
  <2>1. edits \in Nat /\ \A f \in DOMAIN files : Current(files[f])
    BY DEF IdsInv, OnDisk
  <2>2. ASSUME NEW f \in DOMAIN files
        PROVE  Current(files[f])'
    <3>1. files[f].edition \in Nat /\ files[f].edition <= edits
      BY <2>1 DEF Current
    <3>2. files[f].edition <= edits + 1 /\ files[f].edition # edits + 1
      BY <2>1, <3>1
    <3> QED BY <1>1, <3>1, <3>2 DEF Current
  <2> QED BY <1>1, <2>1, <2>2 DEF OnDisk
<1>5. Answered'
  BY <1>1 DEF Answered, NoReport
<1> QED BY <1>3, <1>4, <1>5

LEMMA SerializeTells ==
  ASSUME IdsInv, SerializeSlot
  PROVE  Held' /\ OnDisk' /\ Answered'
<1> DEFINE n == Len(images)
<1>1. /\ command = "serialize" /\ command' = "serialize"
      /\ \A i \in DOMAIN project.slots[n] : Encodable(project.slots[n][i])
      /\ images' = Append(images, Image(project.slots[n]))
      /\ UNCHANGED <<project, edits, files, report>>
  BY DEF SerializeSlot, bounded
<1>2. images \in Seq({Image(project.slots[k]) : k \in DOMAIN project.slots})
  BY <1>1 DEF IdsInv, BinInv, Serializing, Serialized
<1>3. n \in Nat /\ Len(images') = n + 1
  BY <1>1, <1>2
<1>4. \A k \in 0..n : Serializable(k)
  <2>1. Serializable(n)
    BY <1>1 DEF Serializable
  <2>2. \A k \in 0..n : k = n \/ k \in 0..(n - 1)
    BY <1>3
  <2> QED BY <2>1, <2>2 DEF IdsInv, Held
<1>5. Held'
  <2>1. \A k \in 0..(Len(images') - 1) : k \in 0..n
    BY <1>3
  <2> QED BY <1>1, <1>4, <2>1, SubjectKept DEF Held
<1> QED BY <1>1, <1>5, OnDiskKept, AnsweredKept DEF IdsInv

\* A file is written over with a part of an image or, at last, with the image of its slot.
LEMMA PutTells ==
  ASSUME IdsInv, UNCHANGED <<project, edits>>, NEW f, NEW whole \in BOOLEAN,
         NEW n \in Leading,
         whole => images[n + 1] = Image(project.slots[n]) /\ Serializable(n),
         files' = Updated(files, f, Holding(n, whole))
  PROVE  OnDisk'
<1>1. edits \in Nat /\ \A g \in DOMAIN files : Current(files[g])
  BY DEF IdsInv, OnDisk
<1>2. Current(Holding(n, whole))
  BY <1>1 DEF Current, Holding
<1>3. /\ DOMAIN files' = DOMAIN files \cup {f} /\ files'[f] = Holding(n, whole)
      /\ \A g \in DOMAIN files : g # f => files'[g] = files[g]
  BY DEF Updated
<1>4. \A g \in DOMAIN files' : Current(files'[g])
  BY <1>1, <1>2, <1>3
<1> QED BY <1>1, <1>4, SubjectKept DEF OnDisk

LEMMA OpenFileTells ==
  ASSUME IdsInv, OpenFile
  PROVE  Held' /\ OnDisk' /\ Answered'
<1>1. /\ \/ command = "serialize" /\ Len(images) = SlotCount
         \/ command = "write"
      /\ command' = "torn"
      /\ files' = Updated(files, FileOf(written), Holding(written, FALSE))
      /\ UNCHANGED <<project, edits, images, report>>
  BY DEF OpenFile, Put, bounded
<1>2. IsProject(project)
  BY ProjectTyped DEF IdsInv, BinInv
<1>3. PICK w \in Leading : w = written
  BY <1>1, <1>2, LeadingCounted DEF IdsInv, BinInv, Serializing, Writing
<1>4. OnDisk'
  BY <1>1, <1>3, PutTells
<1>5. Held'
  BY <1>1, HeldKept DEF IdsInv
<1> QED BY <1>1, <1>4, <1>5, AnsweredKept DEF IdsInv

LEMMA FillFileTells ==
  ASSUME IdsInv, FillFile
  PROVE  Held' /\ OnDisk' /\ Answered'
<1>1. /\ command = "torn"
      /\ files' = Updated(files, FileOf(written), Holding(written, TRUE))
      /\ UNCHANGED <<project, edits, report>>
  BY DEF FillFile, Put, bounded
<1>2. IsProject(project)
  BY ProjectTyped DEF IdsInv, BinInv
<1>3. Serialized /\ Len(images) = SlotCount /\ written \in 0..(SlotCount - 1)
  BY <1>1 DEF IdsInv, BinInv, Writing
<1>4. PICK w \in Leading : w = written
  BY <1>2, <1>3, LeadingCounted
<1>5. images[w + 1] = Image(project.slots[w]) /\ Serializable(w)
  BY <1>3, <1>4 DEF IdsInv, Held, Serialized
<1>6. OnDisk'
  BY <1>1, <1>4, <1>5, PutTells
<1>7. Held'
  <2>1. CASE written + 1 = Len(images)
    BY <1>1, <2>1, HeldKept DEF FillFile, Ends
  <2>2. CASE written + 1 # Len(images)
    BY <1>1, <2>2, HeldKept DEF FillFile, IdsInv
  <2> QED BY <2>1, <2>2
<1> QED BY <1>1, <1>6, <1>7, AnsweredKept DEF IdsInv

\* A run begins or ends, or one that validates.
LEMMA OthersTell ==
  ASSUME IdsInv,
         \/ RunValidation \/ ValidationStep \/ EndRefused
         \/ RunBin \/ RefuseSlot \/ WriteFails \/ Kill
  PROVE  Held' /\ OnDisk' /\ Answered'
<1>1. UNCHANGED <<project, edits, files, report>>
  BY DEF RunValidation, ValidationStep, EndRefused, Begin, Validate, ReadKconfig,
         ReadAssignment, ReadComment, ReadInclude, EndFile, Imply, CheckIncludes,
         CheckObjects, CheckDtypes, RunBin, RefuseSlot, WriteFails, Kill, Ends, Starts,
         output, bounded
<1>2. images' = << >>
  <2>1. CASE RunValidation \/ ValidationStep \/ EndRefused
    <3>1. UNCHANGED images /\ command \in {"idle", "valid"}
      BY <2>1 DEF RunValidation, ValidationStep, EndRefused, Idle, output
    <3> QED BY <3>1 DEF IdsInv, Held
  <2>2. CASE RunBin \/ RefuseSlot \/ WriteFails \/ Kill
    BY <2>2 DEF RunBin, RefuseSlot, WriteFails, Kill, Ends
  <2> QED BY <2>1, <2>2
<1> QED BY <1>1, <1>2, HeldKept, OnDiskKept, AnsweredKept DEF IdsInv

LEMMA ReportsTell ==
  ASSUME IdsInv, RunCompat \/ Discover
  PROVE  Held' /\ OnDisk' /\ Answered'
<1>1. UNCHANGED <<project, edits, files, images>> /\ command = "idle"
  BY DEF RunCompat, Discover, Idle, Starts, output
<1>2. images' = << >>
  BY <1>1 DEF IdsInv, Held
<1>3. Answered'
  <2>1. CASE RunCompat
    <3>1. PICK target \in Targets, slot \in SlotChoice, name \in NameChoice :
            LET ids == SummaryIds(Described(name), Kinds) IN
            report' = [kind |-> "compat", target |-> target, slot |-> slot, name |-> name,
                       verdict |-> IF ids = {} THEN "nothing"
                                   ELSE IF Fits(ids, target) /\ InRange(slot, target)
                                        THEN "fits" ELSE "issues"]
      BY <2>1 DEF RunCompat
    <3> QED BY <1>1, <3>1, SubjectKept DEF Answered
  <2>2. CASE Discover
    BY <1>1, <2>2 DEF Discover, Answered
  <2> QED BY <2>1, <2>2
<1> QED BY <1>1, <1>2, <1>3, HeldKept, OnDiskKept DEF IdsInv

LEMMA IdsInvInit == Init => IdsInv
<1> SUFFICES ASSUME Init
             PROVE  IdsInv
  OBVIOUS
<1>1. images = << >> /\ files = << >> /\ edits = 0 /\ report = NoReport
  BY DEF Init
<1>2. Held /\ OnDisk /\ Answered
  BY <1>1 DEF Held, OnDisk, Answered, NoReport
<1> QED BY <1>2, InvInit DEF IdsInv

LEMMA IdsInvStep == IdsInv /\ [Next]_vars => IdsInv'
<1> SUFFICES ASSUME IdsInv, [Next]_vars
             PROVE  IdsInv'
  OBVIOUS
<1>1. BinInv'
  BY InvStep DEF IdsInv
<1>2. CASE Edit
  BY <1>1, <1>2, EditTells DEF IdsInv
<1>3. CASE SerializeSlot
  BY <1>1, <1>3, SerializeTells DEF IdsInv
<1>4. CASE OpenFile
  BY <1>1, <1>4, OpenFileTells DEF IdsInv
<1>5. CASE FillFile
  BY <1>1, <1>5, FillFileTells DEF IdsInv
<1>6. CASE \/ RunValidation \/ ValidationStep \/ EndRefused
           \/ RunBin \/ RefuseSlot \/ WriteFails \/ Kill
  BY <1>1, <1>6, OthersTell DEF IdsInv
<1>7. CASE RunCompat \/ Discover
  BY <1>1, <1>7, ReportsTell DEF IdsInv
<1>8. CASE UNCHANGED vars
  <2>1. UNCHANGED <<project, edits, files, images, report, command>>
    BY <1>8 DEF vars, output, bounded
  <2>2. Held'
    BY <2>1, SubjectKept DEF IdsInv, Held
  <2> QED BY <1>1, <2>1, <2>2, OnDiskKept, AnsweredKept DEF IdsInv
<1> QED BY <1>2, <1>3, <1>4, <1>5, <1>6, <1>7, <1>8 DEF Next, Bin

\* The ids that the console and desc-compat work out are those of an image on disk just where
\* the entries are Faithful, and two objects of an image share an id only by the user's hand,
\* beyond the width of the field or as two types of one class: for every descriptor that
\* desc-bin has serialized since the last edit, whatever was run or killed in between.
THEOREM IdsToldTruly == Spec => []IdsTell
<1>1. Spec => []IdsInv
  BY IdsInvInit, IdsInvStep, PTL DEF Spec
<1> QED BY <1>1, InvTells, PTL


-----------------------------------------------------------------------------
(* Types *)

\* The lines of the directory's Kconfig files.
AllLines == UNION {Range(project.kconfig[f]) : f \in DOMAIN project.kconfig}

\* What the errors of the validator are about.
KindsOfError == {"files", "includes", "yaml", "dawn", "nuttx", "dtype"}

\* How far a validation has come; the files being read have all been visited.
ReadTyped ==
  /\ check \in {"none", "read", "includes", "objects", "dtypes", "done"}
  /\ asked \in {"directory", "generated"}
  /\ visited \subseteq File
  /\ stack \in Seq(Seq(AllLines)) /\ Len(stack) <= Cardinality(visited)
  /\ \A s \in DOMAIN values : IsValue(values[s])
  /\ \A e \in errors : e[1] \in KindsOfError
  /\ check # "read" => stack = << >>
  /\ command # "valid" => check \in {"none", "done"}

\* What desc-bin, desc-compat and the user leave.
Shaped ==
  /\ command \in {"idle", "valid", "serialize", "write", "torn"}
  /\ command \in {"idle", "valid"} => images = << >> /\ written = 0
  /\ \A f \in DOMAIN files : files[f].whole => f = <<"single", 0>> \/ f = <<"slot", files[f].slot>>
  /\ outcome \in {"none", "ok", "raised", "failed", "killed"}
  /\ report.kind \in {"none", "compat", "asked"}
  /\ edits \in 0..MaxEdits /\ commands \in 0..MaxCommands

TypeInv == BinInv /\ ReadTyped /\ Shaped

LEMMA InvTyped == TypeInv => TypeOK
<1> SUFFICES ASSUME TypeInv
             PROVE  TypeOK
  OBVIOUS
<1>1. IsProject(project)
  BY ProjectTyped DEF TypeInv, BinInv
<1>2. ValidationTypeOK
  <2>1. \A e \in errors : e[1] \in {"files", "includes", "yaml", "dawn", "nuttx", "dtype"}
    BY DEF TypeInv, ReadTyped, KindsOfError
  <2> QED BY <1>1, <2>1 DEF TypeInv, ReadTyped, ValidationTypeOK
<1>3. SlotCount <= Cardinality(DOMAIN project.slots)
  <2>1. IsFiniteSet(DOMAIN project.slots)
    BY <1>1 DEF IsProject
  <2> QED BY <1>1, <2>1, LeadingCounted, FS_Subset
<1>4. SlotCount \in Nat \ {0} /\ Cardinality(DOMAIN project.slots) \in Nat
  <2>1. IsFiniteSet(DOMAIN project.slots)
    BY <1>1 DEF IsProject
  <2> QED BY <1>1, <2>1, LeadingCounted, FS_CardinalityType
<1>5. written \in 0..Len(images) /\ Len(images) <= Cardinality(DOMAIN project.slots)
  <2>1. CASE command \in {"idle", "valid"}
    <3>1. Len(images) = 0 /\ written = 0
      BY <2>1 DEF TypeInv, Shaped
    <3> QED BY <1>4, <3>1
  <2>2. CASE command = "serialize"
    <3>1. images \in Seq({Image(project.slots[n]) : n \in DOMAIN project.slots})
          /\ Len(images) <= SlotCount /\ written = 0
      BY <2>2 DEF TypeInv, BinInv, Serializing, Serialized
    <3>2. Len(images) \in Nat
      BY <3>1
    <3> QED BY <1>3, <1>4, <3>1, <3>2
  <2>3. CASE command \in {"write", "torn"}
    <3>1. Len(images) = SlotCount /\ written \in 0..(SlotCount - 1)
      BY <2>3 DEF TypeInv, BinInv, Writing
    <3> QED BY <1>3, <1>4, <3>1
  <2> QED BY <2>1, <2>2, <2>3 DEF TypeInv, Shaped
<1> QED BY <1>2, <1>5 DEF TypeInv, Shaped, TypeOK

-----------------------------------------------------------------------------
(* Reading the Kconfig files *)

LEMMA LinesTyped ==
  ASSUME IsProject(project)
  PROVE  /\ \A l \in AllLines : IsLine(l)
         /\ \A f : Lines(f) \in Seq(AllLines)
<1>1. ASSUME NEW f \in DOMAIN project.kconfig
      PROVE  /\ project.kconfig[f] \in Seq(AllLines)
             /\ \A l \in Range(project.kconfig[f]) : IsLine(l)
  <2>1. /\ project.kconfig[f] \in Seq(Range(project.kconfig[f]))
        /\ \A l \in Range(project.kconfig[f]) : IsLine(l)
    BY DEF IsProject
  <2>2. Range(project.kconfig[f]) \subseteq AllLines
    BY DEF AllLines
  <2> QED BY ONLY <2>1, <2>2
<1>2. \A l \in AllLines : IsLine(l)
  BY <1>1 DEF AllLines
<1>3. \A f : Lines(f) \in Seq(AllLines)
  <2> TAKE f
  <2>1. << >> \in Seq(AllLines)
    OBVIOUS
  <2> QED BY <1>1, <2>1 DEF Lines
<1> QED BY <1>2, <1>3

LEMMA FrontTyped ==
  ASSUME NEW S, NEW s \in Seq(S), s # << >>
  PROVE  Front(s) \in Seq(S) /\ Len(s) \in Nat \ {0} /\ Len(Front(s)) = Len(s) - 1
<1>1. Len(s) \in Nat \ {0}
  OBVIOUS
<1>2. PICK n \in Nat : n = Len(s) - 1
  BY ONLY <1>1
<1>3. \A i \in 1..n : s[i] \in S
  BY <1>1, <1>2
<1>4. /\ SubSeq(s, 1, n) \in Seq(S)
      /\ Len(SubSeq(s, 1, n)) = IF 1 <= n THEN n - 1 + 1 ELSE 0
  BY <1>2, <1>3, SubSeqProperties
<1>5. Len(SubSeq(s, 1, n)) = n
  BY <1>2, <1>4
<1> QED BY <1>1, <1>2, <1>4, <1>5 DEF Front

LEMMA OneMore ==
  ASSUME NEW S, NEW s \in Seq(S), NEW e \in S
  PROVE  s \o <<e>> \in Seq(S) /\ Len(s \o <<e>>) = Len(s) + 1
  OBVIOUS

\* The last of a non-empty sequence of sequences, without its first element or left out.
LEMMA TopReplaced ==
  ASSUME NEW L, NEW s \in Seq(Seq(L)), s # << >>
  PROVE  /\ Len(s) \in Nat \ {0} /\ s[Len(s)] \in Seq(L)
         /\ Front(s) \in Seq(Seq(L)) /\ Len(Front(s)) = Len(s) - 1
         /\ s[Len(s)] # << >> =>
              /\ Head(s[Len(s)]) \in L
              /\ Front(s) \o <<Tail(s[Len(s)])>> \in Seq(Seq(L))
              /\ Len(Front(s) \o <<Tail(s[Len(s)])>>) = Len(s)
<1>1. Len(s) \in Nat \ {0} /\ s[Len(s)] \in Seq(L)
  OBVIOUS
<1>2. Front(s) \in Seq(Seq(L)) /\ Len(Front(s)) = Len(s) - 1
  BY FrontTyped
<1>3. ASSUME s[Len(s)] # << >>
      PROVE  Head(s[Len(s)]) \in L /\ Tail(s[Len(s)]) \in Seq(L)
  <2> DEFINE t == s[Len(s)]
  <2>1. t \in Seq(L) /\ t # << >>
    BY <1>1, <1>3
  <2> HIDE DEF t
  <2>2. Head(t) \in L /\ Tail(t) \in Seq(L)
    BY ONLY <2>1
  <2> QED BY <2>2 DEF t
<1>4. ASSUME NEW t \in Seq(L)
      PROVE  Front(s) \o <<t>> \in Seq(Seq(L)) /\ Len(Front(s) \o <<t>>) = Len(s)
  <2>1. Front(s) \o <<t>> \in Seq(Seq(L)) /\ Len(Front(s) \o <<t>>) = Len(Front(s)) + 1
    BY <1>2, OneMore
  <2>2. (Len(s) - 1) + 1 = Len(s)
    BY <1>1
  <2> QED BY <1>2, <2>1, <2>2
<1> QED BY <1>1, <1>2, <1>3, <1>4

\* What a step of the reading has before it.
LEMMA TopTyped ==
  ASSUME TypeInv, InFile
  PROVE  /\ Front(stack) \in Seq(Seq(AllLines)) /\ Len(Front(stack)) <= Cardinality(visited)
         /\ IsFiniteSet(visited) /\ Cardinality(visited) \in Nat
         /\ top # << >> => IsLine(line) /\ Rest \in Seq(Seq(AllLines)) /\ Len(Rest) = Len(stack)
<1>1. stack \in Seq(Seq(AllLines)) /\ stack # << >> /\ Len(stack) <= Cardinality(visited)
  BY DEF TypeInv, ReadTyped, InFile
<1>2. IsFiniteSet(visited) /\ Cardinality(visited) \in Nat
  BY ValidationAssumption, FS_Subset, FS_CardinalityType DEF TypeInv, ReadTyped
<1>3. /\ Len(stack) \in Nat \ {0}
      /\ Front(stack) \in Seq(Seq(AllLines)) /\ Len(Front(stack)) = Len(stack) - 1
      /\ top # << >> => /\ line \in AllLines
                        /\ Rest \in Seq(Seq(AllLines)) /\ Len(Rest) = Len(stack)
  BY <1>1, TopReplaced DEF top, line, Rest
<1>4. \A l \in AllLines : IsLine(l)
  BY LinesTyped, ProjectTyped DEF TypeInv, BinInv
<1>5. Len(Front(stack)) <= Cardinality(visited)
  BY <1>1, <1>2, <1>3
<1> QED BY <1>2, <1>3, <1>4, <1>5

LEMMA KconfigTyped ==
  ASSUME TypeInv, ReadKconfig, command = "valid", command' \in {"idle", "valid"},
         check' = "done" <=> command' = "idle"
  PROVE  ReadTyped'
<1>1. /\ InFile /\ check = "read"
      /\ UNCHANGED <<project, check, asked, errors>>
  BY DEF ReadKconfig, ReadAssignment, ReadComment, ReadInclude, EndFile, InFile
<1>2. AllLines' = AllLines
  BY <1>1 DEF AllLines
<1>3. /\ stack \in Seq(Seq(AllLines)) /\ Len(stack) <= Cardinality(visited)
      /\ visited \subseteq File /\ \A s \in DOMAIN values : IsValue(values[s])
  BY DEF TypeInv, ReadTyped
<1>4. command' = "valid"
  BY <1>1
<1>5. /\ stack' \in Seq(Seq(AllLines)) /\ Len(stack') <= Cardinality(visited')
      /\ visited' \subseteq File /\ \A s \in DOMAIN values' : IsValue(values'[s])
  <2>1. CASE ReadAssignment
    <3>1. /\ top # << >> /\ line.op = "set" /\ stack' = Rest /\ visited' = visited
          /\ values' = Updated(values, line.sym, line.value)
      BY <2>1 DEF ReadAssignment
    <3>2. IsValue(line.value)
      BY <1>1, <3>1, TopTyped DEF IsLine
    <3>3. \A s \in DOMAIN values' : IsValue(values'[s])
      BY <1>3, <3>1, <3>2 DEF Updated
    <3> QED BY <1>1, <1>3, <3>1, <3>3, TopTyped
  <2>2. CASE ReadComment
    BY <1>1, <1>3, <2>2, TopTyped DEF ReadComment
  <2>3. CASE ReadInclude
    <3>1. /\ top # << >> /\ line.op = "include" /\ visited' = visited \cup {line.file}
          /\ values' = values
          /\ stack' = IF line.file \in visited THEN Rest ELSE Append(Rest, Lines(line.file))
      BY <2>3 DEF ReadInclude, Visited
    <3>2. line.file \in File /\ Rest \in Seq(Seq(AllLines)) /\ Len(Rest) = Len(stack)
      BY <1>1, <3>1, TopTyped DEF IsLine
    <3>3. Lines(line.file) \in Seq(AllLines)
      BY LinesTyped, ProjectTyped DEF TypeInv, BinInv
    <3>4. CASE line.file \in visited
      <4>1. visited' = visited /\ stack' = Rest
        BY <3>1, <3>4
      <4> QED BY <1>3, <3>1, <3>2, <4>1
    <3>5. CASE line.file \notin visited
      <4>1. stack' = Append(Rest, Lines(line.file))
        BY <3>1, <3>5
      <4>2. stack' \in Seq(Seq(AllLines)) /\ Len(stack') = Len(Rest) + 1
        BY <3>2, <3>3, <4>1, AppendProperties
      <4>3. Cardinality(visited') = Cardinality(visited) + 1
        BY <1>1, <3>1, <3>5, TopTyped, FS_AddElement
      <4>4. Len(stack) \in Nat /\ Cardinality(visited) \in Nat
        BY <1>1, <1>3, TopTyped
      <4>5. Len(stack') <= Cardinality(visited')
        BY <1>3, <3>2, <4>2, <4>3, <4>4
      <4> QED BY <1>3, <3>1, <3>2, <4>2, <4>5
    <3> QED BY <3>4, <3>5
  <2>4. CASE EndFile
    BY <1>1, <1>3, <2>4, TopTyped DEF EndFile
  <2> QED BY <2>1, <2>2, <2>3, <2>4 DEF ReadKconfig
<1> QED BY <1>1, <1>2, <1>4, <1>5 DEF TypeInv, ReadTyped

-----------------------------------------------------------------------------
(* The checks, and the other commands *)

LEMMA SymbolsNamed ==
  /\ \A t : Component(t)[1] \in KindsOfError
  /\ \A e : \A x \in Required(e) : x[1] \in KindsOfError
  /\ Channels[1] \in KindsOfError
  /\ \A d : DtypeSymbol(d)[1] \in KindsOfError
  /\ \A x \in Broken : x[1] \in KindsOfError
<1> USE DEF KindsOfError
<1>1. \A t : Component(t)[1] \in KindsOfError
  BY DEF Component
<1>2. \A e : \A x \in Required(e) : x[1] \in KindsOfError
  <2> TAKE e
  <2> TAKE x \in Required(e)
  <2>1. x = Component(e.type) \/ \E n : x = <<"nuttx", n>>
    BY DEF Required
  <2> QED BY <1>1, <2>1
<1>3. Channels[1] \in KindsOfError
  BY DEF Channels
<1>4. \A d : DtypeSymbol(d)[1] \in KindsOfError
  BY DEF DtypeSymbol
<1>5. \A x \in Broken : x[1] \in KindsOfError
  BY DEF Broken
<1> HIDE DEF KindsOfError
<1> QED BY <1>1, <1>2, <1>3, <1>4, <1>5

LEMMA ChecksTyped ==
  ASSUME TypeInv, Imply \/ CheckIncludes \/ CheckObjects \/ CheckDtypes,
         command = "valid", command' \in {"idle", "valid"},
         check' = "done" <=> command' = "idle"
  PROVE  ReadTyped'
<1>1. /\ UNCHANGED <<project, asked, stack, visited, values>>
      /\ stack = << >> /\ check' \in {"includes", "objects", "dtypes", "done"}
  BY DEF Imply, CheckIncludes, CheckObjects, CheckDtypes, reading, TypeInv, ReadTyped
<1>2. AllLines' = AllLines
  BY <1>1 DEF AllLines
<1>3. \A e \in errors : e[1] \in KindsOfError
  BY DEF TypeInv, ReadTyped
<1>4. \A e \in errors' : e[1] \in KindsOfError
  <2>1. CASE Imply
    BY <1>3, <2>1 DEF Imply
  <2>2. CASE CheckIncludes
    <3>1. \A e \in errors' : \/ e \in errors \/ e = <<"includes", "none">>
                             \/ \E t : e = Component(t)
      BY <2>2 DEF CheckIncludes
    <3> TAKE e \in errors'
    <3>2. CASE e = <<"includes", "none">>
      BY <3>2 DEF KindsOfError
    <3>3. CASE e \in errors
      BY <1>3, <3>3
    <3>4. CASE \E t : e = Component(t)
      BY <3>4, SymbolsNamed
    <3> QED BY <3>1, <3>2, <3>3, <3>4
  <2>3. CASE CheckObjects
    <3>1. \A e \in errors' : \/ e \in errors \/ e \in Broken \/ e = Channels
                             \/ \E f : e \in Required(f)
      <4> DEFINE lacking == UNION {Required(e) \ enabled : e \in Looked}
                 narrow == {Channels : e \in {f \in Looked : ~EnoughChannels(f, values)}}
      <4>1. errors' = errors \cup Broken \cup lacking \cup narrow
        BY <2>3 DEF CheckObjects
      <4>2. \A e \in lacking : \E f : e \in Required(f)
        OBVIOUS
      <4>3. \A e \in narrow : e = Channels
        OBVIOUS
      <4> HIDE DEF lacking, narrow
      <4> QED BY <4>1, <4>2, <4>3
    <3> QED BY <1>3, <3>1, SymbolsNamed
  <2>4. CASE CheckDtypes
    <3>1. \A e \in errors' : e \in errors \/ e \in Broken \/ \E d : e = DtypeSymbol(d)
      BY <2>4 DEF CheckDtypes
    <3> QED BY <1>3, <3>1, SymbolsNamed
  <2> QED BY <2>1, <2>2, <2>3, <2>4
<1> QED BY <1>1, <1>2, <1>4 DEF TypeInv, ReadTyped

LEMMA BeginTyped ==
  ASSUME TypeInv, RunValidation
  PROVE  ReadTyped'
<1>1. PICK how \in {"directory", "generated"} : Begin(how)
  BY DEF RunValidation
<1>2. command' = "valid" /\ asked' = how /\ values' = << >> /\ project' = project
  BY <1>1 DEF RunValidation, Begin
<1>3. AllLines' = AllLines
  BY <1>2 DEF AllLines
<1>4. CASE Judgeable(how)
  <2>1. check' = "read" /\ errors' = {} /\ stack' = <<Lines(Root)>> /\ visited' = {Root}
    BY <1>1, <1>4 DEF Begin
  <2>2. Lines(Root) \in Seq(AllLines)
    BY LinesTyped, ProjectTyped DEF TypeInv, BinInv
  <2>3. stack' \in Seq(Seq(AllLines)) /\ Len(stack') = 1
    BY <2>1, <2>2
  <2>4. Cardinality(visited') = 1 /\ visited' \subseteq File
    BY <2>1, ValidationAssumption, FS_Singleton
  <2> QED BY <1>2, <1>3, <2>1, <2>3, <2>4 DEF ReadTyped
<1>5. CASE ~Judgeable(how)
  <2>1. check' = "done" /\ errors' = {<<"files", how>>} /\ stack' = << >> /\ visited' = {}
    BY <1>1, <1>5 DEF Begin
  <2>2. Cardinality(visited') = 0 /\ stack' \in Seq(Seq(AllLines)) /\ Len(stack') = 0
    BY <2>1, FS_EmptySet
  <2>3. \A e \in errors' : e[1] \in KindsOfError
    BY <2>1 DEF KindsOfError
  <2>4. visited' \subseteq File /\ \A s \in DOMAIN values' : IsValue(values'[s])
    BY <1>2, <2>1
  <2> QED BY <1>2, <1>3, <2>1, <2>2, <2>3, <2>4 DEF ReadTyped
<1> QED BY <1>4, <1>5

\* Outside of a validation nothing is being read.
LEMMA NotReading ==
  ASSUME TypeInv, command # "valid", command' # "valid",
         UNCHANGED <<asked, visited, stack, values, errors>>, check' \in {check, "none"}
  PROVE  ReadTyped'
<1>1. check \in {"none", "done"} /\ stack = << >>
  BY DEF TypeInv, ReadTyped
<1>2. stack' \in Seq(Seq(AllLines'))
  BY <1>1
<1> QED BY <1>1, <1>2 DEF TypeInv, ReadTyped

LEMMA ReadStep ==
  ASSUME TypeInv, [Next]_vars
  PROVE  ReadTyped'
<1>1. CASE RunValidation
  BY <1>1, BeginTyped
<1>2. CASE ValidationStep
  <2>1. /\ command = "valid" /\ command' \in {"idle", "valid"}
        /\ check' = "done" <=> command' = "idle"
    BY <1>2 DEF ValidationStep
  <2>2. ReadKconfig \/ Imply \/ CheckIncludes \/ CheckObjects \/ CheckDtypes
    BY <1>2 DEF ValidationStep, Validate
  <2> QED BY <2>1, <2>2, KconfigTyped, ChecksTyped
<1>3. CASE EndRefused
  <2>1. /\ check = "done" /\ command' = "idle"
        /\ UNCHANGED <<project, check, asked, visited, stack, values, errors>>
    BY <1>3 DEF EndRefused, validating, reading
  <2>2. AllLines' = AllLines
    BY <2>1 DEF AllLines
  <2> QED BY <2>1, <2>2 DEF TypeInv, ReadTyped
<1>4. CASE Edit
  BY <1>4, NotReading DEF Edit, reading
<1>5. CASE Bin \/ RunCompat \/ Discover
  <2>1. /\ command # "valid" /\ command' # "valid"
        /\ UNCHANGED <<asked, visited, stack, values, errors, check>>
    BY <1>5 DEF Bin, RunBin, SerializeSlot, RefuseSlot, OpenFile, FillFile, WriteFails, Kill,
                Ends, RunCompat, Discover, Idle, validating, reading
  <2> QED BY <2>1, NotReading
<1>6. CASE UNCHANGED vars
  <2>1. UNCHANGED <<project, command, check, asked, visited, stack, values, errors>>
    BY <1>6 DEF vars, validating, reading
  <2>2. AllLines' = AllLines
    BY <2>1 DEF AllLines
  <2> QED BY <2>1, <2>2 DEF TypeInv, ReadTyped
<1> QED BY <1>1, <1>2, <1>3, <1>4, <1>5, <1>6 DEF Next

-----------------------------------------------------------------------------
(* Files, report and bounds *)

LEMMA PutShaped ==
  ASSUME Shaped, NEW n, NEW whole \in BOOLEAN,
         files' = Updated(files, FileOf(n), Holding(n, whole))
  PROVE  \A f \in DOMAIN files' :
           files'[f].whole => f = <<"single", 0>> \/ f = <<"slot", files'[f].slot>>
<1>1. FileOf(n) = <<"single", 0>> \/ FileOf(n) = <<"slot", n>>
  BY DEF FileOf
<1>2. Holding(n, whole).slot = n
  BY DEF Holding
<1>3. /\ DOMAIN files' = DOMAIN files \cup {FileOf(n)} /\ files'[FileOf(n)] = Holding(n, whole)
      /\ \A g \in DOMAIN files : g # FileOf(n) => files'[g] = files[g]
  BY DEF Updated
<1> QED BY <1>1, <1>2, <1>3 DEF Shaped

LEMMA ShapedStep ==
  ASSUME TypeInv, [Next]_vars
  PROVE  Shaped'
<1> USE DEF TypeInv
<1>1. CASE Edit
  <2>1. edits' = edits + 1 /\ edits < MaxEdits /\ command = "idle" /\ command' = "idle"
        /\ outcome' = "none" /\ report' = NoReport
        /\ UNCHANGED <<images, written, files, commands>>
    BY <1>1 DEF Edit
  <2> QED BY <2>1, DeploymentAssumption DEF Shaped, NoReport
<1>2. CASE RunValidation \/ ValidationStep \/ EndRefused
  <2>1. /\ UNCHANGED <<images, written, files, outcome, report, edits>>
        /\ command \in {"idle", "valid"} /\ command' \in {"idle", "valid"}
        /\ commands' = commands \/ (commands < MaxCommands /\ commands' = commands + 1)
    BY <1>2 DEF RunValidation, ValidationStep, EndRefused, Idle, Starts, output, bounded
  <2> QED BY <2>1, DeploymentAssumption DEF Shaped
<1>3. CASE RunBin
  <2>1. /\ UNCHANGED <<files, report, edits>> /\ command' = "serialize" /\ outcome' = "none"
        /\ commands < MaxCommands /\ commands' = commands + 1
    BY <1>3 DEF RunBin, Idle, Starts
  <2> QED BY <2>1, DeploymentAssumption DEF Shaped
<1>4. CASE SerializeSlot
  BY <1>4 DEF SerializeSlot, Shaped, bounded
<1>5. CASE RefuseSlot \/ WriteFails \/ Kill
  <2>1. /\ UNCHANGED <<files, report, edits, commands>> /\ command' = "idle"
        /\ outcome' \in {"raised", "failed", "killed"} /\ images' = << >> /\ written' = 0
    BY <1>5 DEF RefuseSlot, WriteFails, Kill, Ends, bounded
  <2> QED BY <2>1 DEF Shaped
<1>6. CASE OpenFile
  <2>1. /\ UNCHANGED <<outcome, report, edits, commands>> /\ command' = "torn"
        /\ files' = Updated(files, FileOf(written), Holding(written, FALSE))
    BY <1>6 DEF OpenFile, Put, bounded
  <2> QED BY <2>1, PutShaped DEF Shaped
<1>7. CASE FillFile
  <2>1. /\ UNCHANGED <<report, edits, commands>>
        /\ files' = Updated(files, FileOf(written), Holding(written, TRUE))
        /\ \/ command' = "idle" /\ outcome' = "ok" /\ images' = << >> /\ written' = 0
           \/ command' = "write" /\ outcome' = outcome
    BY <1>7 DEF FillFile, Put, Ends, bounded
  <2> QED BY <2>1, PutShaped DEF Shaped
<1>8. CASE RunCompat \/ Discover
  <2>1. /\ UNCHANGED <<command, images, written, files, outcome, edits>>
        /\ commands < MaxCommands /\ commands' = commands + 1
        /\ report'.kind \in {"compat", "asked"}
    BY <1>8 DEF RunCompat, Discover, Idle, Starts, output
  <2> QED BY <2>1, DeploymentAssumption DEF Shaped
<1>9. CASE UNCHANGED vars
  BY <1>9 DEF Shaped, vars, output, bounded
<1> QED BY <1>1, <1>2, <1>3, <1>4, <1>5, <1>6, <1>7, <1>8, <1>9 DEF Next, Bin

LEMMA TypeInvInit == Init => TypeInv
<1> SUFFICES ASSUME Init
             PROVE  TypeInv
  OBVIOUS
<1>1. /\ check = "none" /\ asked = "generated" /\ stack = << >> /\ visited = {}
      /\ values = << >> /\ errors = {} /\ command = "idle"
  BY DEF Init, ValidationInit
<1>2. ReadTyped
  <2>1. Cardinality(visited) = 0 /\ stack \in Seq(Seq(AllLines)) /\ Len(stack) = 0
    BY <1>1, FS_EmptySet
  <2> QED BY <1>1, <2>1 DEF ReadTyped
<1>3. Shaped
  BY DeploymentAssumption DEF Init, Shaped, NoReport
<1> QED BY <1>2, <1>3, InvInit DEF TypeInv

\* Every variable has its type: above all, no file is being read by the validator twice at
\* once and a run of desc-bin holds no more images than there are slots.
THEOREM TypeCorrect == Spec => []TypeOK
<1>1. TypeInv /\ [Next]_vars => TypeInv'
  BY InvStep, ReadStep, ShapedStep DEF TypeInv
<1>2. Spec => []TypeInv
  BY <1>1, TypeInvInit, PTL DEF Spec
<1> QED BY <1>2, InvTyped, PTL

-----------------------------------------------------------------------------
(* Sequences put behind one another                                          *)

\* In t, part i of s lies behind the first o[i - 1] elements and ends with element o[i].
Placed(o, s, t) ==
  /\ o \in [0..Len(s) -> Nat] /\ o[0] = 0 /\ o[Len(s)] = Len(t)
  /\ \A i \in 1..Len(s) :
       /\ o[i] = o[i - 1] + Len(s[i]) /\ o[i] <= Len(t)
       /\ \A j \in 1..Len(s[i]) : t[o[i - 1] + j] = s[i][j]

Joined(s, f, n) == IF n = 1 THEN s[n] ELSE f[n - 1] \o s[n]

LEMMA JoinExists ==
  ASSUME NEW s, NEW n \in Nat
  PROVE  \E f : f = [k \in 1..n |-> Joined(s, f, k)]
<1> DEFINE Fails == {m \in 0..n : ~\E f : f = [k \in 1..m |-> Joined(s, f, k)]}
<1> SUFFICES ASSUME Fails # {}
             PROVE  FALSE
  OBVIOUS
<1>1. PICK m \in Fails : \A k \in Fails : m <= k
  <2>1. Fails \in SUBSET Nat
    OBVIOUS
  <2> QED BY <2>1, LeastNumber
<1>2. m # 0
  <2> DEFINE f == [k \in 1..0 |-> << >>]
  <2>1. f = [k \in 1..0 |-> Joined(s, f, k)]
    OBVIOUS
  <2> QED BY <1>1, <2>1
<1>3. PICK f : f = [k \in 1..(m - 1) |-> Joined(s, f, k)]
  <2>1. m - 1 \in 0..n /\ ~(m <= m - 1)
    BY <1>1, <1>2
  <2> QED BY <1>1, <2>1
<1> DEFINE g == [k \in 1..m |-> Joined(s, f, k)]
<1>4. \A k \in 1..m : Joined(s, f, k) = Joined(s, g, k)
  <2>1. m \in Nat /\ \A k \in 1..m : k # 1 => k - 1 \in 1..(m - 1)
    BY <1>1
  <2>2. \A k \in 1..(m - 1) : g[k] = f[k]
    BY <1>3, <2>1
  <2> HIDE DEF g
  <2> QED BY <2>1, <2>2 DEF Joined
<1>5. g = [k \in 1..m |-> Joined(s, g, k)]
  BY <1>4
<1> HIDE DEF g
<1> QED BY <1>1, <1>5

\* One more part.
LEMMA PlacedNext ==
  ASSUME NEW L, NEW s \in Seq(Seq(L)), NEW m \in 0..(Len(s) - 1),
         NEW t \in Seq(L), NEW o, Placed(o, SubSeq(s, 1, m), t)
  PROVE  \E p : Placed(p, SubSeq(s, 1, m + 1), t \o s[m + 1])
<1> DEFINE r == s[m + 1]
           u == t \o r
           p == [i \in 0..(m + 1) |-> IF i = m + 1 THEN Len(t) + Len(r) ELSE o[i]]
<1>1. m \in Nat /\ m + 1 \in 1..Len(s) /\ r \in Seq(L)
  OBVIOUS
<1>2. /\ Len(SubSeq(s, 1, m)) = m /\ Len(SubSeq(s, 1, m + 1)) = m + 1
      /\ \A i \in 1..m : SubSeq(s, 1, m)[i] = s[i]
      /\ \A i \in 1..(m + 1) : SubSeq(s, 1, m + 1)[i] = s[i]
  BY <1>1
<1>3. Len(t) \in Nat /\ Len(r) \in Nat
  BY <1>1
<1>4. /\ u \in Seq(L) /\ Len(u) = Len(t) + Len(r)
      /\ \A i \in 1..Len(u) : u[i] = IF i <= Len(t) THEN t[i] ELSE r[i - Len(t)]
  BY <1>1, ConcatProperties
<1>5. /\ o \in [0..m -> Nat] /\ o[0] = 0 /\ o[m] = Len(t)
      /\ \A i \in 1..m :
           /\ o[i] = o[i - 1] + Len(s[i]) /\ o[i] <= Len(t)
           /\ \A j \in 1..Len(s[i]) : t[o[i - 1] + j] = s[i][j]
  BY <1>2 DEF Placed
<1>6. /\ p \in [0..(m + 1) -> Nat] /\ p[0] = 0 /\ p[m + 1] = Len(u)
      /\ \A i \in 0..m : p[i] = o[i]
  BY <1>1, <1>3, <1>4, <1>5
<1> HIDE DEF p, u, r
<1>7. ASSUME NEW i \in 1..(m + 1)
      PROVE  /\ p[i] = p[i - 1] + Len(s[i]) /\ p[i] <= Len(u)
             /\ \A j \in 1..Len(s[i]) : u[p[i - 1] + j] = s[i][j]
  <2>1. CASE i \in 1..m
    <3>1. /\ i \in 0..m /\ i - 1 \in 0..m /\ o[i - 1] \in Nat /\ o[i] \in Nat
          /\ Len(s[i]) \in Nat
      <4>1. i \in 0..m /\ i - 1 \in 0..m /\ i \in 1..Len(s)
        BY <1>1, <2>1
      <4>2. o[i - 1] \in Nat /\ o[i] \in Nat
        BY <1>5, <4>1
      <4> QED BY <4>1, <4>2
    <3>2. p[i] = p[i - 1] + Len(s[i]) /\ p[i] <= Len(u)
      <4>1. o[i] = o[i - 1] + Len(s[i]) /\ o[i] <= Len(t) /\ p[i] = o[i] /\ p[i - 1] = o[i - 1]
        BY <1>5, <1>6, <2>1, <3>1
      <4>2. o[i] <= Len(t) + Len(r)
        BY <1>3, <3>1, <4>1
      <4> QED BY <1>4, <4>1, <4>2
    <3>3. ASSUME NEW j \in 1..Len(s[i])
          PROVE  u[p[i - 1] + j] = s[i][j]
      <4>2. o[i] = o[i - 1] + Len(s[i]) /\ o[i] <= Len(t) /\ t[o[i - 1] + j] = s[i][j]
        BY <1>5, <2>1, <3>3
      <4>3. o[i - 1] + j \in 1..Len(u) /\ o[i - 1] + j <= Len(t)
        <5>1. PICK a, b, c, d \in Nat :
                a = o[i - 1] /\ b = Len(s[i]) /\ c = Len(t) /\ d = Len(r)
          BY <1>3, <3>1
        <5>2. j \in 1..b /\ a + b <= c
          BY <3>3, <4>2, <5>1
        <5>3. a + j \in 1..(c + d) /\ a + j <= c
          BY <5>2
        <5> QED BY <1>4, <5>1, <5>3
      <4> QED BY <1>4, <1>6, <3>1, <4>2, <4>3
    <3> QED BY <3>2, <3>3
  <2>2. CASE i = m + 1
    <3>1. s[i] = r /\ p[i] = Len(u) /\ p[i - 1] = Len(t)
      <4>1. i - 1 = m /\ m \in 0..m
        BY <1>1, <2>2
      <4> QED BY <1>5, <1>6, <2>2, <4>1 DEF r
    <3>2. ASSUME NEW j \in 1..Len(r)
          PROVE  u[Len(t) + j] = r[j]
      <4>1. Len(t) + j \in 1..Len(u) /\ ~(Len(t) + j <= Len(t)) /\ (Len(t) + j) - Len(t) = j
        BY <1>3, <1>4, <3>2
      <4> QED BY <1>4, <4>1
    <3>3. Len(u) = Len(t) + Len(r) /\ Len(u) <= Len(u)
      BY <1>3, <1>4
    <3>4. ASSUME NEW j \in 1..Len(s[i])
          PROVE  u[p[i - 1] + j] = s[i][j]
      BY <3>1, <3>2
    <3> QED BY <3>1, <3>3, <3>4
  <2> QED BY <1>1, <2>1, <2>2
<1>8. Placed(p, SubSeq(s, 1, m + 1), u)
  BY <1>2, <1>6, <1>7 DEF Placed
<1> QED BY <1>8 DEF u, r

LEMMA FlattenPlaces ==
  ASSUME NEW L, NEW s \in Seq(Seq(L))
  PROVE  FlattenSeq(s) \in Seq(L) /\ \E o : Placed(o, s, FlattenSeq(s))
<1> DEFINE n == Len(s)
           h == CHOOSE f : f = [k \in 1..n |-> Joined(s, f, k)]
           g == [k \in 0..n |-> IF k = 0 THEN << >> ELSE h[k]]
           Right(m) == g[m] \in Seq(L) /\ \E o : Placed(o, SubSeq(s, 1, m), g[m])
<1>1. n \in Nat /\ \A i \in 1..n : s[i] \in Seq(L)
  OBVIOUS
<1>2. h = [k \in 1..n |-> Joined(s, h, k)]
  BY <1>1, JoinExists
<1>3. FlattenSeq(s) = g[n]
  <2>1. CASE n = 0
    <3>1. s = << >>
      BY <2>1
    <3> QED BY <1>1, <2>1, <3>1 DEF FlattenSeq
  <2>2. CASE n # 0
    <3>1. FlattenSeq(s) = h[n]
      BY <2>2 DEF FlattenSeq, Joined
    <3> HIDE DEF h, n
    <3> QED BY <1>1, <2>2, <3>1
  <2> QED BY <2>1, <2>2
<1> HIDE DEF h
<1>4. Right(0)
  <2>1. g[0] = << >> /\ SubSeq(s, 1, 0) = << >>
    BY <1>1
  <2>2. \E o : Placed(o, << >>, << >>)
    <3>1. Placed([i \in 0..0 |-> 0], << >>, << >>)
      BY DEF Placed
    <3> QED BY <3>1
  <2>3. << >> \in Seq(L)
    OBVIOUS
  <2> HIDE DEF g
  <2>4. g[0] \in Seq(L)
    BY <2>1, <2>3
  <2>5. \E o : Placed(o, SubSeq(s, 1, 0), g[0])
    BY ONLY <2>1, <2>2
  <2> QED BY <2>4, <2>5
<1>5. ASSUME NEW m \in 0..(n - 1), Right(m)
      PROVE  Right(m + 1)
  <2>1. m \in Nat /\ m \in 0..n /\ m + 1 \in 1..n /\ m + 1 \in 0..n /\ m + 1 # 0
        /\ (m + 1) - 1 = m
    BY <1>1
  <2>2. g[m + 1] = g[m] \o s[m + 1]
    <3>1. g[m + 1] = Joined(s, h, m + 1)
      BY <1>2, <2>1
    <3>2. CASE m = 0
      <4>1. g[m] = << >> /\ g[m + 1] = s[m + 1] /\ s[m + 1] \in Seq(L)
        BY <1>1, <2>1, <3>1, <3>2 DEF Joined
      <4>2. << >> \o s[m + 1] = s[m + 1]
        BY <4>1, ConcatEmptySeq
      <4> QED BY <4>1, <4>2
    <3>3. CASE m # 0
      <4>1. m + 1 # 1 /\ g[m] = h[m]
        BY <2>1, <3>3
      <4> QED BY <2>1, <3>1, <4>1 DEF Joined
    <3> QED BY <3>2, <3>3
  <2>3. PICK o : Placed(o, SubSeq(s, 1, m), g[m])
    BY <1>5
  <2> HIDE DEF g
  <2>4. \E p : Placed(p, SubSeq(s, 1, m + 1), g[m] \o s[m + 1])
    BY <1>5, <2>3, PlacedNext
  <2>5. g[m + 1] \in Seq(L)
    BY <1>1, <1>5, <2>1, <2>2, ConcatProperties
  <2> QED BY <2>2, <2>4, <2>5
<1> HIDE DEF Right
<1>6. Right(n)
  <2> DEFINE Fails == {m \in 0..n : ~Right(m)}
  <2> SUFFICES ASSUME Fails # {}
               PROVE  FALSE
    BY <1>1
  <2>1. PICK m \in Fails : \A k \in Fails : m <= k
    <3>1. Fails \in SUBSET Nat
      OBVIOUS
    <3> QED BY <3>1, LeastNumber
  <2>2. m # 0
    BY <1>4, <2>1
  <2> HIDE DEF n
  <2>3. m - 1 \in 0..(n - 1) /\ m - 1 \in 0..n /\ ~(m <= m - 1) /\ (m - 1) + 1 = m
    BY <1>1, <2>1, <2>2
  <2>4. Right(m - 1)
    BY <2>1, <2>3
  <2>5. Right((m - 1) + 1)
    BY <1>5, <2>3, <2>4
  <2> QED BY <2>1, <2>3, <2>5
<1>7. SubSeq(s, 1, n) = s
  OBVIOUS
<1> QED BY <1>3, <1>6, <1>7 DEF Right

-----------------------------------------------------------------------------
(* The text that an include stands for *)

Levels == Cardinality(File)

\* A line that is no include.
Plain == {l \in AllLines : l.op # "include"}

\* What a file's lines are spliced from at level n, where S has the level below.
Part(S, n, l) == IF l.op = "include" THEN S[n - 1][l.file] ELSE <<l>>
Parts(S, n, f) == [i \in DOMAIN Lines(f) |-> Part(S, n, Lines(f)[i])]
Layer(S, n) == [f \in File |-> IF n = 0 THEN << >> ELSE FlattenSeq(Parts(S, n, f))]

\* How much of the file's text its first lines make.
Offsets(S, n, f) == CHOOSE o : Placed(o, Parts(S, n, f), S[n][f])

\* S has the text of every file, of as many levels of includes as there are files.
Texts(S) ==
  /\ S \in [0..Levels -> [File -> Seq(Plain)]]
  /\ \A n \in 1..Levels, f \in File : Placed(Offsets(S, n, f), Parts(S, n, f), S[n][f])
  /\ Spliced = S[Levels][Root]

LEMMA LevelsCounted == Levels \in Nat \ {0} /\ Root \in File
<1>1. IsFiniteSet(File) /\ Root \in File
  BY ValidationAssumption
<1> QED BY <1>1, FS_CardinalityType, FS_EmptySet DEF Levels

LEMMA LayersExist ==
  ASSUME NEW n \in Nat
  PROVE  \E S : S = [k \in 0..n |-> Layer(S, k)]
<1> DEFINE Fails == {m \in 0..n : ~\E S : S = [k \in 0..m |-> Layer(S, k)]}
<1> SUFFICES ASSUME Fails # {}
             PROVE  FALSE
  OBVIOUS
<1>1. PICK m \in Fails : \A k \in Fails : m <= k
  <2>1. Fails \in SUBSET Nat
    OBVIOUS
  <2> QED BY <2>1, LeastNumber
<1>2. m # 0
  <2> DEFINE S == [k \in 0..0 |-> [f \in File |-> << >>]]
  <2>1. S = [k \in 0..0 |-> Layer(S, k)]
    BY DEF Layer
  <2> QED BY <1>1, <2>1
<1>3. PICK S : S = [k \in 0..(m - 1) |-> Layer(S, k)]
  <2>1. m - 1 \in 0..n /\ ~(m <= m - 1)
    BY <1>1, <1>2
  <2> QED BY <1>1, <2>1
<1> DEFINE T == [k \in 0..m |-> Layer(S, k)]
<1>4. \A k \in 0..m : Layer(S, k) = Layer(T, k)
  <2>1. m \in Nat /\ \A k \in 0..m : k # 0 => k - 1 \in 0..(m - 1)
    BY <1>1
  <2>2. \A k \in 0..(m - 1) : T[k] = S[k]
    BY <1>3, <2>1
  <2> HIDE DEF T
  <2> TAKE k \in 0..m
  <2>3. CASE k = 0
    BY <2>3 DEF Layer
  <2>4. CASE k # 0
    <3>1. S[k - 1] = T[k - 1]
      BY <2>1, <2>2, <2>4
    <3>2. \A f \in File : Parts(S, k, f) = Parts(T, k, f)
      BY <3>1 DEF Parts, Part
    <3> QED BY <3>2 DEF Layer
  <2> QED BY <2>3, <2>4
<1>5. T = [k \in 0..m |-> Layer(T, k)]
  BY <1>4
<1> HIDE DEF T
<1> QED BY <1>1, <1>5

LEMMA PartsTyped ==
  ASSUME IsProject(project), NEW S, NEW n, NEW f, S[n - 1] \in [File -> Seq(Plain)]
  PROVE  /\ Parts(S, n, f) \in Seq(Seq(Plain)) /\ Len(Parts(S, n, f)) = Len(Lines(f))
         /\ \A i \in 1..Len(Lines(f)) : Parts(S, n, f)[i] = Part(S, n, Lines(f)[i])
<1>1. Lines(f) \in Seq(AllLines) /\ \A l \in AllLines : IsLine(l)
  BY LinesTyped
<1>2. ASSUME NEW l \in AllLines
      PROVE  Part(S, n, l) \in Seq(Plain)
  <2>1. CASE l.op = "include"
    <3>1. l.file \in File
      BY <1>1, <2>1 DEF IsLine
    <3> QED BY <2>1, <3>1 DEF Part
  <2>2. CASE l.op # "include"
    <3>1. l \in Plain
      BY <2>2 DEF Plain
    <3>2. <<l>> \in Seq(Plain)
      BY <3>1
    <3> QED BY <2>2, <3>2 DEF Part
  <2> QED BY <2>1, <2>2
<1>3. \A i \in 1..Len(Lines(f)) : Lines(f)[i] \in AllLines
  BY <1>1
<1>4. Len(Lines(f)) \in Nat /\ DOMAIN Lines(f) = 1..Len(Lines(f))
  BY <1>1
<1>5. Parts(S, n, f) = [i \in 1..Len(Lines(f)) |-> Part(S, n, Lines(f)[i])]
  BY <1>4 DEF Parts
<1> HIDE DEF Part, Parts, Lines, Plain
<1>6. \A i \in 1..Len(Lines(f)) : Part(S, n, Lines(f)[i]) \in Seq(Plain)
  BY <1>2, <1>3
<1> QED BY <1>4, <1>5, <1>6

LEMMA TextsExist == IsProject(project) => \E S : Texts(S)
<1> SUFFICES ASSUME IsProject(project)
             PROVE  \E S : Texts(S)
  OBVIOUS
<1> DEFINE S == CHOOSE S : S = [n \in 0..Levels |-> Layer(S, n)]
<1>1. Levels \in Nat \ {0} /\ Root \in File
  BY LevelsCounted
<1>2. S = [n \in 0..Levels |-> Layer(S, n)]
  BY <1>1, LayersExist
<1>3. Spliced = S[Levels][Root]
  BY DEF Spliced, Layer, Parts, Part, Levels
<1> HIDE DEF S
<1>4. \A n \in 0..Levels : S[n] = Layer(S, n)
  BY <1>2
<1> DEFINE Typed(n) == S[n] \in [File -> Seq(Plain)]
<1>5. Typed(0)
  <2>1. << >> \in Seq(Plain)
    OBVIOUS
  <2>2. S[0] = [f \in File |-> << >>]
    BY <1>1, <1>4 DEF Layer
  <2> QED BY <2>1, <2>2
<1>6. ASSUME NEW n \in 1..Levels, Typed(n - 1), NEW f \in File
      PROVE  S[n][f] \in Seq(Plain) /\ \E o : Placed(o, Parts(S, n, f), S[n][f])
  <2>1. S[n][f] = FlattenSeq(Parts(S, n, f))
    <3>1. n # 0 /\ n \in 0..Levels
      BY <1>1
    <3>2. S[n] = [g \in File |-> FlattenSeq(Parts(S, n, g))]
      BY <1>4, <3>1 DEF Layer
    <3> QED BY <3>2
  <2>2. Parts(S, n, f) \in Seq(Seq(Plain))
    BY <1>6, PartsTyped
  <2> QED BY <2>1, <2>2, FlattenPlaces
<1>7. ASSUME NEW n \in 1..Levels, Typed(n - 1)
      PROVE  Typed(n)
  <2>1. S[n] = [f \in File |-> FlattenSeq(Parts(S, n, f))]
    BY <1>1, <1>4, <1>7 DEF Layer
  <2>2. \A f \in File : S[n][f] \in Seq(Plain)
    BY <1>6, <1>7
  <2> QED BY <2>1, <2>2
<1> HIDE DEF Typed
<1>8. \A n \in 0..Levels : Typed(n)
  <2> DEFINE Fails == {n \in 0..Levels : ~Typed(n)}
  <2> SUFFICES ASSUME Fails # {}
               PROVE  FALSE
    OBVIOUS
  <2>1. PICK n \in Fails : \A k \in Fails : n <= k
    <3>1. Fails \in SUBSET Nat
      BY <1>1
    <3> QED BY <3>1, LeastNumber
  <2>2. n \in 1..Levels /\ n - 1 \in 0..Levels /\ ~(n <= n - 1)
    BY <1>1, <1>5, <2>1
  <2> QED BY <1>7, <2>1, <2>2
<1>9. S \in [0..Levels -> [File -> Seq(Plain)]]
  BY <1>2, <1>8 DEF Typed
<1>10. ASSUME NEW n \in 1..Levels, NEW f \in File
       PROVE  Placed(Offsets(S, n, f), Parts(S, n, f), S[n][f])
  <2>1. Typed(n - 1)
    BY <1>1, <1>8
  <2> QED BY <1>6, <2>1 DEF Offsets
<1> QED BY <1>3, <1>9, <1>10 DEF Texts

-----------------------------------------------------------------------------
(* Where the reading is in the spliced text                                  *)

Level(k) == Levels - k + 1

\* Line i of file g includes file f.
Opens(g, i, f) == i \in 1..Len(Lines(g)) /\ Lines(g)[i].op = "include" /\ Lines(g)[i].file = f

\* t are the lines of f behind the first a.
LeftOf(t, f, a) ==
  /\ a \in 0..Len(Lines(f)) /\ Len(t) = Len(Lines(f)) - a
  /\ \A j \in 1..Len(t) : t[j] = Lines(f)[a + j]

\* The spliced text has t behind its first b lines.
Lies(t, b) == b + Len(t) <= Len(Spliced) /\ \A j \in 1..Len(t) : Spliced[b + j] = t[j]

\* Of the d files being read, st has the lines that are left, at says how many are read and
\* start where the text of the file lies.  Whatever was visited has been included by a line
\* that is read.
PlacesAt(d, S, st, vis, opened, at, start) ==
  /\ opened \in [1..d -> vis] /\ at \in [1..d -> Nat] /\ start \in [1..d -> Nat]
  /\ \A j, k \in 1..d : opened[j] = opened[k] => j = k
  /\ \A k \in 1..d : LeftOf(st[k], opened[k], at[k])
  /\ \A k \in 1..d : Lies(S[Level(k)][opened[k]], start[k])
  /\ d > 0 => opened[1] = Root /\ start[1] = 0
  /\ \A k \in 1..(d - 1) :
       /\ Opens(opened[k], at[k], opened[k + 1])
       /\ start[k + 1] = start[k] + Offsets(S, Level(k), opened[k])[at[k] - 1]
  /\ \A f \in vis \ {Root} :
       \E g \in vis, i \in Nat :
         Opens(g, i, f) /\ \A k \in 1..d : opened[k] = g => i <= at[k]

Places(S, st, vis, opened, at, start) == PlacesAt(Len(st), S, st, vis, opened, at, start)

\* How much of the spliced text has been read.
ReadTo(S, st, opened, at, start) ==
  IF Len(st) = 0 THEN Len(Spliced)
  ELSE start[Len(st)] + Offsets(S, Level(Len(st)), opened[Len(st)])[at[Len(st)]]

\* Line i sets the symbol s.
Sets(i, s) == Spliced[i].op = "set" /\ Spliced[i].sym = s

\* v has what the first c lines set last.
LastSet(v, c) ==
  /\ c \in 0..Len(Spliced)
  /\ \A i \in 1..c : Spliced[i].op = "set" => Spliced[i].sym \in DOMAIN v
  /\ \A s \in DOMAIN v :
       \E i \in 1..c : /\ Sets(i, s) /\ v[s] = Spliced[i].value
                       /\ \A j \in (i + 1)..c : ~Sets(j, s)

\* The reading has come as far as st, with the values v.
Follows(S, st, vis, v) ==
  \E opened, at, start :
    /\ Places(S, st, vis, opened, at, start)
    /\ LastSet(v, ReadTo(S, st, opened, at, start))

LEMMA PartLies ==
  ASSUME IsProject(project), NEW S, Texts(S), NEW n \in 1..Levels, NEW f \in File,
         NEW b \in Nat, Lies(S[n][f], b), NEW i \in 1..Len(Lines(f))
  PROVE  LET o == Offsets(S, n, f)
             t == Part(S, n, Lines(f)[i]) IN
         /\ o[0] = 0 /\ o[i - 1] \in Nat /\ o[i] = o[i - 1] + Len(t) /\ Len(t) \in Nat
         /\ Lies(t, b + o[i - 1])
<1> DEFINE o == Offsets(S, n, f)
           t == Part(S, n, Lines(f)[i])
           u == S[n][f]
<1>1. Levels \in Nat /\ n - 1 \in 0..Levels /\ n \in 0..Levels
  BY LevelsCounted
<1>2. S[n - 1] \in [File -> Seq(Plain)] /\ u \in Seq(Plain)
  BY <1>1 DEF Texts
<1>3. /\ Parts(S, n, f) \in Seq(Seq(Plain)) /\ Len(Parts(S, n, f)) = Len(Lines(f))
      /\ Parts(S, n, f)[i] = t
  BY <1>2, PartsTyped
<1>4. Placed(o, Parts(S, n, f), u)
  BY DEF Texts
<1>5. Len(Lines(f)) \in Nat
  BY LinesTyped
<1>6. t \in Seq(Plain)
  BY <1>3
<1> HIDE DEF o, t, u
<1>7. /\ o \in [0..Len(Lines(f)) -> Nat] /\ o[0] = 0
      /\ o[i] = o[i - 1] + Len(t) /\ o[i] <= Len(u)
      /\ \A j \in 1..Len(t) : u[o[i - 1] + j] = t[j]
  BY <1>3, <1>4 DEF Placed
<1>8. i - 1 \in 0..Len(Lines(f)) /\ i \in 0..Len(Lines(f))
  BY <1>5
<1>9. o[i - 1] \in Nat /\ o[i] \in Nat /\ Len(t) \in Nat /\ Len(u) \in Nat
  <2>1. Len(t) \in Nat /\ Len(u) \in Nat
    BY <1>2, <1>6
  <2> QED BY <1>7, <1>8, <2>1
<1>10. Lies(u, b)
  BY DEF u
<1>11. Len(Spliced) \in Nat
  <2>1. Spliced \in Seq(Plain)
    BY LevelsCounted DEF Texts
  <2> QED BY <2>1
<1>12. (b + o[i - 1]) + Len(t) <= Len(Spliced)
  BY <1>7, <1>9, <1>10, <1>11 DEF Lies
<1>13. ASSUME NEW j \in 1..Len(t)
       PROVE  Spliced[(b + o[i - 1]) + j] = t[j]
  <2>1. o[i - 1] + j \in 1..Len(u) /\ b + (o[i - 1] + j) = (b + o[i - 1]) + j
    BY <1>7, <1>9
  <2> QED BY <1>7, <1>10, <2>1 DEF Lies
<1> QED BY <1>7, <1>9, <1>12, <1>13 DEF Lies, o, t

\* A line of the last file is read.
LEMMA PlaceAdvanced ==
  ASSUME IsProject(project), NEW S, NEW st, NEW vis, NEW opened, NEW at, NEW start,
         Places(S, st, vis, opened, at, start), NEW d \in Nat \ {0}, Len(st) = d,
         NEW su, Len(su) = d, \A k \in 1..(d - 1) : su[k] = st[k],
         LeftOf(su[d], opened[d], at[d] + 1)
  PROVE  Places(S, su, vis, opened, [at EXCEPT ![d] = @ + 1], start)
<1> DEFINE au == [at EXCEPT ![d] = @ + 1]
<1>0. PlacesAt(d, S, st, vis, opened, at, start)
  BY DEF Places
<1>1. at \in [1..d -> Nat] /\ d \in 1..d
  BY <1>0 DEF PlacesAt
<1>2. /\ au \in [1..d -> Nat] /\ au[d] = at[d] + 1
      /\ \A k \in 1..d : k # d => au[k] = at[k] /\ k \in 1..(d - 1)
      /\ \A k \in 1..d : au[k] \in Nat /\ at[k] \in Nat /\ at[k] <= au[k]
      /\ \A k \in 1..(d - 1) : au[k] = at[k]
  BY <1>1
<1> HIDE DEF au
<1>3. \A k \in 1..d : LeftOf(su[k], opened[k], au[k])
  BY <1>0, <1>2 DEF PlacesAt
<1>4. ASSUME NEW f \in vis \ {Root}
      PROVE  \E g \in vis, i \in Nat :
               Opens(g, i, f) /\ \A k \in 1..d : opened[k] = g => i <= au[k]
  <2>1. PICK g \in vis, i \in Nat :
          Opens(g, i, f) /\ \A k \in 1..d : opened[k] = g => i <= at[k]
    BY <1>0, <1>4 DEF PlacesAt
  <2>2. \A k \in 1..d : opened[k] = g => i <= au[k]
    BY <1>2, <2>1
  <2> QED BY <2>1, <2>2
<1>5. PlacesAt(d, S, su, vis, opened, au, start)
  <2>1. /\ opened \in [1..d -> vis] /\ start \in [1..d -> Nat]
        /\ \A j, k \in 1..d : opened[j] = opened[k] => j = k
        /\ \A k \in 1..d : Lies(S[Level(k)][opened[k]], start[k])
        /\ opened[1] = Root /\ start[1] = 0
    BY <1>0 DEF PlacesAt
  <2>2. \A k \in 1..(d - 1) :
          /\ Opens(opened[k], at[k], opened[k + 1])
          /\ start[k + 1] = start[k] + Offsets(S, Level(k), opened[k])[at[k] - 1]
    BY <1>0 DEF PlacesAt
  <2>3. \A k \in 1..(d - 1) :
          /\ Opens(opened[k], au[k], opened[k + 1])
          /\ start[k + 1] = start[k] + Offsets(S, Level(k), opened[k])[au[k] - 1]
    BY <1>2, <2>2
  <2> QED BY <1>2, <1>3, <1>4, <2>1, <2>3 DEF PlacesAt
<1> QED BY <1>5 DEF Places, au

\* The last file opens another.
LEMMA PlacePushed ==
  ASSUME IsProject(project), NEW S, Texts(S),
         NEW st \in Seq(Seq(AllLines)), NEW vis \in SUBSET File, NEW opened, NEW at, NEW start,
         Places(S, st, vis, opened, at, start),
         NEW d \in Nat \ {0}, Len(st) = d, d < Levels,
         NEW child \in File \ vis, Opens(opened[d], at[d], child),
         NEW b, b = start[d] + Offsets(S, Level(d), opened[d])[at[d] - 1],
         NEW v, LastSet(v, b)
  PROVE  Follows(S, Append(st, Lines(child)), vis \cup {child}, v)
<1> DEFINE su == Append(st, Lines(child))
           o2 == [k \in 1..(d + 1) |-> IF k = d + 1 THEN child ELSE opened[k]]
           a2 == [k \in 1..(d + 1) |-> IF k = d + 1 THEN 0 ELSE at[k]]
           s2 == [k \in 1..(d + 1) |-> IF k = d + 1 THEN b ELSE start[k]]
<1>0. PlacesAt(d, S, st, vis, opened, at, start)
  BY DEF Places
<1>1. /\ opened \in [1..d -> vis] /\ at \in [1..d -> Nat] /\ start \in [1..d -> Nat]
      /\ \A j, k \in 1..d : opened[j] = opened[k] => j = k
      /\ \A k \in 1..d : LeftOf(st[k], opened[k], at[k])
      /\ \A k \in 1..d : Lies(S[Level(k)][opened[k]], start[k])
      /\ opened[1] = Root /\ start[1] = 0
  BY <1>0 DEF PlacesAt
<1>2. \A k \in 1..(d - 1) :
        /\ Opens(opened[k], at[k], opened[k + 1])
        /\ start[k + 1] = start[k] + Offsets(S, Level(k), opened[k])[at[k] - 1]
  BY <1>0 DEF PlacesAt
<1>3. Lines(child) \in Seq(AllLines)
  BY LinesTyped
<1>4. /\ Len(su) = d + 1 /\ su[d + 1] = Lines(child)
      /\ \A k \in 1..d : su[k] = st[k]
  BY <1>3, AppendProperties
<1>5. d \in 1..d /\ Levels \in Nat /\ Level(d) \in 1..Levels /\ Level(d + 1) = Level(d) - 1
  BY LevelsCounted DEF Level
<1>6. opened[d] \in vis /\ opened[d] \in File /\ start[d] \in Nat
  BY <1>1, <1>5
<1>7. /\ b \in Nat /\ Lies(S[Level(d + 1)][child], b)
  <2>1. at[d] \in 1..Len(Lines(opened[d])) /\ Lines(opened[d])[at[d]].op = "include"
        /\ Lines(opened[d])[at[d]].file = child
    BY DEF Opens
  <2>2. Part(S, Level(d), Lines(opened[d])[at[d]]) = S[Level(d + 1)][child]
    BY <1>5, <2>1 DEF Part
  <2>3. Lies(S[Level(d)][opened[d]], start[d])
    BY <1>1, <1>5
  <2>4. /\ Offsets(S, Level(d), opened[d])[at[d] - 1] \in Nat
        /\ Lies(Part(S, Level(d), Lines(opened[d])[at[d]]),
                start[d] + Offsets(S, Level(d), opened[d])[at[d] - 1])
    BY <1>5, <1>6, <2>1, <2>3, PartLies
  <2> QED BY <1>6, <2>2, <2>4
<1>8. Offsets(S, Level(d + 1), child)[0] = 0
  <2>1. Level(d + 1) \in 1..Levels
    BY LevelsCounted DEF Level
  <2> QED BY <2>1 DEF Texts, Placed
<1>9. d + 1 \in 1..(d + 1) /\ \A k \in 1..(d + 1) : k = d + 1 \/ k \in 1..d
  OBVIOUS
<1>10. /\ o2 \in [1..(d + 1) -> vis \cup {child}] /\ a2 \in [1..(d + 1) -> Nat]
       /\ s2 \in [1..(d + 1) -> Nat]
       /\ o2[d + 1] = child /\ a2[d + 1] = 0 /\ s2[d + 1] = b
  BY <1>1, <1>7, <1>9
<1>11. \A k \in 1..d : o2[k] = opened[k] /\ a2[k] = at[k] /\ s2[k] = start[k] /\ k # d + 1
  OBVIOUS
<1> HIDE DEF o2, a2, s2, su
<1>12. \A j, k \in 1..(d + 1) : o2[j] = o2[k] => j = k
  <2> SUFFICES ASSUME NEW j \in 1..(d + 1), NEW k \in 1..(d + 1), o2[j] = o2[k]
               PROVE  j = k
    OBVIOUS
  <2>1. \A i \in 1..d : o2[i] = opened[i] /\ o2[i] # child
    BY <1>1, <1>11
  <2>2. CASE j = d + 1 \/ k = d + 1
    BY <1>9, <1>10, <2>1, <2>2
  <2>3. CASE j \in 1..d /\ k \in 1..d
    BY <1>1, <2>1, <2>3
  <2> QED BY <1>9, <2>2, <2>3
<1>13. \A k \in 1..(d + 1) : LeftOf(su[k], o2[k], a2[k])
  <2>1. LeftOf(Lines(child), child, 0)
    <3>1. Len(Lines(child)) \in Nat
      BY <1>3
    <3> QED BY <3>1 DEF LeftOf
  <2>2. LeftOf(su[d + 1], o2[d + 1], a2[d + 1])
    BY <1>4, <1>10, <2>1
  <2>3. \A k \in 1..d : LeftOf(su[k], o2[k], a2[k])
    BY <1>1, <1>4, <1>11
  <2> QED BY <1>9, <2>2, <2>3
<1>14. \A k \in 1..(d + 1) : Lies(S[Level(k)][o2[k]], s2[k])
  BY <1>1, <1>7, <1>9, <1>10, <1>11
<1>15. \A k \in 1..d :
         /\ Opens(o2[k], a2[k], o2[k + 1])
         /\ s2[k + 1] = s2[k] + Offsets(S, Level(k), o2[k])[a2[k] - 1]
  <2> TAKE k \in 1..d
  <2>1. CASE k = d
    BY <1>10, <1>11, <2>1
  <2>2. CASE k # d
    <3>1. k \in 1..(d - 1) /\ k + 1 \in 1..d
      BY <2>2
    <3> QED BY <1>2, <1>11, <3>1
  <2> QED BY <2>1, <2>2
<1>16. ASSUME NEW f \in (vis \cup {child}) \ {Root}
       PROVE  \E g \in vis \cup {child}, i \in Nat :
                Opens(g, i, f) /\ \A k \in 1..(d + 1) : o2[k] = g => i <= a2[k]
  <2>1. CASE f = child
    <3>1. at[d] \in Nat /\ opened[d] # child
      BY <1>1, <1>5
    <3>2. \A k \in 1..(d + 1) : o2[k] = opened[d] => k = d
      BY <1>1, <1>5, <1>9, <1>10, <1>11, <3>1
    <3>3. a2[d] = at[d] /\ at[d] <= at[d]
      BY <1>5, <1>11, <3>1
    <3> QED BY <1>6, <2>1, <3>1, <3>2, <3>3
  <2>2. CASE f \in vis \ {Root}
    <3>1. PICK g \in vis, i \in Nat :
            Opens(g, i, f) /\ \A k \in 1..d : opened[k] = g => i <= at[k]
      BY <1>0, <2>2 DEF PlacesAt
    <3>2. \A k \in 1..(d + 1) : o2[k] = g => i <= a2[k]
      BY <1>9, <1>10, <1>11, <3>1
    <3> QED BY <3>1, <3>2
  <2> QED BY <1>16, <2>1, <2>2
<1>17. o2[1] = Root /\ s2[1] = 0 /\ (d + 1) - 1 = d
  <2>1. 1 \in 1..d
    OBVIOUS
  <2>2. o2[1] = opened[1] /\ s2[1] = start[1]
    BY <1>11, <2>1
  <2> QED BY <1>1, <2>2
<1>18. Places(S, su, vis \cup {child}, o2, a2, s2)
  <2>1. PlacesAt(d + 1, S, su, vis \cup {child}, o2, a2, s2)
    BY <1>10, <1>12, <1>13, <1>14, <1>15, <1>16, <1>17 DEF PlacesAt
  <2> QED BY <1>4, <2>1 DEF Places
<1>19. ReadTo(S, su, o2, a2, s2) = b
  BY <1>4, <1>7, <1>8, <1>10 DEF ReadTo
<1> QED BY <1>18, <1>19 DEF Follows, su

\* The last file has been read.
LEMMA PlacePopped ==
  ASSUME IsProject(project), NEW S, Texts(S),
         NEW st, NEW vis \in SUBSET File, NEW opened, NEW at, NEW start,
         Places(S, st, vis, opened, at, start),
         NEW d \in Nat \ {0}, Len(st) = d, d <= Levels, st[d] = << >>,
         NEW su, Len(su) = d - 1, \A k \in 1..(d - 1) : su[k] = st[k]
  PROVE  \E o2, a2, s2 :
           /\ Places(S, su, vis, o2, a2, s2)
           /\ ReadTo(S, su, o2, a2, s2) = ReadTo(S, st, opened, at, start)
<1> DEFINE e == d - 1
           o2 == [k \in 1..e |-> opened[k]]
           a2 == [k \in 1..e |-> at[k]]
           s2 == [k \in 1..e |-> start[k]]
<1>0. PlacesAt(d, S, st, vis, opened, at, start)
  BY DEF Places
<1>1. /\ opened \in [1..d -> vis] /\ at \in [1..d -> Nat] /\ start \in [1..d -> Nat]
      /\ \A j, k \in 1..d : opened[j] = opened[k] => j = k
      /\ \A k \in 1..d : LeftOf(st[k], opened[k], at[k])
      /\ \A k \in 1..d : Lies(S[Level(k)][opened[k]], start[k])
      /\ opened[1] = Root /\ start[1] = 0
  BY <1>0 DEF PlacesAt
<1>2. \A k \in 1..e :
        /\ Opens(opened[k], at[k], opened[k + 1])
        /\ start[k + 1] = start[k] + Offsets(S, Level(k), opened[k])[at[k] - 1]
  BY <1>0 DEF PlacesAt
<1>3. e \in Nat /\ d = e + 1 /\ \A k \in 1..e : k \in 1..d
  OBVIOUS
<1>4. /\ o2 \in [1..e -> vis] /\ a2 \in [1..e -> Nat] /\ s2 \in [1..e -> Nat]
      /\ \A k \in 1..e : o2[k] = opened[k] /\ a2[k] = at[k] /\ s2[k] = start[k]
  BY <1>1, <1>3
<1> HIDE DEF o2, a2, s2, e
<1>5. Places(S, su, vis, o2, a2, s2)
  <2>1. Len(su) = e /\ \A k \in 1..e : su[k] = st[k]
    BY DEF e
  <2>2. \A j, k \in 1..e : o2[j] = o2[k] => j = k
    BY <1>1, <1>3, <1>4
  <2>3. \A k \in 1..e : LeftOf(su[k], o2[k], a2[k]) /\ Lies(S[Level(k)][o2[k]], s2[k])
    BY <1>1, <1>3, <1>4, <2>1
  <2>4. e > 0 => o2[1] = Root /\ s2[1] = 0
    BY <1>1, <1>3, <1>4
  <2>5. \A k \in 1..(e - 1) :
          /\ Opens(o2[k], a2[k], o2[k + 1])
          /\ s2[k + 1] = s2[k] + Offsets(S, Level(k), o2[k])[a2[k] - 1]
    <3> TAKE k \in 1..(e - 1)
    <3>1. k \in 1..e /\ k + 1 \in 1..e
      BY <1>3
    <3> QED BY <1>2, <1>4, <3>1
  <2>6. ASSUME NEW f \in vis \ {Root}
        PROVE  \E g \in vis, i \in Nat :
                 Opens(g, i, f) /\ \A k \in 1..e : o2[k] = g => i <= a2[k]
    <3>1. PICK g \in vis, i \in Nat :
            Opens(g, i, f) /\ \A k \in 1..d : opened[k] = g => i <= at[k]
      BY <1>0, <2>6 DEF PlacesAt
    <3>2. \A k \in 1..e : o2[k] = g => i <= a2[k]
      BY <1>3, <1>4, <3>1
    <3> QED BY <3>1, <3>2
  <2>7. PlacesAt(e, S, su, vis, o2, a2, s2)
    BY <1>4, <2>2, <2>3, <2>4, <2>5, <2>6 DEF PlacesAt
  <2> QED BY <2>1, <2>7 DEF Places
<1> DEFINE f == opened[d]
           n == Level(d)
<1>6. f \in File /\ n \in 1..Levels /\ Levels \in Nat /\ start[d] \in Nat
  BY <1>1, LevelsCounted DEF Level
<1>7. ReadTo(S, st, opened, at, start) = start[d] + Len(S[n][f])
  <2>1. at[d] = Len(Lines(f))
    <3>1. LeftOf(st[d], f, at[d]) /\ Len(st[d]) = 0
      BY <1>1
    <3>2. Len(Lines(f)) \in Nat
      BY LinesTyped
    <3> QED BY <3>1, <3>2 DEF LeftOf
  <2>2. Offsets(S, n, f)[Len(Lines(f))] = Len(S[n][f])
    <3>1. S[n - 1] \in [File -> Seq(Plain)]
      BY <1>6 DEF Texts
    <3>2. Placed(Offsets(S, n, f), Parts(S, n, f), S[n][f])
      BY <1>6 DEF Texts
    <3> QED BY <3>1, <3>2, PartsTyped DEF Placed
  <2> QED BY <2>1, <2>2 DEF ReadTo
<1>8. ReadTo(S, su, o2, a2, s2) = start[d] + Len(S[n][f])
  <2>1. CASE e = 0
    <3>1. d = 1 /\ f = Root /\ start[d] = 0 /\ n = Levels /\ Len(su) = 0
      BY <1>1, <1>3, <1>6, <2>1 DEF Level
    <3>2. S[n][f] = Spliced /\ Spliced \in Seq(Plain)
      BY <3>1, LevelsCounted DEF Texts
    <3> QED BY <3>1, <3>2 DEF ReadTo
  <2>2. CASE e # 0
    <3>1. e \in 1..e /\ e \in 1..d /\ e + 1 = d /\ Len(su) = e
      BY <1>3, <2>2
    <3>2. Opens(opened[e], at[e], f)
          /\ start[d] = start[e] + Offsets(S, Level(e), opened[e])[at[e] - 1]
      BY <1>2, <3>1
    <3>3. opened[e] \in File /\ Level(e) \in 1..Levels /\ start[e] \in Nat /\ Level(e) - 1 = n
      BY <1>1, <1>3, <1>6, <3>1 DEF Level
    <3>4. /\ at[e] \in 1..Len(Lines(opened[e]))
          /\ Part(S, Level(e), Lines(opened[e])[at[e]]) = S[n][f]
      BY <3>2, <3>3 DEF Opens, Part
    <3>5. Lies(S[Level(e)][opened[e]], start[e])
      BY <1>1, <3>1
    <3> DEFINE o == Offsets(S, Level(e), opened[e])
    <3>6. o[at[e]] = o[at[e] - 1] + Len(S[n][f]) /\ o[at[e] - 1] \in Nat /\ Len(S[n][f]) \in Nat
      <4> DEFINE t == Part(S, Level(e), Lines(opened[e])[at[e]])
      <4>1. o[at[e] - 1] \in Nat /\ o[at[e]] = o[at[e] - 1] + Len(t) /\ Len(t) \in Nat
        <5>1. PICK k \in 1..Levels, g \in File, b \in Nat, i \in Nat :
                k = Level(e) /\ g = opened[e] /\ b = start[e] /\ i = at[e]
                /\ i \in 1..Len(Lines(g)) /\ Lies(S[k][g], b)
          BY <3>3, <3>4, <3>5
        <5>2. LET x == Offsets(S, k, g)
                  y == Part(S, k, Lines(g)[i]) IN
              x[i - 1] \in Nat /\ x[i] = x[i - 1] + Len(y) /\ Len(y) \in Nat
          BY <5>1, PartLies
        <5> QED BY <5>1, <5>2
      <4> QED BY <3>4, <4>1
    <3>7. ReadTo(S, su, o2, a2, s2) = start[e] + o[at[e]]
      BY <1>4, <2>2, <3>1 DEF ReadTo
    <3> HIDE DEF o
    <3>8. start[d] = start[e] + o[at[e] - 1]
      BY <3>2 DEF o
    <3> QED BY <3>3, <3>6, <3>7, <3>8
  <2> QED BY <2>1, <2>2
<1> QED BY <1>5, <1>7, <1>8

LEMMA FrontElements ==
  ASSUME NEW S, NEW s \in Seq(S), s # << >>
  PROVE  \A k \in 1..(Len(s) - 1) : Front(s)[k] = s[k]
<1>1. Len(s) \in Nat \ {0}
  OBVIOUS
<1>2. PICK n \in Nat : n = Len(s) - 1
  BY ONLY <1>1
<1>3. \A i \in 1..n : s[i] \in S
  BY <1>1, <1>2
<1>4. \A i \in 1..(n - 1 + 1) : SubSeq(s, 1, n)[i] = s[1 + i - 1]
  BY <1>2, <1>3, SubSeqProperties
<1>5. n - 1 + 1 = n /\ \A i \in 1..n : 1 + i - 1 = i
  BY <1>2
<1> QED BY <1>2, <1>4, <1>5 DEF Front

LEMMA RestElements ==
  ASSUME NEW L, NEW s \in Seq(Seq(L)), s # << >>, s[Len(s)] # << >>
  PROVE  LET r == Front(s) \o <<Tail(s[Len(s)])>> IN
         /\ Len(r) = Len(s) /\ Len(s) \in Nat \ {0}
         /\ \A k \in 1..(Len(s) - 1) : r[k] = s[k]
         /\ r[Len(s)] = Tail(s[Len(s)])
         /\ Len(Tail(s[Len(s)])) = Len(s[Len(s)]) - 1
         /\ \A j \in 1..Len(Tail(s[Len(s)])) : Tail(s[Len(s)])[j] = s[Len(s)][j + 1]
         /\ Head(s[Len(s)]) = s[Len(s)][1] /\ Len(s[Len(s)]) \in Nat \ {0}
<1> DEFINE n == Len(s)
           t == s[n]
           f == Front(s)
<1>1. n \in Nat \ {0} /\ t \in Seq(L) /\ t # << >>
  OBVIOUS
<1>2. f \in Seq(Seq(L)) /\ Len(f) = n - 1 /\ \A k \in 1..(n - 1) : f[k] = s[k]
  BY FrontTyped, FrontElements
<1> HIDE DEF f, t, n
<1>3. /\ Tail(t) \in Seq(L) /\ Len(Tail(t)) = Len(t) - 1 /\ Head(t) = t[1]
      /\ \A j \in 1..Len(Tail(t)) : Tail(t)[j] = t[j + 1]
      /\ Len(t) \in Nat \ {0}
  BY <1>1, HeadTailProperties
<1> DEFINE u == Tail(t)
           r == f \o <<u>>
<1>4. <<u>> \in Seq(Seq(L)) /\ Len(<<u>>) = 1 /\ <<u>>[1] = u
  BY <1>3
<1> HIDE DEF u
<1>5. /\ Len(r) = (n - 1) + 1
      /\ \A k \in 1..((n - 1) + 1) : r[k] = IF k <= n - 1 THEN f[k] ELSE <<u>>[k - (n - 1)]
  BY <1>2, <1>4, ConcatProperties
<1>6. Len(r) = n /\ r[n] = u /\ \A k \in 1..(n - 1) : r[k] = s[k]
  <2>1. /\ (n - 1) + 1 = n /\ n \in 1..n /\ ~(n <= n - 1) /\ n - (n - 1) = 1
        /\ \A k \in 1..(n - 1) : k \in 1..n /\ k <= n - 1
    BY <1>1
  <2> QED BY <1>2, <1>4, <1>5, <2>1
<1> QED BY <1>1, <1>3, <1>6 DEF u, f, t, n

\* The next line lies behind the c that have been read: t comes of it and at becomes au.
NextLine(S, opened, at, start, c, t, au) ==
  LET d == Len(stack) IN
  /\ c = ReadTo(S, stack, opened, at, start) /\ t = Part(S, Level(d), line)
  /\ d \in 1..Levels /\ opened[d] \in visited /\ Level(d) \in 1..Levels
  /\ au[d] = at[d] + 1 /\ au[d] - 1 = at[d] /\ at[d] \in Nat
  /\ au[d] \in 1..Len(Lines(opened[d])) /\ line = Lines(opened[d])[au[d]]
  /\ Places(S, Rest, visited, opened, au, start)
  /\ c \in Nat /\ Lies(t, c) /\ Len(t) \in Nat
  /\ c = start[d] + Offsets(S, Level(d), opened[d])[au[d] - 1]
  /\ ReadTo(S, Rest, opened, au, start) = c + Len(t)

LEMMA TopPlaced ==
  ASSUME TypeInv, InFile, top # << >>, NEW S, Texts(S), NEW opened, NEW at, NEW start,
         Places(S, stack, visited, opened, at, start)
  PROVE  \E c, t, au : NextLine(S, opened, at, start, c, t, au)
<1> DEFINE d == Len(stack)
           c == ReadTo(S, stack, opened, at, start)
           t == Part(S, Level(d), line)
           f == opened[d]
           a == at[d]
           au == [at EXCEPT ![d] = @ + 1]
<1>1. /\ IsProject(project) /\ stack \in Seq(Seq(AllLines)) /\ stack # << >>
      /\ visited \subseteq File /\ Len(stack) <= Cardinality(visited)
  BY ProjectTyped DEF TypeInv, BinInv, ReadTyped, InFile
<1>2. d \in 1..Levels /\ Level(d) \in 1..Levels
  <2>1. Cardinality(visited) <= Levels /\ Cardinality(visited) \in Nat /\ Levels \in Nat
    BY <1>1, ValidationAssumption, FS_Subset, FS_CardinalityType DEF Levels
  <2>2. d \in Nat \ {0}
    BY <1>1
  <2>3. d \in 1..Levels
    BY <1>1, <2>1, <2>2
  <2> QED BY <2>1, <2>3 DEF Level
<1>3. /\ Len(Rest) = d /\ \A k \in 1..(d - 1) : Rest[k] = stack[k]
      /\ Rest[d] = Tail(top) /\ Len(Tail(top)) = Len(top) - 1
      /\ \A j \in 1..Len(Tail(top)) : Tail(top)[j] = top[j + 1]
      /\ line = top[1] /\ Len(top) \in Nat \ {0}
  BY <1>1, RestElements DEF Rest, top, line
<1>4. /\ opened \in [1..d -> visited] /\ at \in [1..d -> Nat] /\ start \in [1..d -> Nat]
      /\ LeftOf(top, f, a) /\ Lies(S[Level(d)][f], start[d])
  BY <1>2 DEF Places, PlacesAt, top
<1>5. f \in visited /\ f \in File /\ a \in Nat /\ start[d] \in Nat
  <2>1. d \in 1..d
    BY <1>2, LevelsCounted
  <2>2. opened[d] \in visited /\ at[d] \in Nat /\ start[d] \in Nat
    BY <1>4, <2>1
  <2> QED BY <1>1, <2>2
<1>6. au[d] = a + 1
  BY <1>2, <1>4
<1>7. Len(Lines(f)) \in Nat
  BY <1>1, LinesTyped
<1> HIDE DEF d, f, a, au
<1>8. /\ a + 1 \in 1..Len(Lines(f)) /\ (a + 1) - 1 = a /\ line = Lines(f)[a + 1]
      /\ LeftOf(Tail(top), f, a + 1)
  <2>1. /\ Len(top) = Len(Lines(f)) - a /\ \A j \in 1..Len(top) : top[j] = Lines(f)[a + j]
    BY <1>4 DEF LeftOf
  <2>2. a + 1 \in 1..Len(Lines(f)) /\ (a + 1) - 1 = a /\ Len(Tail(top)) = Len(Lines(f)) - (a + 1)
    BY <1>3, <1>5, <1>7, <2>1
  <2>3. line = Lines(f)[a + 1]
    BY <1>3, <2>1
  <2>4. \A j \in 1..Len(Tail(top)) : Tail(top)[j] = Lines(f)[(a + 1) + j]
    <3> TAKE j \in 1..Len(Tail(top))
    <3>1. j + 1 \in 1..Len(top) /\ a + (j + 1) = (a + 1) + j
      BY <1>3, <1>5
    <3> QED BY <1>3, <2>1, <3>1
  <2> QED BY <2>2, <2>3, <2>4 DEF LeftOf
<1>9. Places(S, Rest, visited, opened, au, start)
  <2>1. d \in Nat \ {0} /\ Len(stack) = d /\ LeftOf(Rest[d], opened[d], at[d] + 1)
    BY <1>2, <1>3, <1>8, LevelsCounted DEF d, f, a
  <2> QED BY <1>1, <1>3, <2>1, PlaceAdvanced DEF au
<1> DEFINE o == Offsets(S, Level(d), f)
<1>10. /\ o[(a + 1) - 1] \in Nat /\ o[a + 1] = o[(a + 1) - 1] + Len(t) /\ Len(t) \in Nat
       /\ Lies(t, start[d] + o[(a + 1) - 1])
  <2>1. PICK k \in 1..Levels, b \in Nat, i \in 1..Len(Lines(f)) :
          k = Level(d) /\ b = start[d] /\ i = a + 1 /\ Lies(S[k][f], b)
    BY <1>2, <1>4, <1>5, <1>8
  <2>2. LET x == Offsets(S, k, f)
            y == Part(S, k, Lines(f)[i]) IN
        x[i - 1] \in Nat /\ x[i] = x[i - 1] + Len(y) /\ Len(y) \in Nat /\ Lies(y, b + x[i - 1])
    BY <1>1, <1>5, <2>1, PartLies
  <2> QED BY <1>8, <2>1, <2>2
<1>11. c = start[d] + o[a]
  BY <1>2, LevelsCounted DEF ReadTo, d, f, a
<1>12. ReadTo(S, Rest, opened, au, start) = start[d] + o[a + 1]
  BY <1>2, <1>3, <1>6, LevelsCounted DEF ReadTo, f
<1> HIDE DEF o, c, t
<1>13. c \in Nat /\ Lies(t, c) /\ ReadTo(S, Rest, opened, au, start) = c + Len(t)
  BY <1>5, <1>8, <1>10, <1>11, <1>12
<1>14. c = start[d] + o[au[d] - 1]
  BY <1>6, <1>8, <1>11
<1>15. NextLine(S, opened, at, start, c, t, au)
  BY <1>2, <1>5, <1>6, <1>8, <1>9, <1>10, <1>13, <1>14 DEF NextLine, f, a, o, d, c, t
<1> QED BY <1>15

\* The lines that include f.
LinesWith(g, f) == {j \in DOMAIN Lines(g) : Lines(g)[j].op = "include" /\ Lines(g)[j].file = f}
IncludesIn(vis, f) == UNION {{<<g, i>> : i \in LinesWith(g, f)} : g \in vis}

LEMMA IncludesFinite ==
  ASSUME IsProject(project), NEW vis \in SUBSET File, NEW f
  PROVE  IsFiniteSet(IncludesIn(vis, f))
<1>1. ASSUME NEW g
      PROVE  IsFiniteSet({<<g, i>> : i \in LinesWith(g, f)})
  <2> DEFINE h == [i \in LinesWith(g, f) |-> <<g, i>>]
             T == {<<g, i>> : i \in LinesWith(g, f)}
  <2>1. Lines(g) \in Seq(AllLines)
    BY LinesTyped
  <2>2. IsFiniteSet(LinesWith(g, f))
    <3>1. LinesWith(g, f) \subseteq 1..Len(Lines(g)) /\ Len(Lines(g)) \in Nat
      BY <2>1 DEF LinesWith
    <3>2. IsFiniteSet(1..Len(Lines(g)))
      BY <3>1, FS_Interval
    <3> QED BY <3>1, <3>2, FS_Subset
  <2>3. h \in Surjection(LinesWith(g, f), T)
    BY DEF Surjection
  <2> HIDE DEF h, T
  <2>4. IsFiniteSet(T)
    BY <2>2, <2>3, FS_Surjection
  <2> QED BY <2>4 DEF T
<1> DEFINE Of(g) == {<<g, i>> : i \in LinesWith(g, f)}
           h == [g \in vis |-> Of(g)]
           T == {Of(g) : g \in vis}
<1>2. IsFiniteSet(T)
  <2>1. h \in Surjection(vis, T)
    BY DEF Surjection
  <2>2. IsFiniteSet(vis)
    BY ValidationAssumption, FS_Subset
  <2> HIDE DEF h, T
  <2> QED BY <2>1, <2>2, FS_Surjection
<1>3. IsFiniteSet(UNION T)
  <2>1. \A U \in T : IsFiniteSet(U)
    BY <1>1
  <2> HIDE DEF T
  <2> QED BY <1>2, <2>1, FS_UNION
<1> QED BY <1>3 DEF IncludesIn

LEMMA TwoInside ==
  ASSUME NEW S, IsFiniteSet(S), NEW x \in S, NEW y \in S, x # y
  PROVE  Cardinality(S) > 1
<1>1. IsFiniteSet({x}) /\ Cardinality({x}) = 1
  BY FS_Singleton
<1>2. Cardinality({x} \cup {y}) = 2
  BY <1>1, FS_AddElement
<1>3. {x} \cup {y} \in SUBSET S
  OBVIOUS
<1>4. 2 <= Cardinality(S) /\ Cardinality(S) \in Nat
  BY <1>2, <1>3, FS_Subset, FS_CardinalityType
<1> QED BY <1>4

\* A file that is included where it has been visited is included twice.
LEMMA AgainIncluded ==
  ASSUME IsProject(project), visited \subseteq File,
         NEW g \in visited, NEW i, NEW f \in File, Opens(g, i, f),
         \/ f = Root
         \/ \E h \in visited : \E j : Opens(h, j, f) /\ <<g, i>> # <<h, j>>
  PROVE  IncludedTwice
<1>1. \A h \in visited : \A j : Opens(h, j, f) => <<h, j>> \in Includes(f)
  <2> TAKE h \in visited
  <2> TAKE j
  <2>1. Lines(h) \in Seq(AllLines)
    BY LinesTyped
  <2> QED BY <2>1 DEF Includes, Opens
<1>2. IsFiniteSet(Includes(f))
  <2>1. IsFiniteSet(IncludesIn(visited, f))
    BY IncludesFinite
  <2>2. Includes(f) = IncludesIn(visited, f)
    BY DEF IncludesIn, LinesWith, Includes
  <2> QED BY <2>1, <2>2
<1>3. CASE f = Root
  BY <1>1, <1>3 DEF IncludedTwice
<1>4. CASE \E h \in visited : \E j : Opens(h, j, f) /\ <<g, i>> # <<h, j>>
  <2>1. PICK h \in visited : \E j : Opens(h, j, f) /\ <<g, i>> # <<h, j>>
    BY <1>4
  <2>2. PICK j : Opens(h, j, f) /\ <<g, i>> # <<h, j>>
    BY <2>1
  <2>3. <<g, i>> \in Includes(f) /\ <<h, j>> \in Includes(f)
    BY <1>1, <2>2
  <2>4. Cardinality(Includes(f)) > 1
    BY <1>2, <2>2, <2>3, TwoInside
  <2> QED BY <2>4 DEF IncludedTwice
<1> QED BY <1>3, <1>4

LEMMA StillIncludedTwice ==
  ASSUME IsProject(project), IncludedTwice, project' = project,
         visited \subseteq visited', visited' \subseteq File
  PROVE  IncludedTwice'
<1>1. \A f : Includes(f) = IncludesIn(visited, f) /\ Includes(f)' = IncludesIn(visited', f)
  BY DEF Includes, IncludesIn, LinesWith, Lines
<1>2. \A f : IncludesIn(visited, f) \subseteq IncludesIn(visited', f)
  BY DEF IncludesIn
<1>3. ASSUME NEW f, Cardinality(IncludesIn(visited, f)) > 1
      PROVE  Cardinality(IncludesIn(visited', f)) > 1
  <2>1. IsFiniteSet(IncludesIn(visited', f)) /\ IsFiniteSet(IncludesIn(visited, f))
    BY IncludesFinite
  <2>2. /\ Cardinality(IncludesIn(visited, f)) \in Nat /\ Cardinality(IncludesIn(visited', f)) \in Nat
        /\ Cardinality(IncludesIn(visited, f)) <= Cardinality(IncludesIn(visited', f))
    BY <1>2, <2>1, FS_Subset, FS_CardinalityType
  <2> QED BY <1>3, <2>2
<1>4. Root' = Root /\ File' = File
  OBVIOUS
<1>5. CASE Includes(Root) # {}
  <2>1. IncludesIn(visited', Root) # {}
    BY <1>1, <1>2, <1>5
  <2> QED BY <1>1, <2>1 DEF IncludedTwice
<1>6. CASE \E f \in File : Cardinality(Includes(f)) > 1
  <2>1. PICK f \in File : Cardinality(IncludesIn(visited, f)) > 1
    BY <1>1, <1>6
  <2>2. Cardinality(Includes(f)') > 1
    BY <1>1, <1>3, <2>1
  <2> QED BY <2>2 DEF IncludedTwice
<1> QED BY <1>5, <1>6 DEF IncludedTwice

LEMMA LineRead ==
  ASSUME Len(Spliced) \in Nat, NEW v, NEW c, LastSet(v, c), NEW l, Lies(<<l>>, c),
         NEW w, w = IF l.op = "set" THEN Updated(v, l.sym, l.value) ELSE v
  PROVE  LastSet(w, c + 1)
<1>1. /\ c \in Nat /\ c + 1 \in 0..Len(Spliced) /\ Spliced[c + 1] = l
      /\ \A i \in 1..(c + 1) : i = c + 1 \/ i \in 1..c
      /\ \A i \in 1..c : i \in 1..(c + 1)
      /\ c + 1 \in 1..(c + 1)
  BY DEF Lies, LastSet
<1>2. CASE l.op = "set"
  <2>1. /\ DOMAIN w = DOMAIN v \cup {l.sym} /\ w[l.sym] = l.value
        /\ \A s \in DOMAIN v : s # l.sym => w[s] = v[s]
    BY <1>2 DEF Updated
  <2>2. \A i \in 1..(c + 1) : Spliced[i].op = "set" => Spliced[i].sym \in DOMAIN w
    BY <1>1, <2>1 DEF LastSet
  <2>3. ASSUME NEW s \in DOMAIN w
        PROVE  \E i \in 1..(c + 1) :
                 /\ Sets(i, s) /\ w[s] = Spliced[i].value
                 /\ \A j \in (i + 1)..(c + 1) : ~Sets(j, s)
    <3>1. CASE s = l.sym
      <4>1. Sets(c + 1, s) /\ w[s] = Spliced[c + 1].value
        BY <1>1, <1>2, <2>1, <3>1 DEF Sets
      <4>2. \A j \in ((c + 1) + 1)..(c + 1) : FALSE
        BY <1>1
      <4> QED BY <1>1, <4>1, <4>2
    <3>2. CASE s # l.sym
      <4>1. s \in DOMAIN v /\ w[s] = v[s]
        BY <2>1, <2>3, <3>2
      <4>2. PICK i \in 1..c : /\ Sets(i, s) /\ v[s] = Spliced[i].value
                              /\ \A j \in (i + 1)..c : ~Sets(j, s)
        BY <4>1 DEF LastSet
      <4>3. ~Sets(c + 1, s)
        BY <1>1, <3>2 DEF Sets
      <4>4. \A j \in (i + 1)..(c + 1) : j = c + 1 \/ j \in (i + 1)..c
        BY <1>1
      <4>5. \A j \in (i + 1)..(c + 1) : ~Sets(j, s)
        BY <4>2, <4>3, <4>4
      <4> QED BY <1>1, <4>1, <4>2, <4>5
    <3> QED BY <3>1, <3>2
  <2> QED BY <1>1, <2>2, <2>3 DEF LastSet
<1>3. CASE l.op # "set"
  <2>1. w = v
    BY <1>3
  <2>2. \A i \in 1..(c + 1) : Spliced[i].op = "set" => Spliced[i].sym \in DOMAIN v
    BY <1>1, <1>3 DEF LastSet
  <2>3. ASSUME NEW s \in DOMAIN v
        PROVE  \E i \in 1..(c + 1) :
                 /\ Sets(i, s) /\ v[s] = Spliced[i].value
                 /\ \A j \in (i + 1)..(c + 1) : ~Sets(j, s)
    <3>1. PICK i \in 1..c : /\ Sets(i, s) /\ v[s] = Spliced[i].value
                            /\ \A j \in (i + 1)..c : ~Sets(j, s)
      BY <2>3 DEF LastSet
    <3>2. ~Sets(c + 1, s)
      BY <1>1, <1>3 DEF Sets
    <3>3. \A j \in (i + 1)..(c + 1) : j = c + 1 \/ j \in (i + 1)..c
      BY <1>1
    <3>4. \A j \in (i + 1)..(c + 1) : ~Sets(j, s)
      BY <3>1, <3>2, <3>3
    <3> QED BY <1>1, <3>1, <3>4
  <2> QED BY <1>1, <2>1, <2>2, <2>3 DEF LastSet
<1> QED BY <1>2, <1>3

LEMMA SplicedLength == ASSUME NEW S, Texts(S) PROVE Spliced \in Seq(Plain) /\ Len(Spliced) \in Nat
<1>1. Spliced \in Seq(Plain)
  BY LevelsCounted DEF Texts
<1> QED BY <1>1

LEMMA ReadFollows ==
  ASSUME TypeInv, ReadKconfig, visited' \subseteq File, NEW S, Texts(S),
         Follows(S, stack, visited, values)
  PROVE  IncludedTwice' \/ Follows(S, stack', visited', values')
<1> DEFINE d == Len(stack)
<1>1. /\ IsProject(project) /\ project' = project /\ InFile
      /\ stack \in Seq(Seq(AllLines)) /\ visited \subseteq File
      /\ d <= Cardinality(visited)
  BY ProjectTyped DEF TypeInv, BinInv, ReadTyped, ReadKconfig, ReadAssignment, ReadComment,
       ReadInclude, EndFile
<1>2. PICK opened, at, start : /\ Places(S, stack, visited, opened, at, start)
                               /\ LastSet(values, ReadTo(S, stack, opened, at, start))
  BY DEF Follows
<1>3. ASSUME top # << >>
      PROVE  \E c, t, au : NextLine(S, opened, at, start, c, t, au)
  BY <1>1, <1>2, <1>3, TopPlaced
<1>4. Len(Spliced) \in Nat
  BY SplicedLength
<1>5. CASE ReadAssignment \/ ReadComment
  <2>1. /\ top # << >> /\ line.op # "include" /\ stack' = Rest /\ visited' = visited
        /\ values' = IF line.op = "set" THEN Updated(values, line.sym, line.value) ELSE values
    BY <1>5 DEF ReadAssignment, ReadComment
  <2>2. PICK c, t, au : NextLine(S, opened, at, start, c, t, au)
    BY <1>3, <2>1
  <2>3. t = <<line>> /\ Len(t) = 1
    BY <2>1, <2>2 DEF Part, NextLine
  <2>4. Lies(<<line>>, c) /\ LastSet(values, c)
    BY <1>2, <2>2, <2>3 DEF NextLine
  <2>5. LastSet(values', c + 1)
    BY <1>4, <2>1, <2>4, LineRead
  <2>6. Places(S, Rest, visited, opened, au, start) /\ ReadTo(S, Rest, opened, au, start) = c + 1
    BY <2>2, <2>3 DEF NextLine
  <2>7. Follows(S, Rest, visited, values')
    BY <2>5, <2>6 DEF Follows
  <2> QED BY <2>1, <2>7
<1>6. CASE ReadInclude
  <2>1. /\ top # << >> /\ line.op = "include" /\ visited' = visited \cup {line.file}
        /\ values' = values
        /\ stack' = IF line.file \in visited THEN Rest ELSE Append(Rest, Lines(line.file))
    BY <1>6 DEF ReadInclude, Visited
  <2>2. PICK c, t, au : NextLine(S, opened, at, start, c, t, au)
    BY <1>3, <2>1
  <2>3. line.file \in File /\ Rest \in Seq(Seq(AllLines)) /\ Len(Rest) = d
    BY <1>1, <2>1, TopTyped DEF IsLine
  <2>4. Opens(opened[d], au[d], line.file)
    BY <2>1, <2>2 DEF Opens, NextLine
  <2>5. CASE line.file \in visited
    <3>1. visited' = visited
      BY <2>1, <2>5
    <3>2. ASSUME line.file # Root
          PROVE  \E h \in visited : \E j : Opens(h, j, line.file) /\ <<opened[d], au[d]>> # <<h, j>>
      <4>1. PICK h \in visited, j \in Nat :
              /\ Opens(h, j, line.file)
              /\ \A k \in 1..Len(stack) : opened[k] = h => j <= at[k]
        BY <1>2, <2>5, <3>2 DEF Places, PlacesAt
      <4>2. opened[d] = h => j # au[d]
        <5>1. d \in 1..d
          BY <2>2, LevelsCounted DEF NextLine
        <5>2. opened[d] = h => j <= at[d]
          BY <4>1, <5>1
        <5> QED BY <2>2, <5>1, <5>2 DEF NextLine
      <4> QED BY <4>1, <4>2
    <3>3. IncludedTwice
      <4>1. opened[d] \in visited
        BY <2>2 DEF NextLine
      <4> HIDE DEF d
      <4> QED BY <1>1, <2>3, <2>4, <3>2, <4>1, AgainIncluded
    <3> QED BY <1>1, <3>1, <3>3, StillIncludedTwice
  <2>6. CASE line.file \notin visited
    <3>1. d < Levels
      <4>1. IsFiniteSet(visited) /\ Cardinality(visited) \in Nat
        BY <1>1, ValidationAssumption, FS_Subset, FS_CardinalityType
      <4>2. Cardinality(visited \cup {line.file}) = Cardinality(visited) + 1
        BY <2>6, <4>1, FS_AddElement
      <4>3. Cardinality(visited \cup {line.file}) <= Levels
        <5>1. visited \cup {line.file} \in SUBSET File
          BY <1>1, <2>3
        <5> QED BY <5>1, ValidationAssumption, FS_Subset DEF Levels
      <4>4. d \in Nat /\ Levels \in Nat
        BY <2>2, LevelsCounted DEF NextLine
      <4> QED BY <1>1, <4>1, <4>2, <4>3, <4>4
    <3>2. /\ d \in Nat \ {0} /\ visited \in SUBSET File /\ line.file \in File \ visited
          /\ Places(S, Rest, visited, opened, au, start) /\ LastSet(values, c)
      BY <1>1, <1>2, <2>2, <2>3, <2>6, LevelsCounted DEF NextLine
    <3>3. c = start[d] + Offsets(S, Level(d), opened[d])[au[d] - 1]
      BY <2>2 DEF NextLine
    <3> HIDE DEF d
    <3>4. Follows(S, Append(Rest, Lines(line.file)), visited \cup {line.file}, values)
      BY <1>1, <2>3, <2>4, <3>1, <3>2, <3>3, PlacePushed
    <3> QED BY <2>1, <2>6, <3>4
  <2> QED BY <2>5, <2>6
<1>7. CASE EndFile
  <2>1. top = << >> /\ stack' = Front(stack) /\ visited' = visited /\ values' = values
    BY <1>7 DEF EndFile
  <2>2. stack # << >> /\ d \in Nat \ {0} /\ Len(Front(stack)) = d - 1
        /\ \A k \in 1..(d - 1) : Front(stack)[k] = stack[k]
    BY <1>1, FrontTyped, FrontElements DEF InFile
  <2>3. d <= Levels
    <3>1. Cardinality(visited) <= Levels /\ Cardinality(visited) \in Nat /\ Levels \in Nat
      BY <1>1, ValidationAssumption, FS_Subset, FS_CardinalityType DEF Levels
    <3> QED BY <1>1, <2>2, <3>1
  <2>4. stack[d] = << >>
    BY <2>1 DEF top
  <2> HIDE DEF d
  <2>5. PICK o2, a2, s2 :
          /\ Places(S, Front(stack), visited, o2, a2, s2)
          /\ ReadTo(S, Front(stack), o2, a2, s2) = ReadTo(S, stack, opened, at, start)
    <3>1. Len(stack) = d /\ visited \in SUBSET File
      BY <1>1 DEF d
    <3> QED BY <1>1, <1>2, <2>2, <2>3, <2>4, <3>1, PlacePopped
  <2>6. Follows(S, Front(stack), visited, values)
    BY <1>2, <2>5 DEF Follows
  <2> QED BY <2>1, <2>6
<1> QED BY <1>5, <1>6, <1>7 DEF ReadKconfig

\* A reading that begins.
LEMMA BeginFollows ==
  ASSUME IsProject(project), NEW S, Texts(S)
  PROVE  Follows(S, <<Lines(Root)>>, {Root}, << >>)
<1> DEFINE st == <<Lines(Root)>>
           opened == <<Root>>
           at == <<0>>
           start == <<0>>
<1>1. Len(Lines(Root)) \in Nat
  BY LinesTyped
<1>2. Level(1) = Levels /\ Levels \in 1..Levels
  BY LevelsCounted DEF Level
<1>3. Lies(S[Level(1)][Root], 0)
  <2>1. S[Level(1)][Root] = Spliced /\ Len(Spliced) \in Nat
    BY <1>2, SplicedLength DEF Texts
  <2> QED BY <2>1 DEF Lies
<1>4. LeftOf(Lines(Root), Root, 0)
  BY <1>1 DEF LeftOf
<1>5. Places(S, st, {Root}, opened, at, start)
  BY <1>3, <1>4 DEF Places, PlacesAt
<1>6. ReadTo(S, st, opened, at, start) = 0
  <2>1. Offsets(S, Levels, Root)[0] = 0
    BY <1>2, LevelsCounted DEF Texts, Placed
  <2> QED BY <1>2, <2>1 DEF ReadTo
<1>7. LastSet(<< >>, 0)
  BY SplicedLength DEF LastSet
<1> HIDE DEF st, opened, at, start
<1>8. Follows(S, st, {Root}, << >>)
  BY <1>5, <1>6, <1>7 DEF Follows
<1> QED BY <1>8 DEF st

-----------------------------------------------------------------------------
(* What the text says of the symbols                                         *)

LEMMA DenotedLast ==
  ASSUME IsProject(project), NEW S, Texts(S)
  PROVE  /\ \A i \in 1..Len(Spliced) :
              Spliced[i].op \in {"set", "unset"} /\ Spliced[i].sym \in DOMAIN Denoted
         /\ \A s \in DOMAIN Denoted :
              \E i \in 1..Len(Spliced) :
                /\ Spliced[i].sym = s /\ \A j \in 1..Len(Spliced) : Spliced[j].sym = s => j <= i
                /\ Denoted[s] = IF Spliced[i].op = "set" THEN Spliced[i].value ELSE <<"n", 0>>
<1> DEFINE n == Len(Spliced)
           with(s) == {i \in DOMAIN Spliced : Spliced[i].sym = s}
<1>1. Spliced \in Seq(Plain) /\ n \in Nat /\ DOMAIN Spliced = 1..n
  BY SplicedLength
<1>2. \A l \in Plain : l.op \in {"set", "unset"}
  BY LinesTyped DEF Plain, IsLine
<1>3. Denoted = [s \in {Spliced[i].sym : i \in DOMAIN Spliced} |->
                   IF Spliced[Max(with(s))].op = "set" THEN Spliced[Max(with(s))].value
                   ELSE <<"n", 0>>]
  BY DEF Denoted
<1>4. ASSUME NEW s \in DOMAIN Denoted
      PROVE  \E i \in 1..n :
                /\ Spliced[i].sym = s /\ \A j \in 1..n : Spliced[j].sym = s => j <= i
                /\ Denoted[s] = IF Spliced[i].op = "set" THEN Spliced[i].value ELSE <<"n", 0>>
  <2>1. s \in {Spliced[i].sym : i \in DOMAIN Spliced}
    BY <1>3, <1>4
  <2>2. with(s) \in SUBSET Nat /\ with(s) # {} /\ \A k \in with(s) : k <= n
    BY <1>1, <2>1
  <2> HIDE DEF with
  <2>3. Max(with(s)) \in with(s) /\ \A k \in with(s) : k <= Max(with(s))
    BY <1>1, <2>2, MaxIsGreatest
  <2>4. Denoted[s] = IF Spliced[Max(with(s))].op = "set" THEN Spliced[Max(with(s))].value
                     ELSE <<"n", 0>>
    BY <1>3, <2>1
  <2>5. /\ Max(with(s)) \in 1..n /\ Spliced[Max(with(s))].sym = s
        /\ \A j \in 1..n : Spliced[j].sym = s => j <= Max(with(s))
    BY <1>1, <2>3 DEF with
  <2> QED BY <2>4, <2>5
<1>5. \A i \in 1..n : Spliced[i] \in Plain
  BY <1>1
<1>6. \A i \in 1..n : Spliced[i].op \in {"set", "unset"} /\ Spliced[i].sym \in DOMAIN Denoted
  BY <1>1, <1>2, <1>3, <1>5
<1> QED BY <1>4, <1>6

LEMMA ValuesDenoted ==
  ASSUME IsProject(project), NEW S, Texts(S), LastSet(values, Len(Spliced)), ~UnsetLater
  PROVE  /\ \A s \in DOMAIN values : s \in DOMAIN Denoted /\ Denoted[s] = values[s]
         /\ \A s \in DOMAIN Denoted \ DOMAIN values : Denoted[s] = <<"n", 0>>
<1> DEFINE n == Len(Spliced)
<1>1. n \in Nat /\ DOMAIN Spliced = 1..n
  BY SplicedLength
<1>2. ASSUME NEW s \in DOMAIN values
      PROVE  s \in DOMAIN Denoted /\ Denoted[s] = values[s]
  <2>1. PICK i \in 1..n : /\ Sets(i, s) /\ values[s] = Spliced[i].value
                          /\ \A j \in (i + 1)..n : ~Sets(j, s)
    BY <1>2 DEF LastSet
  <2>2. s \in DOMAIN Denoted
    BY <2>1, DenotedLast DEF Sets
  <2>3. PICK k \in 1..n :
          /\ Spliced[k].sym = s /\ \A j \in 1..n : Spliced[j].sym = s => j <= k
          /\ Denoted[s] = IF Spliced[k].op = "set" THEN Spliced[k].value ELSE <<"n", 0>>
    BY <2>2, DenotedLast
  <2>4. i <= k
    BY <2>1, <2>3 DEF Sets
  <2>5. k = i
    <3> SUFFICES ASSUME i < k
                 PROVE  FALSE
      BY <1>1, <2>4
    <3>1. k \in (i + 1)..n
      BY <1>1
    <3>2. Spliced[k].op = "unset"
      BY <2>1, <2>3, <3>1, DenotedLast DEF Sets
    <3>3. i \in DOMAIN Spliced /\ k \in DOMAIN Spliced /\ i < k /\ Spliced[i].op = "set"
          /\ Spliced[i].sym = Spliced[k].sym
      BY <1>1, <2>1, <2>3 DEF Sets
    <3> QED BY <3>2, <3>3 DEF UnsetLater
  <2> QED BY <2>1, <2>2, <2>3, <2>5 DEF Sets
<1>3. ASSUME NEW s \in DOMAIN Denoted \ DOMAIN values
      PROVE  Denoted[s] = <<"n", 0>>
  <2>1. PICK k \in 1..n :
          /\ Spliced[k].sym = s
          /\ Denoted[s] = IF Spliced[k].op = "set" THEN Spliced[k].value ELSE <<"n", 0>>
    BY <1>3, DenotedLast
  <2>2. Spliced[k].op # "set"
    BY <1>3, <2>1 DEF LastSet
  <2> QED BY <2>1, <2>2
<1> QED BY <1>2, <1>3

LEMMA ChosenAlike ==
  ASSUME IsProject(project), NEW S, Texts(S), LastSet(values, Len(Spliced)), ~UnsetLater
  PROVE  /\ SetTo(Yes) = Chosen
         /\ \A e : EnoughChannels(e, values) <=> EnoughChannels(e, Denoted)
<1>1. /\ \A s \in DOMAIN values : s \in DOMAIN Denoted /\ Denoted[s] = values[s]
      /\ \A s \in DOMAIN Denoted \ DOMAIN values : Denoted[s] = <<"n", 0>>
  BY ValuesDenoted
<1>2. Yes # <<"n", 0>> /\ <<"n", 0>>[1] # "int"
  BY DEF Yes
<1>3. SetTo(Yes) = Chosen
  BY <1>1, <1>2 DEF SetTo, Chosen
<1>4. ASSUME NEW e
      PROVE  EnoughChannels(e, values) <=> EnoughChannels(e, Denoted)
  <2>1. CASE Channels \in DOMAIN values
    <3>1. Channels \in DOMAIN Denoted /\ Denoted[Channels] = values[Channels]
      BY <1>1, <2>1
    <3> QED BY <2>1, <3>1 DEF EnoughChannels
  <2>2. CASE Channels \notin DOMAIN values
    <3>1. Channels \in DOMAIN Denoted => Denoted[Channels][1] # "int"
      BY <1>1, <1>2, <2>2
    <3> QED BY <2>2, <3>1 DEF EnoughChannels
  <2> QED BY <2>1, <2>2
<1> QED BY <1>3, <1>4

\* What the choices turn on in round n, where on has the round before.
Round(on, n) ==
  IF n = 0 THEN Chosen
  ELSE Chosen \cup {c.default : c \in {d \in KconfigChoices :
         d.guards \subseteq on[n - 1] /\ d.members \cap Chosen = {}}}

LEMMA RoundsExist ==
  ASSUME NEW n \in Nat
  PROVE  \E on : on = [k \in 0..n |-> Round(on, k)]
<1> DEFINE Fails == {m \in 0..n : ~\E on : on = [k \in 0..m |-> Round(on, k)]}
<1> SUFFICES ASSUME Fails # {}
             PROVE  FALSE
  OBVIOUS
<1>1. PICK m \in Fails : \A k \in Fails : m <= k
  <2>1. Fails \in SUBSET Nat
    OBVIOUS
  <2> QED BY <2>1, LeastNumber
<1>2. m # 0
  <2> DEFINE on == [k \in 0..0 |-> Chosen]
  <2>1. on = [k \in 0..0 |-> Round(on, k)]
    BY DEF Round
  <2> QED BY <1>1, <2>1
<1>3. PICK on : on = [k \in 0..(m - 1) |-> Round(on, k)]
  <2>1. m - 1 \in 0..n /\ ~(m <= m - 1)
    BY <1>1, <1>2
  <2> QED BY <1>1, <2>1
<1> DEFINE more == [k \in 0..m |-> Round(on, k)]
<1>4. \A k \in 0..m : Round(on, k) = Round(more, k)
  <2>1. m \in Nat /\ \A k \in 0..m : k # 0 => k - 1 \in 0..(m - 1)
    BY <1>1
  <2>2. \A k \in 0..(m - 1) : more[k] = on[k]
    BY <1>3, <2>1
  <2> HIDE DEF more
  <2> TAKE k \in 0..m
  <2>3. CASE k = 0
    BY <2>3 DEF Round
  <2>4. CASE k # 0
    <3>1. on[k - 1] = more[k - 1]
      BY <2>1, <2>2, <2>4
    <3> QED BY <3>1 DEF Round
  <2> QED BY <2>3, <2>4
<1>5. more = [k \in 0..m |-> Round(more, k)]
  BY <1>4
<1> HIDE DEF more
<1> QED BY <1>1, <1>5

\* No default opens a choice: the first round has them all.
LEMMA OneRound ==
  ASSUME ~OpenedByDefault
  PROVE  DenotedOn = Chosen \cup Defaults(Chosen)
<1> DEFINE m == Cardinality(KconfigChoices)
           on == CHOOSE f : f = [k \in 0..m |-> Round(f, k)]
<1>1. m \in Nat /\ (m = 0 => KconfigChoices = {})
  BY ValidationAssumption, FS_CardinalityType, FS_EmptySet
<1>2. on = [k \in 0..m |-> Round(on, k)]
  BY <1>1, RoundsExist
<1>3. DenotedOn = on[m]
  BY DEF DenotedOn, Round, Chosen
<1> HIDE DEF on, m
<1>4. \A k \in 0..m : on[k] = Round(on, k)
  BY <1>2
<1>5. CASE m = 0
  <2>1. DenotedOn = Chosen /\ Defaults(Chosen) = {}
    BY <1>1, <1>3, <1>4, <1>5 DEF Round, Defaults
  <2> QED BY <2>1
<1>6. CASE m # 0
  <2>1. \A n \in 1..m : on[n - 1] \subseteq on[n]
    <3> DEFINE Fails == {n \in 1..m : ~(on[n - 1] \subseteq on[n])}
    <3> SUFFICES ASSUME Fails # {}
                 PROVE  FALSE
      OBVIOUS
    <3>1. PICK n \in Fails : \A k \in Fails : n <= k
      <4>1. Fails \in SUBSET Nat
        BY <1>1
      <4> QED BY <4>1, LeastNumber
    <3>2. n \in 1..m /\ n - 1 \in 0..m /\ n \in 0..m /\ n # 0
      BY <1>1, <3>1
    <3>3. on[n] = Round(on, n) /\ on[n - 1] = Round(on, n - 1)
      BY <1>4, <3>2
    <3>4. CASE n = 1
      BY <3>1, <3>3, <3>4 DEF Round
    <3>5. CASE n # 1
      <4>1. n - 1 \in 1..m /\ ~(n <= n - 1) /\ n - 1 # 0
        BY <1>1, <3>2, <3>5
      <4>2. on[(n - 1) - 1] \subseteq on[n - 1]
        BY <3>1, <4>1
      <4>3. on[n - 1] \subseteq on[n]
        BY <3>2, <3>3, <4>1, <4>2 DEF Round
      <4> QED BY <3>1, <4>3
    <3> QED BY <3>4, <3>5
  <2>2. m \in 1..m /\ m \in 0..m /\ m - 1 \in 0..m
    BY <1>1, <1>6
  <2>3. on[m] = Round(on, m) /\ on[m - 1] = Round(on, m - 1) /\ on[m - 1] \subseteq on[m]
    BY <1>4, <2>1, <2>2
  <2>4. Chosen \subseteq on[m - 1]
    BY <2>3 DEF Round
  <2>5. \A c \in KconfigChoices : c.guards \subseteq on[m - 1] <=> c.guards \subseteq Chosen
    BY <1>3, <2>3, <2>4 DEF OpenedByDefault
  <2> QED BY <1>3, <1>6, <2>3, <2>5 DEF Round, Defaults
<1> QED BY <1>5, <1>6

-----------------------------------------------------------------------------
(* What the checks find                                                      *)

IncludesFound ==
  asked = "directory" =>
    project.cxx # {} /\ \A t \in project.cxx \ {Unknown} : Component(t) \in enabled
ObjectsFound ==
  project.yaml # "broken" /\ \A e \in Looked : Required(e) \subseteq enabled /\ EnoughChannels(e, values)
DtypesFound == \A e \in Looked : e.kind = "io" => DtypeAccepted(e, enabled)

ReadRight ==
  ReadOtherwise \/ (/\ enabled = DenotedOn
                    /\ \A e : EnoughChannels(e, values) <=> EnoughChannels(e, Denoted))

\* What is known of the files that are read, and what no error so far means.
Judging ==
  /\ check = "read" => /\ Judgeable(asked) /\ errors = {}
                       /\ IncludedTwice \/ \E S : Texts(S) /\ Follows(S, stack, visited, values)
  /\ check \in {"includes", "objects", "dtypes"} => Judgeable(asked)
  /\ check \in {"includes", "objects", "dtypes", "done"} /\ Judgeable(asked) => ReadRight
  /\ check = "includes" => errors = {} /\ asked = "directory"
  /\ check = "objects" => (errors = {} <=> IncludesFound)
  /\ check = "dtypes" => (errors = {} <=> IncludesFound /\ ObjectsFound)
  /\ check = "done" =>
       (errors = {} <=> Judgeable(asked) /\ IncludesFound /\ ObjectsFound /\ DtypesFound)

\* The text is the project's.
LEMMA SameText ==
  ASSUME project' = project
  PROVE  /\ Spliced' = Spliced /\ Denoted' = Denoted /\ DenotedOn' = DenotedOn
         /\ \A S : Texts(S) => Texts(S)'
         /\ \A how : Judgeable(how)' = Judgeable(how)
         /\ Looked' = Looked
<1>1. Spliced' = Spliced
  BY DEF Spliced, Lines
<1>2. Denoted' = Denoted
  BY <1>1 DEF Denoted
<1>3. DenotedOn' = DenotedOn
  BY <1>2 DEF DenotedOn
<1>4. \A f : Lines(f)' = Lines(f)
  BY DEF Lines
<1>5. Plain' = Plain
  BY DEF Plain, AllLines
<1>6. \A S, n, f : Parts(S, n, f)' = Parts(S, n, f)
  BY <1>4 DEF Parts, Part
<1>7. \A S, n, f : Offsets(S, n, f)' = Offsets(S, n, f)
  BY <1>6 DEF Offsets
<1>8. \A S : Texts(S) => Texts(S)'
  BY <1>1, <1>5, <1>6, <1>7 DEF Texts
<1>9. \A how : Judgeable(how)' = Judgeable(how)
  BY DEF Judgeable
<1>10. Looked' = Looked
  BY DEF Looked
<1> QED BY <1>1, <1>2, <1>3, <1>8, <1>9, <1>10

LEMMA SameReading ==
  ASSUME project' = project, NEW S, Texts(S), Follows(S, stack', visited', values')
  PROVE  (\E T : Texts(T) /\ Follows(T, stack, visited, values))'
<1>1. Spliced' = Spliced /\ Texts(S)'
  BY SameText
<1>2. \A f : Lines(f)' = Lines(f)
  BY DEF Lines
<1>3. \A n, f : Parts(S, n, f)' = Parts(S, n, f)
  BY <1>2 DEF Parts, Part
<1>4. \A n, f : Offsets(S, n, f)' = Offsets(S, n, f)
  BY <1>3 DEF Offsets
<1>5. PICK opened, at, start :
        /\ Places(S, stack', visited', opened, at, start)
        /\ LastSet(values', ReadTo(S, stack', opened, at, start))
  BY DEF Follows
<1>6. Places(S, stack, visited, opened, at, start)'
  <2>1. \A g, i, f : Opens(g, i, f)' <=> Opens(g, i, f)
    BY <1>2 DEF Opens
  <2>2. \A t, f, a : LeftOf(t, f, a)' <=> LeftOf(t, f, a)
    BY <1>2 DEF LeftOf
  <2>3. \A t, b : Lies(t, b)' <=> Lies(t, b)
    BY <1>1 DEF Lies
  <2> DEFINE d == Len(stack')
  <2>4. /\ opened \in [1..d -> visited'] /\ at \in [1..d -> Nat] /\ start \in [1..d -> Nat]
        /\ \A j, k \in 1..d : opened[j] = opened[k] => j = k
        /\ d > 0 => opened[1] = Root /\ start[1] = 0
    BY <1>5 DEF Places, PlacesAt
  <2>5. /\ \A k \in 1..d : LeftOf(stack'[k], opened[k], at[k])
        /\ \A k \in 1..d : Lies(S[Level(k)][opened[k]], start[k])
    BY <1>5 DEF Places, PlacesAt
  <2>6. /\ \A k \in 1..d : LeftOf(stack[k], opened[k], at[k])'
        /\ \A k \in 1..d : Lies(S[Level(k)][opened[k]], start[k])'
    BY <2>2, <2>3, <2>5
  <2>7. \A k \in 1..(d - 1) :
          /\ Opens(opened[k], at[k], opened[k + 1])
          /\ start[k + 1] = start[k] + Offsets(S, Level(k), opened[k])[at[k] - 1]
    BY <1>5 DEF Places, PlacesAt
  <2>8. \A k \in 1..(d - 1) :
          /\ Opens(opened[k], at[k], opened[k + 1])'
          /\ start[k + 1] = start[k] + Offsets(S, Level(k), opened[k])'[at[k] - 1]
    BY <1>4, <2>1, <2>7
  <2>9. \A f \in visited' \ {Root} :
          \E g \in visited', i \in Nat :
            Opens(g, i, f) /\ \A k \in 1..d : opened[k] = g => i <= at[k]
    BY <1>5 DEF Places, PlacesAt
  <2>10. \A f \in visited' \ {Root} :
           \E g \in visited', i \in Nat :
             Opens(g, i, f)' /\ \A k \in 1..d : opened[k] = g => i <= at[k]
    BY <2>1, <2>9
  <2> QED BY <2>4, <2>6, <2>8, <2>10 DEF Places, PlacesAt
<1>7. ReadTo(S, stack, opened, at, start)' = ReadTo(S, stack', opened, at, start)
  BY <1>1, <1>4 DEF ReadTo
<1>8. LastSet(values, ReadTo(S, stack, opened, at, start))'
  BY <1>1, <1>5, <1>7 DEF LastSet, Sets
<1>9. Follows(S, stack, visited, values)'
  BY <1>6, <1>8 DEF Follows
<1> QED BY <1>1, <1>9

LEMMA SameOtherwise ==
  ASSUME project' = project, visited' = visited
  PROVE  ReadOtherwise' <=> ReadOtherwise
<1>1. Spliced' = Spliced /\ Denoted' = Denoted /\ DenotedOn' = DenotedOn
  BY SameText
<1>2. Chosen' = Chosen
  BY <1>1 DEF Chosen
<1>3. \A f : Includes(f)' = Includes(f)
  BY DEF Includes, Lines
<1>4. IncludedTwice' <=> IncludedTwice
  BY <1>3 DEF IncludedTwice
<1>5. UnsetLater' <=> UnsetLater
  BY <1>1 DEF UnsetLater
<1>6. OpenedByDefault' <=> OpenedByDefault
  BY <1>1, <1>2 DEF OpenedByDefault
<1>7. DefaultsUnseen' <=> DefaultsUnseen
  BY <1>1, <1>2 DEF DefaultsUnseen
<1> QED BY <1>4, <1>5, <1>6, <1>7 DEF ReadOtherwise

\* Once the files are read, what is enabled and what was found changes with neither.
LEMMA SameFindings ==
  ASSUME UNCHANGED <<project, asked, visited, values, enabled>>
  PROVE  /\ ReadRight' <=> ReadRight
         /\ IncludesFound' <=> IncludesFound
         /\ ObjectsFound' <=> ObjectsFound
         /\ DtypesFound' <=> DtypesFound
         /\ Judgeable(asked)' <=> Judgeable(asked)
<1>1. /\ Denoted' = Denoted /\ DenotedOn' = DenotedOn /\ Looked' = Looked
      /\ ReadOtherwise' <=> ReadOtherwise
  BY SameText, SameOtherwise
<1>2. ReadRight' <=> ReadRight
  BY <1>1 DEF ReadRight
<1>3. IncludesFound' <=> IncludesFound
  BY DEF IncludesFound
<1>4. ObjectsFound' <=> ObjectsFound
  BY <1>1 DEF ObjectsFound
<1>5. DtypesFound' <=> DtypesFound
  BY <1>1 DEF DtypesFound
<1>6. Judgeable(asked)' <=> Judgeable(asked)
  BY DEF Judgeable
<1> QED BY <1>2, <1>3, <1>4, <1>5, <1>6

LEMMA JudgingKept ==
  ASSUME Judging, UNCHANGED <<project, check, asked, reading, enabled, errors>>
  PROVE  Judging'
<1>1. UNCHANGED <<project, check, asked, stack, visited, values, enabled, errors>>
  BY DEF reading
<1>2. /\ ReadRight' <=> ReadRight
      /\ IncludesFound' <=> IncludesFound
      /\ ObjectsFound' <=> ObjectsFound
      /\ DtypesFound' <=> DtypesFound
      /\ Judgeable(asked)' <=> Judgeable(asked)
  BY <1>1, SameFindings
<1>3. (check = "read" => /\ Judgeable(asked) /\ errors = {}
                         /\ IncludedTwice \/ \E S : Texts(S) /\ Follows(S, stack, visited, values))'
  <2>1. CASE check = "read"
    <3>1. Judgeable(asked)' /\ errors' = {}
      BY <1>1, <1>2, <2>1 DEF Judging
    <3>2. CASE IncludedTwice
      <4>1. IncludedTwice'
        BY <1>1, <3>2 DEF IncludedTwice, Includes, Lines
      <4> QED BY <3>1, <4>1
    <3>3. CASE ~IncludedTwice
      <4>1. PICK S : Texts(S) /\ Follows(S, stack', visited', values')
        BY <1>1, <2>1, <3>3 DEF Judging
      <4>2. (\E T : Texts(T) /\ Follows(T, stack, visited, values))'
        BY <1>1, <4>1, SameReading
      <4> QED BY <3>1, <4>2
    <3> QED BY <3>2, <3>3
  <2>2. CASE check # "read"
    BY <1>1, <2>2
  <2> QED BY <2>1, <2>2
<1>4. (/\ check \in {"includes", "objects", "dtypes"} => Judgeable(asked)
       /\ check \in {"includes", "objects", "dtypes", "done"} /\ Judgeable(asked) => ReadRight
       /\ check = "includes" => errors = {} /\ asked = "directory"
       /\ check = "objects" => (errors = {} <=> IncludesFound)
       /\ check = "dtypes" => (errors = {} <=> IncludesFound /\ ObjectsFound)
       /\ check = "done" =>
            (errors = {} <=> Judgeable(asked) /\ IncludesFound /\ ObjectsFound /\ DtypesFound))'
  BY <1>1, <1>2 DEF Judging
<1> QED BY <1>3, <1>4 DEF Judging

LEMMA JudgingReads ==
  ASSUME TypeInv, Judging, ReadKconfig, visited' \subseteq File
  PROVE  Judging'
<1>1. /\ UNCHANGED <<project, check, asked, errors>> /\ check = "read"
      /\ visited \subseteq visited'
  BY DEF ReadKconfig, ReadAssignment, ReadComment, ReadInclude, EndFile, InFile
<1>2. IsProject(project)
  BY ProjectTyped DEF TypeInv, BinInv
<1>3. (IncludedTwice \/ \E S : Texts(S) /\ Follows(S, stack, visited, values))'
  <2>1. CASE IncludedTwice
    BY <1>1, <1>2, <2>1, StillIncludedTwice
  <2>2. CASE ~IncludedTwice
    <3>1. PICK S : Texts(S) /\ Follows(S, stack, visited, values)
      BY <1>1, <2>2 DEF Judging
    <3>2. IncludedTwice' \/ Follows(S, stack', visited', values')
      BY <3>1, ReadFollows
    <3> QED BY <1>1, <3>1, <3>2, SameReading
  <2> QED BY <2>1, <2>2
<1>4. Judgeable(asked)' /\ errors' = {} /\ check' = "read"
  BY <1>1 DEF Judging, Judgeable
<1> QED BY <1>3, <1>4 DEF Judging

LEMMA JudgingBegins ==
  ASSUME TypeInv, RunValidation
  PROVE  Judging'
<1>1. PICK how \in {"directory", "generated"} : Begin(how)
  BY DEF RunValidation
<1>2. /\ project' = project /\ asked' = how /\ values' = << >> /\ IsProject(project)
      /\ Judgeable(how)' <=> Judgeable(how)
  BY <1>1, ProjectTyped, SameText DEF Begin, TypeInv, BinInv
<1>3. Judgeable(asked)' <=> Judgeable(how)
  BY <1>2 DEF Judgeable
<1>4. CASE Judgeable(how)
  <2>1. check' = "read" /\ errors' = {} /\ stack' = <<Lines(Root)>> /\ visited' = {Root}
    BY <1>1, <1>4 DEF Begin
  <2>2. PICK S : Texts(S)
    BY <1>2, TextsExist
  <2>3. Follows(S, stack', visited', values')
    BY <1>2, <2>1, <2>2, BeginFollows
  <2>4. (\E T : Texts(T) /\ Follows(T, stack, visited, values))'
    BY <1>2, <2>2, <2>3, SameReading
  <2> QED BY <1>3, <1>4, <2>1, <2>4 DEF Judging
<1>5. CASE ~Judgeable(how)
  <2>1. check' = "done" /\ errors' # {}
    BY <1>1, <1>5 DEF Begin
  <2> QED BY <1>3, <1>5, <2>1 DEF Judging
<1> QED BY <1>4, <1>5

\* When the files are read, enabled is what the build system has, if it reads them alike.
LEMMA JudgingImplies ==
  ASSUME TypeInv, Judging, Imply
  PROVE  Judging'
<1>1. /\ check = "read" /\ stack = << >>
      /\ UNCHANGED <<project, asked, stack, visited, values, errors>>
      /\ enabled' = SetTo(Yes) \cup (IF project.sources THEN Defaults(SetTo(Yes)) ELSE {})
      /\ check' = IF asked = "directory" THEN "includes" ELSE "objects"
  BY DEF Imply, reading
<1>2. IsProject(project) /\ asked \in {"directory", "generated"}
  BY ProjectTyped DEF TypeInv, BinInv, ReadTyped
<1>3. Denoted' = Denoted /\ DenotedOn' = DenotedOn /\ (ReadOtherwise' <=> ReadOtherwise)
  BY <1>1, SameText, SameOtherwise
<1>4. ReadRight'
  <2>1. CASE ReadOtherwise
    BY <1>3, <2>1 DEF ReadRight
  <2>2. CASE ~ReadOtherwise
    <3>1. ~IncludedTwice /\ ~UnsetLater /\ ~OpenedByDefault /\ ~DefaultsUnseen
      BY <2>2 DEF ReadOtherwise
    <3>2. PICK S : Texts(S) /\ Follows(S, stack, visited, values)
      BY <1>1, <3>1 DEF Judging
    <3>3. LastSet(values, Len(Spliced))
      BY <1>1, <3>2 DEF Follows, ReadTo
    <3>4. /\ SetTo(Yes) = Chosen
          /\ \A e : EnoughChannels(e, values) <=> EnoughChannels(e, Denoted)
      BY <1>2, <3>1, <3>2, <3>3, ChosenAlike
    <3>5. enabled' = DenotedOn
      <4>1. CASE project.sources
        BY <1>1, <3>1, <3>4, <4>1, OneRound
      <4>2. CASE ~project.sources
        BY <1>1, <3>1, <3>4, <4>2 DEF DefaultsUnseen
      <4> QED BY <4>1, <4>2
    <3> QED BY <1>1, <1>3, <3>4, <3>5 DEF ReadRight
  <2> QED BY <2>1, <2>2
<1>5. Judgeable(asked)' /\ errors' = {}
  BY <1>1 DEF Judging, Judgeable
<1>6. check' = "includes" => asked' = "directory"
  BY <1>1
<1>7. check' = "objects" => IncludesFound'
  BY <1>1, <1>2 DEF IncludesFound
<1> QED BY <1>1, <1>4, <1>5, <1>6, <1>7 DEF Judging

LEMMA JudgingChecks ==
  ASSUME TypeInv, Judging, CheckIncludes \/ CheckObjects \/ CheckDtypes
  PROVE  Judging'
<1>1. UNCHANGED <<project, asked, visited, values, enabled>>
  BY DEF CheckIncludes, CheckObjects, CheckDtypes, reading
<1>2. /\ ReadRight' <=> ReadRight
      /\ IncludesFound' <=> IncludesFound
      /\ ObjectsFound' <=> ObjectsFound
      /\ DtypesFound' <=> DtypesFound
      /\ Judgeable(asked)' <=> Judgeable(asked)
  BY <1>1, SameFindings
<1>3. Judgeable(asked) /\ ReadRight
  BY DEF Judging, CheckIncludes, CheckObjects, CheckDtypes
<1>4. CASE CheckIncludes
  <2> DEFINE lacking == {Component(t) : t \in {u \in project.cxx \ {Unknown} : Component(u) \notin enabled}}
  <2>1. /\ check = "includes" /\ check' = "objects"
        /\ errors' = errors \cup (IF NoFile THEN {<<"includes", "none">>} ELSE {}) \cup lacking
    BY <1>4 DEF CheckIncludes
  <2>2. errors = {} /\ asked = "directory"
    BY <2>1 DEF Judging
  <2>3. lacking = {} <=> \A t \in project.cxx \ {Unknown} : Component(t) \in enabled
    OBVIOUS
  <2> HIDE DEF lacking
  <2>4. errors' = {} <=> ~NoFile /\ lacking = {}
    BY <2>1, <2>2
  <2>5. errors' = {} <=> IncludesFound
    BY <2>2, <2>3, <2>4 DEF IncludesFound, NoFile
  <2> QED BY <1>2, <1>3, <2>1, <2>5 DEF Judging
<1>5. CASE CheckObjects
  <2> DEFINE lacking == UNION {Required(e) \ enabled : e \in Looked}
             narrow == {Channels : e \in {f \in Looked : ~EnoughChannels(f, values)}}
  <2>1. /\ check = "objects" /\ check' = "dtypes"
        /\ errors' = errors \cup Broken \cup lacking \cup narrow
    BY <1>5 DEF CheckObjects
  <2>2. errors = {} <=> IncludesFound
    BY <2>1 DEF Judging
  <2>3. lacking = {} <=> \A e \in Looked : Required(e) \subseteq enabled
    OBVIOUS
  <2>4. narrow = {} <=> \A e \in Looked : EnoughChannels(e, values)
    OBVIOUS
  <2> HIDE DEF lacking, narrow
  <2>5. Broken = {} <=> project.yaml # "broken"
    BY DEF Broken
  <2>6. errors' = {} <=> IncludesFound /\ ObjectsFound
    BY <2>1, <2>2, <2>3, <2>4, <2>5 DEF ObjectsFound
  <2> QED BY <1>2, <1>3, <2>1, <2>6 DEF Judging
<1>6. CASE CheckDtypes
  <2> DEFINE refused == {DtypeSymbol(Written(e)) :
                           e \in {f \in Looked : f.kind = "io" /\ ~DtypeAccepted(f, enabled)}}
  <2>1. /\ check = "dtypes" /\ check' = "done"
        /\ errors' = errors \cup Broken \cup refused
    BY <1>6 DEF CheckDtypes
  <2>2. errors = {} <=> IncludesFound /\ ObjectsFound
    BY <2>1 DEF Judging
  <2>3. refused = {} <=> DtypesFound
    BY DEF DtypesFound
  <2> HIDE DEF refused
  <2>4. Broken = {} <=> project.yaml # "broken"
    BY DEF Broken
  <2>5. errors' = {} <=> IncludesFound /\ ObjectsFound /\ DtypesFound
    BY <2>1, <2>2, <2>3, <2>4 DEF ObjectsFound
  <2> QED BY <1>2, <1>3, <2>1, <2>5 DEF Judging
<1> QED BY <1>4, <1>5, <1>6

LEMMA JudgingStep ==
  ASSUME TypeInv, Judging, [Next]_vars
  PROVE  Judging'
<1>1. CASE RunValidation
  BY <1>1, JudgingBegins
<1>2. CASE ValidationStep
  <2>1. ReadKconfig \/ Imply \/ CheckIncludes \/ CheckObjects \/ CheckDtypes
    BY <1>2 DEF ValidationStep, Validate
  <2>2. visited' \subseteq File
    BY ReadStep DEF ReadTyped
  <2> QED BY <2>1, <2>2, JudgingReads, JudgingImplies, JudgingChecks
<1>3. CASE Edit
  <2>1. check' = "none"
    BY <1>3 DEF Edit
  <2> QED BY <2>1 DEF Judging
<1>4. CASE EndRefused \/ Bin \/ RunCompat \/ Discover \/ UNCHANGED vars
  <2>1. UNCHANGED <<project, check, asked, reading, enabled, errors>>
    BY <1>4 DEF EndRefused, Bin, RunBin, SerializeSlot, RefuseSlot, OpenFile, FillFile, WriteFails,
                Kill, RunCompat, Discover, validating, vars
  <2> QED BY <2>1, JudgingKept
<1> QED BY <1>1, <1>2, <1>3, <1>4 DEF Next

\* Without an error the build has what is looked for.
LEMMA JudgingTells == TypeInv /\ Judging => VerdictMatches
<1> SUFFICES ASSUME TypeInv, Judging, check = "done", ~ReadOtherwise, project.yaml # "slots",
                    project.yaml = "single" => \A e \in Objects : ~ForcedUnwritten(e) /\ e.good
             PROVE  valid <=> /\ Compiles /\ project.yaml # "broken"
                              /\ project.yaml = "single" => \A e \in Objects : Runs(e)
  BY DEF VerdictMatches
<1>1. IsProject(project) /\ asked \in {"directory", "generated"}
  BY ProjectTyped DEF TypeInv, BinInv, ReadTyped
<1>2. valid <=> Judgeable(asked) /\ IncludesFound /\ ObjectsFound /\ DtypesFound
  BY DEF Judging, valid
<1>3. CASE ~Judgeable(asked)
  <2>1. asked = "directory" /\ ~Judgeable("directory")
    BY <1>1, <1>3 DEF Judgeable
  <2> QED BY <1>2, <1>3, <2>1 DEF Compiles
<1>4. CASE Judgeable(asked)
  <2>1. enabled = DenotedOn /\ \A e : EnoughChannels(e, values) <=> EnoughChannels(e, Denoted)
    BY <1>4 DEF Judging, ReadRight
  <2>2. IncludesFound <=> Compiles
    BY <1>1, <1>4, <2>1 DEF IncludesFound, Compiles
  <2>3. Looked = IF project.yaml = "single" THEN Objects ELSE {}
    <3>1. CASE project.yaml = "single"
      <4>1. DOMAIN project.slots = {0}
        BY <1>1, <3>1 DEF IsProject
      <4> QED BY <3>1, <4>1 DEF Looked, Objects
    <3>2. CASE project.yaml # "single"
      BY <3>2 DEF Looked
    <3> QED BY <3>1, <3>2
  <2>4. ASSUME project.yaml = "single", NEW e \in Objects
        PROVE  Runs(e) <=> /\ Required(e) \subseteq enabled /\ EnoughChannels(e, values)
                           /\ e.kind = "io" => DtypeAccepted(e, enabled)
    <3>1. BinaryDtype(e) = Written(e)
      BY <2>4 DEF ForcedUnwritten, BinaryDtype
    <3> QED BY <2>1, <3>1 DEF Runs, DtypeAccepted
  <2> HIDE DEF Objects
  <2>5. ObjectsFound /\ DtypesFound <=>
          project.yaml # "broken" /\ (project.yaml = "single" => \A e \in Objects : Runs(e))
    BY <2>3, <2>4 DEF ObjectsFound, DtypesFound
  <2> QED BY <1>2, <1>4, <2>2, <2>5
<1> QED BY <1>3, <1>4

\* desc-valid and the check of a build say of every configuration what the build makes of
\* it, whatever files include one another and however many objects there are.
THEOREM VerdictsRight == Spec => []VerdictMatches
<1>1. Init => TypeInv /\ Judging
  <2>1. Init => check = "none"
    BY DEF Init, ValidationInit
  <2> QED BY <2>1, TypeInvInit DEF Judging
<1>2. TypeInv /\ Judging /\ [Next]_vars => TypeInv' /\ Judging'
  BY InvStep, ReadStep, ShapedStep, JudgingStep DEF TypeInv
<1>3. Spec => [](TypeInv /\ Judging)
  BY <1>1, <1>2, PTL DEF Spec
<1> QED BY <1>3, JudgingTells, PTL
=============================================================================
