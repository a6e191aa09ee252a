----------------------------- MODULE PackProofs -----------------------------
(***************************************************************************)
(* What a package in the output directory vouches for, for every plan,     *)
(* every sharing of directories and every sequence of failing builds.      *)
(***************************************************************************)
EXTENDS Pack, TLAPS

\* The files of the machine being built that are already its own.
WrittenSoFar ==
  LET p == pkg[Place]
  IN /\ step = "compile" => staged = Descriptor
     /\ step \in {"describe", "hash", "manifest", "release", "checksums", "remove"}
          => p.binary = Descriptor
     /\ step \in {"hash", "manifest", "release", "checksums", "remove"}
          => p.descriptor = Descriptor
     /\ step \in {"manifest", "release", "checksums"} => sum = Descriptor
     /\ step \in {"release", "checksums", "remove"} => p.manifest = Descriptor
     /\ step \in {"checksums", "remove"} => p.release = Descriptor
     /\ step = "remove" =>
          p.checksums = [binary |-> Descriptor, descriptor |-> Descriptor]

\* Checksums are only ever taken of one build's pair of files.
SumsArePaired ==
  \A d \in Directories :
    \/ pkg[d].checksums = Nothing
    \/ \E c \in Machines \X Versions :
         pkg[d].checksums = [binary |-> c, descriptor |-> c]

\* Only machines before the one being built are reported.
ReportedAreBehind == step # "idle" => \A i \in results : i < at

IInv ==
  /\ TypeOK
  /\ step # "idle" => WrittenSoFar
  /\ SumsArePaired
  /\ ReportedAreBehind
  /\ ReportedPackagesAreWhole

\* The place of the machine being built is a directory, its descriptor content.
LEMMA PlaceTyped ==
  ASSUME TypeOK, step # "idle"
  PROVE  /\ Place \in Directories /\ Descriptor \in Machines \X Versions
         /\ Order[at] \in Machines /\ at \in DOMAIN Order
BY PackAssumption DEF TypeOK, Place, Descriptor, Directories

LEMMA TypedInitially == Init => TypeOK
<1> SUFFICES ASSUME Init PROVE TypeOK
  OBVIOUS
<1>1. EmptyPackage \in [binary : Binary, descriptor : Content, manifest : Content,
                        release : Binary, checksums : Sums]
  BY DEF EmptyPackage, Binary, Content, Sums
<1> QED
  BY <1>1, PackAssumption DEF Init, TypeOK, Content, Binary

LEMMA TypedNext == TypeOK /\ [Next]_vars => TypeOK'
<1> SUFFICES ASSUME TypeOK, [Next]_vars PROVE TypeOK'
  OBVIOUS
<1> USE PackAssumption
<1>1. CASE Author
  BY <1>1 DEF Author, TypeOK
<1>2. CASE Run
  BY <1>2 DEF Run, TypeOK
<1>3. CASE Stage
  BY <1>3, PlaceTyped DEF Stage, Advance, StepAfter, TypeOK, Content
<1>4. CASE Compile
  BY <1>4, PlaceTyped DEF Compile, SetFile, Advance, StepAfter, TypeOK, Binary
<1>5. CASE Describe
  BY <1>5, PlaceTyped DEF Describe, SetFile, Advance, StepAfter, TypeOK, Content
<1>6. CASE HashBinary
  BY <1>6, PlaceTyped DEF HashBinary, Advance, StepAfter, TypeOK
<1>7. CASE WriteManifest
  BY <1>7, PlaceTyped DEF WriteManifest, SetFile, Advance, StepAfter, TypeOK, Content
<1>8. CASE WriteRelease
  BY <1>8, PlaceTyped DEF WriteRelease, SetFile, Advance, StepAfter, TypeOK
<1>9. CASE WriteChecksums
  <2>1. [binary |-> sum, descriptor |-> pkg[Place].descriptor] \in Sums
    BY <1>9, PlaceTyped DEF WriteChecksums, TypeOK, Sums
  <2> QED
    BY <1>9, <2>1, PlaceTyped DEF WriteChecksums, SetFile, Advance, StepAfter, TypeOK
<1>10. CASE Remove
  BY <1>10, PlaceTyped DEF Remove, TypeOK, Content, Binary
<1>11. CASE Fail
  <2>1. pkg' = pkg \/ SetFile("binary", Broken)
    BY <1>11 DEF Fail
  <2>2. Broken \in Binary
    BY DEF Binary
  <2>3. pkg' \in [Directories ->
       [binary : Binary, descriptor : Content, manifest : Content,
        release : Binary, checksums : Sums]]
    BY <1>11, <2>1, <2>2, PlaceTyped DEF Fail, SetFile, TypeOK
  <2> QED
    BY <1>11, <2>3 DEF Fail, ReportedBeforeFailure, TypeOK, Content, Binary
<1>12. CASE UNCHANGED vars
  BY <1>12 DEF vars, TypeOK
<1> QED
  BY <1>1, <1>2, <1>3, <1>4, <1>5, <1>6, <1>7, <1>8, <1>9, <1>10, <1>11, <1>12 DEF Next

-----------------------------------------------------------------------------
\* Writing one file of the package at hand leaves the others, and every other
\* directory, as they were.
LEMMA SetFileChanges ==
  ASSUME TypeOK, step # "idle", NEW c,
         NEW file \in {"binary", "descriptor", "manifest", "release", "checksums"},
         SetFile(file, c)
  PROVE  /\ pkg'[Place][file] = c
         /\ \A other \in {"binary", "descriptor", "manifest", "release", "checksums"} \ {file} :
              pkg'[Place][other] = pkg[Place][other]
         /\ \A d \in Directories \ {Place} : pkg'[d] = pkg[d]
BY PlaceTyped DEF SetFile, TypeOK

\* Where the build is does not move with the file it writes.
LEMMA AdvanceKeepsPlace ==
  ASSUME Advance PROVE Place' = Place /\ Descriptor' = Descriptor
BY DEF Advance, Place, Descriptor

LEMMA WrittenNext ==
  ASSUME TypeOK, step # "idle" => WrittenSoFar, [Next]_vars
  PROVE  (step # "idle" => WrittenSoFar)'
<1> SUFFICES ASSUME step' # "idle" PROVE WrittenSoFar'
  OBVIOUS
<1>1. CASE Author
  BY <1>1 DEF Author, WrittenSoFar, Place, Descriptor
<1>2. CASE Run
  BY <1>2 DEF Run, WrittenSoFar
<1>3. CASE Stage
  BY <1>3, AdvanceKeepsPlace DEF Stage, Advance, StepAfter, WrittenSoFar
<1>4. CASE Compile
  <2>1. staged = Descriptor
    BY <1>4 DEF Compile, WrittenSoFar
  <2> QED
    BY <1>4, <2>1, AdvanceKeepsPlace, SetFileChanges
    DEF Compile, Advance, StepAfter, WrittenSoFar
<1>5. CASE Describe
  BY <1>5, AdvanceKeepsPlace, SetFileChanges DEF Describe, Advance, StepAfter, WrittenSoFar
<1>6. CASE HashBinary
  BY <1>6, AdvanceKeepsPlace DEF HashBinary, Advance, StepAfter, WrittenSoFar
<1>7. CASE WriteManifest
  BY <1>7, AdvanceKeepsPlace, SetFileChanges DEF WriteManifest, Advance, StepAfter, WrittenSoFar
<1>8. CASE WriteRelease
  BY <1>8, AdvanceKeepsPlace, SetFileChanges DEF WriteRelease, Advance, StepAfter, WrittenSoFar
<1>9. CASE WriteChecksums
  BY <1>9, AdvanceKeepsPlace, SetFileChanges DEF WriteChecksums, Advance, StepAfter, WrittenSoFar
<1>10. CASE Remove
  BY <1>10 DEF Remove, WrittenSoFar
<1>11. CASE Fail
  BY <1>11 DEF Fail
<1>12. CASE UNCHANGED vars
  BY <1>12 DEF vars, WrittenSoFar, Place, Descriptor
<1> QED
  BY <1>1, <1>2, <1>3, <1>4, <1>5, <1>6, <1>7, <1>8, <1>9, <1>10, <1>11, <1>12 DEF Next

LEMMA SumsNext ==
  ASSUME TypeOK, step # "idle" => WrittenSoFar, SumsArePaired, [Next]_vars
  PROVE  SumsArePaired'
<1>1. CASE \A d \in Directories : pkg'[d].checksums = pkg[d].checksums
  BY <1>1 DEF SumsArePaired
<1>2. CASE WriteChecksums
  <2>1. sum = Descriptor /\ pkg[Place].descriptor = Descriptor
    BY <1>2 DEF WriteChecksums, WrittenSoFar
  <2>2. pkg'[Place].checksums = [binary |-> Descriptor, descriptor |-> Descriptor]
    BY <1>2, <2>1, SetFileChanges DEF WriteChecksums
  <2>3. \A d \in Directories \ {Place} : pkg'[d] = pkg[d]
    BY <1>2, SetFileChanges DEF WriteChecksums
  <2> QED
    BY <1>2, <2>2, <2>3, PlaceTyped DEF WriteChecksums, SumsArePaired
<1>3. CASE Compile \/ Describe \/ WriteManifest \/ WriteRelease
  <2>1. \A d \in Directories : pkg'[d].checksums = pkg[d].checksums
    BY <1>3, SetFileChanges DEF Compile, Describe, WriteManifest, WriteRelease
  <2> QED
    BY <2>1, <1>1
<1>4. CASE Fail
  <2>1. \A d \in Directories : pkg'[d].checksums = pkg[d].checksums
    BY <1>4, SetFileChanges DEF Fail
  <2> QED
    BY <2>1, <1>1
<1>5. CASE UNCHANGED pkg
  BY <1>5, <1>1
<1> QED
  BY <1>2, <1>3, <1>4, <1>5
  DEF Next, Author, Run, Stage, HashBinary, Remove, vars

LEMMA BehindNext ==
  ASSUME TypeOK, ReportedAreBehind, [Next]_vars
  PROVE  ReportedAreBehind'
<1>1. CASE step # "idle" /\ Advance
  BY <1>1 DEF Advance, ReportedAreBehind
<1>2. CASE Remove
  BY <1>2, PackAssumption DEF Remove, ReportedAreBehind, TypeOK
<1>3. CASE Author \/ Run \/ Fail \/ UNCHANGED vars
  BY <1>3 DEF Author, Run, Fail, vars, ReportedAreBehind
<1> QED
  BY <1>1, <1>2, <1>3
  DEF Next, Stage, Compile, Describe, HashBinary, WriteManifest, WriteRelease, WriteChecksums

\* The last machine of the plan to use the directory of position i.
LastThere(i) == \A j \in DOMAIN Order : Directory[Order[j]] = Directory[Order[i]] => j <= i

WholeAt(i) ==
  LET p == pkg[Directory[Order[i]]]
      own == <<Order[i], planned>>
  IN /\ p.binary = own /\ p.descriptor = own /\ p.manifest = own
     /\ p.release = own /\ Verifies(p)

LEMMA WholeRestated ==
  ReportedPackagesAreWhole <=> \A i \in results : LastThere(i) => WholeAt(i)
BY DEF ReportedPackagesAreWhole, LastThere, WholeAt

\* A build writes only where no reported machine is the last to be.
LEMMA ReportedElsewhere ==
  ASSUME TypeOK, ReportedAreBehind, step # "idle", NEW i \in results, LastThere(i)
  PROVE  Directory[Order[i]] \in Directories \ {Place}
BY PackAssumption, PlaceTyped DEF TypeOK, ReportedAreBehind, LastThere, Place, Directories

LEMMA WholeNext ==
  ASSUME IInv, [Next]_vars
  PROVE  ReportedPackagesAreWhole'
<1> USE DEF IInv
<1>1. CASE step # "idle" /\ UNCHANGED <<planned, results>>
           /\ \A d \in Directories \ {Place} : pkg'[d] = pkg[d]
  <2> SUFFICES ASSUME NEW i \in results, LastThere(i) PROVE WholeAt(i)'
    BY <1>1, WholeRestated DEF ReportedPackagesAreWhole, LastThere, WholeAt
  <2>1. WholeAt(i)
    BY WholeRestated
  <2> QED
    BY <1>1, <2>1, ReportedElsewhere DEF WholeAt, Verifies
<1>2. CASE Stage \/ HashBinary
  BY <1>1, <1>2 DEF Stage, HashBinary, Advance
<1>7. CASE Compile \/ Describe \/ WriteManifest \/ WriteRelease \/ WriteChecksums
  <2>1. step # "idle" /\ \A d \in Directories \ {Place} : pkg'[d] = pkg[d]
    BY <1>7, SetFileChanges DEF Compile, Describe, WriteManifest, WriteRelease, WriteChecksums
  <2> QED
    BY <1>1, <1>7, <2>1
    DEF Compile, Describe, WriteManifest, WriteRelease, WriteChecksums, Advance
<1>3. CASE Remove
  <2> SUFFICES ASSUME NEW i \in results \cup {at}, LastThere(i) PROVE WholeAt(i)'
    BY <1>3 DEF Remove, ReportedPackagesAreWhole, LastThere, WholeAt
  <2>1. CASE i \in results
    BY <1>3, <2>1, WholeRestated DEF Remove, WholeAt, Verifies
  <2>2. CASE i = at
    BY <1>3, <2>2 DEF Remove, WrittenSoFar, WholeAt, Verifies, Place, Descriptor
  <2> QED
    BY <2>1, <2>2
<1>4. CASE Fail
  <2>1. \A d \in Directories \ {Place} : pkg'[d] = pkg[d]
    BY <1>4, SetFileChanges DEF Fail
  <2> QED
    BY <1>1, <1>4, <2>1 DEF Fail, ReportedBeforeFailure
<1>5. CASE Run
  BY <1>5 DEF Run, ReportedPackagesAreWhole
<1>6. CASE Author \/ UNCHANGED vars
  BY <1>6 DEF Author, vars, ReportedPackagesAreWhole, Verifies
<1> QED
  BY <1>2, <1>3, <1>4, <1>5, <1>6, <1>7 DEF Next

LEMMA Inductive == IInv /\ [Next]_vars => IInv'
BY TypedNext, WrittenNext, SumsNext, BehindNext, WholeNext DEF IInv

LEMMA HoldsInitially == Init => IInv
<1> SUFFICES ASSUME Init PROVE IInv
  OBVIOUS
<1>1. SumsArePaired
  BY DEF Init, SumsArePaired, EmptyPackage
<1> QED
  BY <1>1, TypedInitially DEF Init, IInv, ReportedAreBehind, ReportedPackagesAreWhole

LEMMA VouchFromPairs == IInv => ChecksumsVouch
<1> SUFFICES ASSUME IInv, NEW d \in Directories, Verifies(pkg[d])
             PROVE  pkg[d].binary = pkg[d].descriptor /\ pkg[d].binary \in Machines \X Versions
  BY DEF ChecksumsVouch
<1>1. [binary |-> pkg[d].binary, descriptor |-> pkg[d].descriptor]
        \in [binary : Binary, descriptor : Content]
  BY DEF IInv, TypeOK
<1>2. pkg[d].checksums # Nothing
  BY <1>1, PackAssumption DEF Verifies, Binary, Content
<1>3. PICK c \in Machines \X Versions : pkg[d].checksums = [binary |-> c, descriptor |-> c]
  BY <1>2 DEF IInv, SumsArePaired
<1> QED
  BY <1>3 DEF Verifies

\* In every directory, at every moment and after any number of builds that
\* failed over it, checksums that verify are of one build's binary and of the
\* descriptor that binary embeds.
THEOREM ChecksumsVouchAlways == Spec => []ChecksumsVouch
BY HoldsInitially, Inductive, VouchFromPairs, PTL DEF Spec

\* Every machine a build reports has all five files of what that build resolved,
\* unless a later machine of the plan is built into its directory.
THEOREM ReportedPackagesAreWholeAlways == Spec => []ReportedPackagesAreWhole
<1>1. IInv => ReportedPackagesAreWhole
  BY DEF IInv
<1> QED
  BY <1>1, HoldsInitially, Inductive, PTL DEF Spec

=============================================================================
