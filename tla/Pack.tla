-------------------------------- MODULE Pack --------------------------------
(***************************************************************************)
(* The builder compiles one package per planned machine, in plan order,    *)
(* over whatever the output directory already holds                        *)
(* (builder/internal/pack, builder/build). A package is five files, each   *)
(* replaced on its own; a build may fail or be killed between any two.     *)
(***************************************************************************)
EXTENDS Naturals, Sequences

CONSTANTS
  Machines,    \* the machines of the plan
  Order,       \* the plan: a sequence naming each machine once
  Directory,   \* machine -> package directory; names apart only by case share one
  Versions,    \* what the blueprint says, as far as the packages can tell
  MaxBuilds,   \* bound: builds ever started
  Nothing,     \* no file, and no sum
  Broken       \* a binary the linker was interrupted in

ASSUME PackAssumption ==
  /\ Order \in Seq(Machines)
  /\ MaxBuilds \in Nat
  /\ Nothing \notin Versions /\ Broken \notin Machines \X Versions
  /\ Nothing \notin Machines \X Versions /\ Nothing # Broken
  /\ Nothing \notin [binary : (Machines \X Versions) \cup {Nothing, Broken},
                      descriptor : (Machines \X Versions) \cup {Nothing}]
  /\ DOMAIN Directory = Machines

VARIABLES
  authored,  \* the version the blueprint holds now
  builds,    \* builds started
  step,      \* where the running build is; "idle" when none runs
  at,        \* position in Order of the machine being built
  planned,   \* the version the running build resolved
  staged,    \* the descriptor in the running build's overlay
  sum,       \* the sum of the binary, as the running build read it
  pkg,       \* directory -> its five files
  results    \* positions the last build reported as built

vars == <<authored, builds, step, at, planned, staged, sum, pkg, results>>

\* A descriptor is known by its machine and version, and so is everything made
\* from it: the binary embeds one, the manifest restates one. A sum names the
\* content it was taken of.
Content == (Machines \X Versions) \cup {Nothing}
Binary == Content \cup {Broken}
Sums == [binary : Binary, descriptor : Content] \cup {Nothing}
Directories == {Directory[m] : m \in Machines}

EmptyPackage ==
  [binary |-> Nothing, descriptor |-> Nothing, manifest |-> Nothing,
   release |-> Nothing, checksums |-> Nothing]

TypeOK ==
  /\ authored \in Versions /\ planned \in Versions
  /\ builds \in 0..MaxBuilds
  /\ step \in {"idle", "stage", "compile", "describe", "hash",
               "manifest", "release", "checksums", "remove"}
  /\ at \in Nat /\ (step # "idle" => at \in DOMAIN Order)
  /\ staged \in Content /\ sum \in Binary
  /\ pkg \in [Directories ->
       [binary : Binary, descriptor : Content, manifest : Content,
        release : Binary, checksums : Sums]]
  /\ results \in SUBSET DOMAIN Order

Init ==
  /\ authored \in Versions /\ planned = authored
  /\ builds = 0 /\ step = "idle" /\ at = 0
  /\ staged = Nothing /\ sum = Nothing
  /\ pkg = [d \in Directories |-> EmptyPackage]
  /\ results = {}

Place == Directory[Order[at]]
Descriptor == <<Order[at], planned>>
SetFile(file, content) == pkg' = [pkg EXCEPT ![Place][file] = content]

\* Variant: the descriptor is written once the metadata is.
StepAfterDescribedLast ==
  [stage |-> "compile", compile |-> "hash", hash |-> "manifest", manifest |-> "release",
   release |-> "checksums", checksums |-> "describe", describe |-> "remove"]

\* The order of BuildMachine and writeMetadata.
StepAfter ==
  [stage |-> "compile", compile |-> "describe", describe |-> "hash", hash |-> "manifest",
   manifest |-> "release", release |-> "checksums", checksums |-> "remove"]

Advance == step' = StepAfter[step] /\ UNCHANGED <<authored, builds, at, planned, results>>

\* The author changes the blueprint. A running build has resolved its own plan.
Author ==
  /\ authored' \in Versions \ {authored}
  /\ UNCHANGED <<builds, step, at, planned, staged, sum, pkg, results>>

\* Run: load and resolve, then the first machine. The packages of an earlier
\* build are left where they are.
Run ==
  /\ step = "idle" /\ builds < MaxBuilds /\ Order # << >>
  /\ builds' = builds + 1
  /\ planned' = authored /\ at' = 1 /\ step' = "stage" /\ results' = {}
  /\ UNCHANGED <<authored, staged, sum, pkg>>

Stage ==
  /\ step = "stage" /\ staged' = Descriptor
  /\ Advance /\ UNCHANGED <<sum, pkg>>

\* go build embeds the staged descriptor: the overlay maps it over the neutral
\* one, so nothing of the working tree is read.
Compile ==
  /\ step = "compile" /\ SetFile("binary", staged)
  /\ Advance /\ UNCHANGED <<staged, sum>>

Describe ==
  /\ step = "describe" /\ SetFile("descriptor", Descriptor)
  /\ Advance /\ UNCHANGED <<staged, sum>>

HashBinary ==
  /\ step = "hash" /\ sum' = pkg[Place].binary
  /\ Advance /\ UNCHANGED <<staged, pkg>>

WriteManifest ==
  /\ step = "manifest" /\ SetFile("manifest", Descriptor)
  /\ Advance /\ UNCHANGED <<staged, sum>>

WriteRelease ==
  /\ step = "release" /\ SetFile("release", sum)
  /\ Advance /\ UNCHANGED <<staged, sum>>

\* The binary's sum is the one taken before; the descriptor's is taken now.
WriteChecksums ==
  /\ step = "checksums"
  /\ SetFile("checksums", [binary |-> sum, descriptor |-> pkg[Place].descriptor])
  /\ Advance /\ UNCHANGED <<staged, sum>>

\* A build that fails returns the results it had.
ReportedBeforeFailure == results' = results

\* The overlay is removed, the machine reported, and the next one begun.
Remove ==
  /\ step = "remove"
  /\ staged' = Nothing /\ sum' = Nothing
  /\ results' = results \cup {at}
  /\ IF at < Len(Order) THEN step' = "stage" /\ at' = at + 1 ELSE step' = "idle" /\ at' = 0
  /\ UNCHANGED <<authored, builds, planned, pkg>>

\* A step returns an error, or the builder is killed: every file that was
\* written stays, the machine is not reported, and no later machine is built.
\* The error may be the overlay's removal, after all five files are in place.
Fail ==
  /\ step # "idle" /\ step' = "idle" /\ at' = 0
  /\ staged' = Nothing /\ sum' = Nothing
  /\ \/ UNCHANGED pkg
     \/ step = "compile" /\ SetFile("binary", Broken)
  /\ ReportedBeforeFailure
  /\ UNCHANGED <<authored, builds, planned>>

Next ==
  Author \/ Run \/ Stage \/ Compile \/ Describe \/ HashBinary \/ WriteManifest
    \/ WriteRelease \/ WriteChecksums \/ Remove \/ Fail

Spec == Init /\ [][Next]_vars

-----------------------------------------------------------------------------
\* What whoever installs a package can check: the sums match the files.
Verifies(p) ==
  p.checksums = [binary |-> p.binary, descriptor |-> p.descriptor]

\* A package whose checksums verify is one build's: the binary embeds exactly
\* the descriptor that ships beside it, whatever builds failed over it, at
\* whichever file, and whichever machines share its directory.
ChecksumsVouch ==
  \A d \in Directories : Verifies(pkg[d]) =>
    /\ pkg[d].binary = pkg[d].descriptor
    /\ pkg[d].binary \in Machines \X Versions

\* A machine the builder reports is whole: all five files are of the version
\* that build resolved, until a later machine of the plan that shares the
\* directory is built over it.
ReportedPackagesAreWhole ==
  \A i \in results :
    (\A j \in DOMAIN Order : Directory[Order[j]] = Directory[Order[i]] => j <= i) =>
      LET p == pkg[Directory[Order[i]]]
          own == <<Order[i], planned>>
      IN /\ p.binary = own /\ p.descriptor = own /\ p.manifest = own
         /\ p.release = own /\ Verifies(p)

=============================================================================
