--------------------------- MODULE WorkspaceProofs ---------------------------
(***************************************************************************)
(* Theorems about Workspace, for every source, every patch, any number of  *)
(* loaders and writes.  What lines are made of does not matter to them, so *)
(* records are described by their shape and not by sets of values.         *)
(***************************************************************************)
EXTENDS Workspace, TLAPS

-----------------------------------------------------------------------------
(***************************************************************************)
(* Commands.                                                               *)
(***************************************************************************)

CommandInv == CommandTypeOK /\ KillsOnlyItsOwn

\* What a step of the agent does to its command.
CommandStep ==
  \/ Spawn \/ CommandReturns \/ ProcessEnds \/ Terminated \/ Killed
  \/ command' = Told(command) \/ UNCHANGED command

LEMMA CommandSteps == [Next]_vars => CommandStep
<1> SUFFICES ASSUME [Next]_vars PROVE CommandStep
  OBVIOUS
<1> USE DEF CommandStep
<1>1. CASE Asks \/ Asking \/ Answer \/ Breaks
  BY <1>1 DEF Asks, Asking, Answer, Breaks
<1>2. CASE RunsCommand \/ CommandEnds \/ ProcessStep
  BY <1>2 DEF RunsCommand, CommandEnds, ProcessStep
<1>3. CASE ReadsLines \/ Patch \/ PatchWrites \/ PatchFails
  BY <1>3 DEF ReadsLines, Patch, PatchWrites, PatchFails
<1>4. CASE Reloads \/ Reloaded \/ Evaluates \/ Stop
  BY <1>4 DEF Reloads, Reloaded, Evaluates, Stop
<1>5. CASE Saved \/ OtherLoads \/ Describing \/ \E l \in Loaders : Loading(l)
  BY <1>5 DEF Saved, OtherLoads, Describing, Loading
<1>6. CASE UNCHANGED vars
  BY <1>6 DEF vars
<1> QED BY <1>1, <1>2, <1>3, <1>4, <1>5, <1>6 DEF Next

LEMMA CommandKept ==
  ASSUME CommandInv, CommandStep
  PROVE  CommandInv'
<1> USE DEF CommandInv, CommandTypeOK, KillsOnlyItsOwn, Processes
<1>1. CASE Spawn
  <2>1. ~command.timer
    BY <1>1 DEF Spawn
  <2> QED BY <1>1, <2>1 DEF Spawn, Quiet
<1>2. CASE CommandReturns
  BY <1>2 DEF CommandReturns, Returned, Quiet
<1>3. CASE ProcessEnds
  BY <1>3 DEF ProcessEnds
<1>4. CASE Terminated
  BY <1>4 DEF Terminated
<1>5. CASE Killed
  BY <1>5 DEF Killed
<1>6. CASE command' = Told(command)
  BY <1>6 DEF Told
<1>7. CASE UNCHANGED command
  BY <1>7
<1> QED BY <1>1, <1>2, <1>3, <1>4, <1>5, <1>6, <1>7 DEF CommandStep

\* A SIGKILL is only ever sent to the group of the command it was armed for:
\* the timer does not outlive the command, however abort and end interleave.
THEOREM KillReachesItsCommand == Spec => []KillsOnlyItsOwn
<1>1. Init => CommandInv
  BY DEF Init, CommandInit, CommandInv, CommandTypeOK, KillsOnlyItsOwn, Quiet, Processes
<1>2. CommandInv /\ [Next]_vars => CommandInv'
  BY CommandSteps, CommandKept
<1>3. CommandInv => KillsOnlyItsOwn
  BY DEF CommandInv
<1> QED BY <1>1, <1>2, <1>3, PTL DEF Spec

-----------------------------------------------------------------------------
(***************************************************************************)
(* Loads.                                                                  *)
(***************************************************************************)

Version(p) == file[p].version
IsFile(f)  == f = [lines |-> f.lines, version |-> f.version] /\ f.version \in Nat
IsLoad(t)  == t \in [at : {t.at}, path : Candidates, version : Nat, hash : {t.hash}, code : {t.code}]

Shape ==
  /\ file = [p \in Paths |-> file[p]] /\ \A p \in Paths : IsFile(file[p])
  /\ load = [l \in Loaders |-> load[l]] /\ \A l \in Loaders : IsLoad(load[l])
  /\ receipt = [hash |-> receipt.hash, path |-> receipt.path, current |-> receipt.current]
  /\ receipt.path \in Candidates

\* While a file has the version a load saw, it has the lines the load saw.
LoadIsHonest(l) ==
  LET t == load[l] IN
  /\ t.at \in {"stamped", "hashed", "imported"} => t.version <= Version(t.path)
  /\ t.at \in {"hashed", "imported"} /\ t.version = Version(t.path) => t.hash = Content(t.path)
  /\ t.at = "imported" /\ t.version = Version(t.path) => t.code = Content(t.path)

\* A receipt that is current is of the live function.
ReceiptIsHonest == receipt.current => live = receipt.hash

SourceInv == Shape /\ ReceiptIsHonest /\ \A l \in Loaders : LoadIsHonest(l)

\* Versions only grow, and lines change only with them.
Later ==
  \A p \in Paths : /\ Version(p) <= Version(p)'
                   /\ Version(p)' = Version(p) => Content(p)' = Content(p)

LEMMA WriteKept ==
  ASSUME SourceInv, NEW p \in Paths, NEW lines, WriteFile(p, lines)
  PROVE  SourceInv' /\ Later
<1>1. /\ \A q \in Paths \ {p} : file'[q] = file[q]
      /\ file'[p] = [lines |-> lines, version |-> Version(p) + 1]
      /\ file' = [q \in Paths |-> file'[q]]
      /\ UNCHANGED <<live, receipt, load>>
  BY DEF SourceInv, Shape, WriteFile, Written, Version
<1>2. \A q \in Paths : Version(q) \in Nat
  BY DEF SourceInv, Shape, IsFile, Version
<1>3. Later
  BY <1>1, <1>2 DEF Later, Version, Content
<1>4. Shape'
  BY <1>1, <1>2 DEF SourceInv, Shape, IsFile, IsLoad
<1>5. ASSUME NEW l \in Loaders PROVE LoadIsHonest(l)'
  <2>1. LoadIsHonest(l) /\ IsLoad(load[l]) /\ load'[l] = load[l]
    BY <1>1 DEF SourceInv, Shape
  <2>2. load[l].path \in Paths /\ load[l].version \in Nat
    BY <2>1 DEF IsLoad, Paths
  <2>3. /\ Version(load[l].path) \in Nat /\ Version(load[l].path)' \in Nat
        /\ Version(load[l].path) <= Version(load[l].path)'
        /\ Version(load[l].path)' = Version(load[l].path) => Content(load[l].path)' = Content(load[l].path)
    <3>1. \A q \in Paths : Version(q)' \in Nat
      BY <1>4 DEF Shape, IsFile, Version
    <3>2. ASSUME NEW q \in Paths
          PROVE  /\ Version(q) \in Nat /\ file'[q].version \in Nat /\ Version(q) <= file'[q].version
                 /\ file'[q].version = Version(q) => file'[q].lines = Content(q)
      BY <1>2, <1>3, <3>1 DEF Later, Version, Content
    <3> QED BY <2>1, <2>2, <3>2 DEF Version, Content
  <2> QED BY <2>1, <2>2, <2>3 DEF LoadIsHonest
<1> QED BY <1>1, <1>3, <1>4, <1>5 DEF SourceInv, ReceiptIsHonest

LEMMA ReplaceKept ==
  ASSUME SourceInv, Replace
  PROVE  SourceInv'
<1>1. receipt' = [hash |-> receipt.hash, path |-> receipt.path, current |-> FALSE]
  BY DEF SourceInv, Shape, Replace
<1>2. Shape' /\ ReceiptIsHonest'
  BY <1>1 DEF SourceInv, Shape, ReceiptIsHonest, Replace, IsFile, IsLoad
<1>3. \A l \in Loaders : LoadIsHonest(l)'
  BY DEF SourceInv, Replace, LoadIsHonest, Version, Content
<1> QED BY <1>2, <1>3 DEF SourceInv

\* A load that goes on without touching the registry.
LEMMA GoesKept ==
  ASSUME SourceInv, NEW l \in Loaders, NEW t, Goes(l, t), IsLoad(t),
         t.at \in {"stamped", "hashed", "imported"} => t.version <= Version(t.path),
         t.at \in {"hashed", "imported"} /\ t.version = Version(t.path) => t.hash = Content(t.path),
         t.at = "imported" /\ t.version = Version(t.path) => t.code = Content(t.path)
  PROVE  SourceInv'
<1>1. /\ load' = [k \in Loaders |-> load'[k]]
      /\ load'[l] = t /\ \A k \in Loaders \ {l} : load'[k] = load[k]
      /\ UNCHANGED <<file, live, receipt, moved>>
  BY DEF SourceInv, Shape, Goes
<1>2. Shape'
  BY <1>1 DEF SourceInv, Shape, IsFile, IsLoad
<1>3. \A k \in Loaders : LoadIsHonest(k)'
  BY <1>1 DEF SourceInv, LoadIsHonest, Version, Content
<1> QED BY <1>1, <1>2, <1>3 DEF SourceInv, ReceiptIsHonest

LEMMA LoadEndsKept ==
  ASSUME SourceInv, NEW l \in Loaders, LoadEnds(l)
  PROVE  SourceInv'
<1>1. /\ load' = [k \in Loaders |-> load'[k]]
      /\ load'[l] = NoLoad /\ \A k \in Loaders \ {l} : load'[k] = load[k]
      /\ UNCHANGED file
  BY DEF SourceInv, Shape, LoadEnds
<1>4. IsLoad(NoLoad) /\ NoLoad.at = "idle"
  BY DEF IsLoad, NoLoad, Paths, Candidates
<1>5. (\A k \in Loaders : IsLoad(load[k]) /\ LoadIsHonest(k))'
  BY <1>1, <1>4 DEF SourceInv, Shape, LoadIsHonest, Version, Content
<1>2. CASE Unchanged(load[l])
  <2>1. load[l].code = load[l].hash /\ load[l].path \in Candidates
    BY <1>2 DEF SourceInv, Shape, IsLoad, LoadIsHonest, LoadEnds, At, Unchanged, Version, Paths
  <2>2. /\ live' = load[l].code
        /\ receipt' = [hash |-> load[l].hash, path |-> load[l].path, current |-> TRUE]
    BY <1>2 DEF LoadEnds
  <2> QED BY <1>1, <1>5, <2>1, <2>2 DEF SourceInv, Shape, ReceiptIsHonest, IsFile
<1>3. CASE ~Unchanged(load[l])
  <2>1. UNCHANGED <<live, receipt>>
    BY <1>3 DEF LoadEnds
  <2> QED BY <1>1, <1>5, <2>1 DEF SourceInv, Shape, ReceiptIsHonest, IsFile
<1> QED BY <1>2, <1>3

LEMMA LoadKept ==
  ASSUME SourceInv, NEW l \in Loaders, LoadBegins(l) \/ LoadStep(l)
  PROVE  SourceInv'
<1> DEFINE t == load[l]
<1>1. /\ IsLoad(t) /\ LoadIsHonest(l)
      /\ \A p \in Paths : Version(p) \in Nat
  BY DEF SourceInv, Shape, IsLoad, IsFile, Version
<1>2. IsLoad(NoLoad) /\ NoLoad.at = "idle"
  BY DEF IsLoad, NoLoad, Paths, Candidates
<1>3. CASE LoadBegins(l)
  <2> DEFINE u == [NoLoad EXCEPT !.at = "overlay"]
  <2>1. IsLoad(u) /\ u.at = "overlay"
    BY DEF IsLoad, NoLoad, Paths, Candidates
  <2> QED BY <1>3, <2>1, GoesKept DEF LoadBegins
<1>4. CASE Looks(l)
  <2>1. ASSUME NEW at \in {"found", "base"}, NEW p \in Candidates, Goes(l, [t EXCEPT !.at = at, !.path = p])
        PROVE  SourceInv'
    <3> DEFINE u == [t EXCEPT !.at = at, !.path = p]
    <3>2. IsLoad(u) /\ u.at = at
      BY <1>1, <2>1 DEF IsLoad
    <3> HIDE DEF u
    <3> QED BY <2>1, <3>2, GoesKept DEF u
  <2>2. CASE At(l, "overlay")
    BY <1>4, <2>1, <2>2 DEF Looks, Paths, Candidates, At
  <2>3. CASE At(l, "base") /\ Exists("src")
    <3> DEFINE u == [t EXCEPT !.at = "found"]
    <3>2. IsLoad(u) /\ u.at = "found"
      BY <1>1 DEF IsLoad
    <3>3. Goes(l, u)
      BY <1>4, <2>3 DEF Looks, At
    <3> HIDE DEF u
    <3> QED BY <3>2, <3>3, GoesKept
  <2>4. CASE At(l, "base") /\ ~Exists("src")
    BY <1>2, <1>4, <2>4, GoesKept DEF Looks, At
  <2> QED BY <1>4, <2>2, <2>3, <2>4 DEF Looks
<1>5. ASSUME Goes(l, NoLoad) PROVE SourceInv'
  BY <1>2, <1>5, GoesKept
<1>6. CASE Stamps(l)
  <2> DEFINE u == [t EXCEPT !.at = "stamped", !.version = file[t.path].version]
  <2>1. IsLoad(u) /\ u.at = "stamped" /\ u.version = Version(t.path) /\ u.path = t.path
    BY <1>1 DEF IsLoad, Version, Paths
  <2>2. IsLoad(u) /\ u.at = "stamped" /\ u.version <= Version(u.path)
    BY <1>1, <2>1 DEF IsLoad, Paths
  <2>3. Goes(l, u) \/ Goes(l, NoLoad)
    BY <1>6 DEF Stamps, Reads
  <2> HIDE DEF u
  <2> QED BY <1>5, <2>2, <2>3, GoesKept
<1>7. CASE Hashes(l)
  <2> DEFINE u == [t EXCEPT !.at = "hashed", !.hash = Content(t.path)]
  <2>1. /\ IsLoad(u) /\ u.at = "hashed" /\ u.path = t.path /\ u.version = t.version
        /\ u.hash = Content(t.path)
    BY <1>1 DEF IsLoad
  <2>2. t.at = "stamped"
    BY <1>7 DEF Hashes, Reads, At
  <2>3. u.version <= Version(u.path) /\ u.hash = Content(u.path)
    BY <1>1, <2>1, <2>2 DEF LoadIsHonest
  <2>4. Goes(l, u) \/ Goes(l, NoLoad)
    BY <1>7 DEF Hashes, Reads
  <2> HIDE DEF u
  <2> QED BY <1>5, <2>1, <2>3, <2>4, GoesKept
<1>8. CASE Imports(l)
  <2> DEFINE u == [t EXCEPT !.at = "imported", !.code = Content(t.path)]
  <2>1. /\ IsLoad(u) /\ u.at = "imported" /\ u.path = t.path /\ u.version = t.version
        /\ u.hash = t.hash /\ u.code = Content(t.path)
    BY <1>1 DEF IsLoad
  <2>2. t.at = "hashed"
    BY <1>8 DEF Imports, Reads, At
  <2>3. /\ u.version <= Version(u.path) /\ u.code = Content(u.path)
        /\ u.version = Version(u.path) => u.hash = Content(u.path)
    BY <1>1, <2>1, <2>2 DEF LoadIsHonest
  <2>4. Goes(l, u) \/ Goes(l, NoLoad)
    BY <1>8 DEF Imports, Reads
  <2> HIDE DEF u
  <2> QED BY <1>5, <2>1, <2>3, <2>4, GoesKept
<1>9. CASE ImportFails(l)
  BY <1>5, <1>9 DEF ImportFails
<1> QED BY <1>3, <1>4, <1>6, <1>7, <1>8, <1>9, LoadEndsKept DEF LoadStep

-----------------------------------------------------------------------------
(***************************************************************************)
(* Descriptions.                                                           *)
(***************************************************************************)

Says(says) ==
  /\ says = [observed |-> says.observed, hash |-> says.hash, path |-> says.path,
             current |-> says.current, candidates |-> says.candidates, text |-> says.text]
  /\ says.observed \in BOOLEAN /\ says.path \in Candidates
  /\ says.candidates = [p \in Candidates |-> says.candidates[p]]
Telling(t) ==
  /\ t = [at |-> t.at, attempt |-> t.attempt, seen |-> t.seen, stamps |-> t.stamps,
          stamp |-> t.stamp, again |-> t.again, says |-> t.says]
  /\ t.seen \subseteq Candidates /\ t.stamps \in [Paths -> Nat]
  /\ Says(t.says)

Finishing == telling.at \in {"reconciling", "rescanning", "checking"}
Read      == telling.at \in {"composing", "refreshing"} \/ Finishing
Resolved  == telling.at \in {"hashing", "rehashing"} \/ Read
Described == telling.at \in {"described", "surveying", "surveyed"} \/ Resolved

\* While a file has the version of the snapshot, it has the lines said of it.
Holds(p, lines) == telling.stamps[p] = Version(p) => Content(p) = lines

StampsArePast == \A p \in Watched : telling.stamps[p] <= Version(p)

\* What an observed description relies on: the function is the one of its hash
\* until it moves, the file has its lines as long as it has its version.
SourceIsHonest(says) ==
  /\ Resolved /\ says.observed => says.path \in telling.seen /\ (~moved => live = says.hash)
  /\ Read /\ says.observed => Holds(says.path, says.current)
CandidatesAreHonest(says) ==
  \A p \in Candidates : says.candidates[p] # Gone => p \in telling.seen /\ Holds(p, says.candidates[p])
TextIsHonest(says) ==
  /\ says.text # Gone => Holds("prompt", says.text)
  /\ Finishing /\ says.text # Gone => says.observed /\ says.hash = Shipped

DescriptionInv ==
  /\ Telling(telling) /\ moved \in BOOLEAN
  /\ telling.at \in {"scanning", "scanned"} => telling.says = NothingTold
  /\ Described => /\ StampsArePast
                  /\ SourceIsHonest(telling.says)
                  /\ CandidatesAreHonest(telling.says)
                  /\ TextIsHonest(telling.says)

LEMMA NothingToldShape ==
  /\ Says(NothingTold) /\ ~NothingTold.observed /\ NothingTold.text = Gone
  /\ \A p \in Candidates : NothingTold.candidates[p] = Gone
BY DEF Says, NothingTold, Candidates

LEMMA NotAskedShape ==
  /\ Telling(NotAsked) /\ NotAsked.says = NothingTold /\ NotAsked.at = "idle"
BY NothingToldShape DEF Telling, NotAsked, Paths, Candidates

\* The files a snapshot watches are files.
LEMMA WatchedFiles ==
  ASSUME Telling(telling)
  PROVE  Watched \subseteq Paths /\ \A p \in Watched : telling.stamps[p] \in Nat
BY DEF Telling, Watched, Paths

LEMMA WriteKeepsDescription ==
  ASSUME SourceInv, DescriptionInv, NEW p \in Paths, NEW lines, WriteFile(p, lines),
         UNCHANGED telling
  PROVE  DescriptionInv'
<1>1. Later /\ UNCHANGED <<live, moved>>
  BY WriteKept DEF WriteFile
<1>2. \A q \in Paths : Version(q) \in Nat /\ Version(q)' \in Nat
  <2>1. SourceInv'
    BY WriteKept
  <2> QED BY <2>1 DEF SourceInv, Shape, IsFile, Version
<1>3. Watched \subseteq Paths /\ Watched' = Watched /\ \A q \in Watched : telling.stamps[q] \in Nat
  BY WatchedFiles DEF DescriptionInv, Watched
<1>4. ASSUME Described, NEW q \in Watched
      PROVE  /\ telling.stamps[q] <= Version(q)'
             /\ \A l : Holds(q, l) => Holds(q, l)'
  <2>1. telling.stamps[q] <= Version(q)
    BY <1>4 DEF DescriptionInv, StampsArePast
  <2>2. /\ Version(q) \in Nat /\ Version(q)' \in Nat /\ telling.stamps[q] \in Nat
        /\ Version(q) <= Version(q)'
        /\ Version(q)' = Version(q) => Content(q)' = Content(q)
    BY <1>1, <1>2, <1>3, <1>4 DEF Later
  <2> QED BY <2>1, <2>2 DEF Holds
<1>5. /\ (Described' <=> Described) /\ (Resolved' <=> Resolved)
      /\ (Read' <=> Read) /\ (Finishing' <=> Finishing)
  BY DEF Described, Resolved, Read, Finishing
<1>6. telling.seen \subseteq Watched /\ "prompt" \in Watched
  BY DEF Watched
<1>7. ASSUME Described
      PROVE  /\ StampsArePast' /\ SourceIsHonest(telling.says)'
             /\ CandidatesAreHonest(telling.says)' /\ TextIsHonest(telling.says)'
  <2>1. StampsArePast'
    BY <1>3, <1>4, <1>7 DEF StampsArePast
  <2>2. SourceIsHonest(telling.says)'
    <3>1. SourceIsHonest(telling.says)
      BY <1>7 DEF DescriptionInv
    <3>2. Read => Resolved
      BY DEF Resolved
    <3> QED BY <1>1, <1>4, <1>5, <1>6, <1>7, <3>1, <3>2 DEF SourceIsHonest
  <2>3. CandidatesAreHonest(telling.says)'
    <3>1. CandidatesAreHonest(telling.says)
      BY <1>7 DEF DescriptionInv
    <3> QED BY <1>4, <1>6, <1>7, <3>1 DEF CandidatesAreHonest
  <2>4. TextIsHonest(telling.says)'
    <3>1. TextIsHonest(telling.says)
      BY <1>7 DEF DescriptionInv
    <3> QED BY <1>4, <1>5, <1>6, <1>7, <3>1 DEF TextIsHonest
  <2> QED BY <2>1, <2>2, <2>3, <2>4
<1>8. Telling(telling)' /\ moved' \in BOOLEAN
      /\ (telling'.at \in {"scanning", "scanned"} => telling'.says = NothingTold')
  BY <1>1 DEF DescriptionInv, Telling, Says, NothingTold
<1> QED BY <1>5, <1>7, <1>8 DEF DescriptionInv

\* A registry that moves is not vouched for by what was resolved before.
LEMMA RegistryKeepsDescription ==
  ASSUME DescriptionInv, UNCHANGED <<file, telling>>, moved' \in BOOLEAN,
         moved' \/ UNCHANGED <<live, moved>>
  PROVE  DescriptionInv'
<1>1. /\ (Described' <=> Described) /\ (Resolved' <=> Resolved)
      /\ (Read' <=> Read) /\ (Finishing' <=> Finishing)
      /\ Telling(telling') /\ \A p, lines : Holds(p, lines)' <=> Holds(p, lines)
  BY DEF DescriptionInv, Described, Resolved, Read, Finishing, Holds, Version, Content
<1>2. ASSUME Described
      PROVE  StampsArePast' /\ SourceIsHonest(telling.says)' /\ CandidatesAreHonest(telling.says)'
             /\ TextIsHonest(telling.says)'
  BY <1>1, <1>2 DEF DescriptionInv, StampsArePast, SourceIsHonest, CandidatesAreHonest,
     TextIsHonest, Watched, Version
<1> QED BY <1>1, <1>2 DEF DescriptionInv

\* A description that goes on and says something else.
LEMMA TellsKept ==
  ASSUME DescriptionInv, Described,
         NEW at, NEW says, NEW stamp, Says(says),
         at \notin {"scanning", "scanned"},
         telling' = [telling EXCEPT !.at = at, !.stamp = stamp, !.says = says],
         UNCHANGED file, moved' \in BOOLEAN,
         SourceIsHonest(telling.says)', CandidatesAreHonest(says), TextIsHonest(telling.says)'
  PROVE  DescriptionInv'
<1>1. /\ telling'.at = at /\ telling'.says = says /\ Telling(telling')
      /\ telling'.seen = telling.seen /\ telling'.stamps = telling.stamps
  BY DEF DescriptionInv, Telling
<1>2. StampsArePast'
  BY <1>1 DEF DescriptionInv, StampsArePast, Watched, Version
<1>3. CandidatesAreHonest(says)'
  BY <1>1 DEF CandidatesAreHonest, Holds, Version, Content
<1> QED BY <1>1, <1>2, <1>3 DEF DescriptionInv

\* What a description says of the procedure when nothing supports it, and when
\* its layers are left out.
LEMMA UnsupportedShape ==
  ASSUME NEW says, Says(says)
  PROVE  /\ Says(Unsupported(says)) /\ ~Unsupported(says).observed
         /\ Unsupported(says).candidates = says.candidates
         /\ Unsupported(says).text = says.text
BY DEF Says, Unsupported, Resolution, Candidates

LEMMA VouchedShape ==
  ASSUME NEW says, Says(says)
  PROVE  /\ Says(Vouched(says)) /\ Vouched(says).observed = says.observed
         /\ Vouched(says).hash = says.hash /\ Vouched(says).path = says.path
         /\ Vouched(says).current = says.current
         /\ Vouched(says).candidates = says.candidates
         /\ Vouched(says).text \in {says.text, Gone}
         /\ Vouched(says).text # Gone => says.observed /\ says.hash = Shipped
<1>1. CASE IsFreshBase(says)
  BY <1>1 DEF Vouched, IsFreshBase
<1>2. CASE ~IsFreshBase(says)
  BY <1>2 DEF Vouched, Says
<1> QED BY <1>1, <1>2

LEMMA DescribeKept ==
  ASSUME ~Wrapped, SourceInv, DescriptionInv, DescribeStep
  PROVE  /\ SourceInv' /\ DescriptionInv'
         /\ Returns => IsTrue(telling'.says)
<1> DEFINE t == telling
<1>1. /\ Telling(t) /\ Says(t.says) /\ moved \in BOOLEAN
      /\ t.seen \subseteq Candidates /\ t.stamps \in [Paths -> Nat]
  BY DEF DescriptionInv, Telling
<1>2. \A p \in Paths : Version(p) \in Nat
  BY DEF SourceInv, Shape, IsFile, Version
<1>3. UNCHANGED <<file, live, receipt, load>> /\ SourceInv'
  <2>1. UNCHANGED <<file, live, receipt, load>>
    BY DEF DescribeStep, DescribeBegins, Scans, Snapshots, Surveys, SurveyOf, Resolves, HashedNow,
           Composes, Reconciles, Rescans, Checks, Sends, Tells
  <2> QED BY <2>1 DEF SourceInv, Shape, IsFile, IsLoad, LoadIsHonest, ReceiptIsHonest,
             Version, Content
<1>4. (Replaced <=> moved)
  BY DEF Replaced
<1>5. ASSUME NEW at, at \in {"scanning", "scanned", "told", "idle"}, telling'.at = at,
             at \in {"scanning", "scanned"} => telling'.says = NothingTold,
             Telling(telling'), moved' \in BOOLEAN
      PROVE  DescriptionInv'
  <2>1. ~Described'
    BY <1>5 DEF Described, Resolved, Read, Finishing
  <2>2. NothingTold' = NothingTold
    BY DEF NothingTold
  <2> QED BY <1>5, <2>1, <2>2 DEF DescriptionInv
<1>6. CASE DescribeBegins
  <2>1. telling'.at = "scanning" /\ Telling(telling') /\ telling'.says = NothingTold
    BY <1>6, NotAskedShape DEF DescribeBegins, Tells, NotAsked, Telling, Paths, Candidates
  <2> QED BY <1>1, <1>3, <1>5, <1>6, <2>1 DEF DescribeBegins, Keeps, Returns
<1>7. CASE Scans
  <2>1. telling'.at = "scanned" /\ Telling(telling') /\ telling'.says = t.says
    BY <1>1, <1>7 DEF Scans, Tells, Telling, Present
  <2>2. t.says = NothingTold
    BY <1>7 DEF Scans, DescriptionInv
  <2> QED BY <1>1, <1>3, <1>5, <1>7, <2>1, <2>2 DEF Scans, Keeps, Returns
<1>8. CASE Snapshots
  <2>0. Watched \subseteq Paths
    BY <1>1, WatchedFiles
  <2>1. StampsNow \in [Paths -> Nat] /\ \A p \in Watched : StampsNow[p] = Version(p)
    BY <1>2, <2>0 DEF StampsNow, Version
  <2>2. /\ telling'.at = "described" /\ Telling(telling') /\ telling'.says = t.says
        /\ telling'.seen = t.seen /\ telling'.stamps = StampsNow /\ moved' = FALSE
    BY <1>1, <1>8, <2>1 DEF Snapshots, Tells, Telling
  <2>3. t.says = NothingTold
    BY <1>8 DEF Snapshots, DescriptionInv
  <2>4. StampsArePast'
    BY <1>2, <1>3, <2>0, <2>1, <2>2 DEF StampsArePast, Watched, Version
  <2>5. ~Resolved' /\ ~Read' /\ ~Finishing'
    BY <2>2 DEF Resolved, Read, Finishing
  <2>6. telling'.says = NothingTold
    BY <2>2, <2>3
  <2>7. /\ SourceIsHonest(telling.says)' /\ CandidatesAreHonest(telling.says)'
        /\ TextIsHonest(telling.says)'
    BY <2>5, <2>6, NothingToldShape DEF SourceIsHonest, CandidatesAreHonest, TextIsHonest, Gone
  <2>8. DescriptionInv'
    BY <2>2, <2>4, <2>7 DEF DescriptionInv
  <2> QED BY <1>3, <2>2, <2>8 DEF Returns
<1>9. ASSUME Described
      PROVE  /\ SourceIsHonest(t.says) /\ CandidatesAreHonest(t.says) /\ TextIsHonest(t.says)
             /\ StampsArePast
  BY <1>9 DEF DescriptionInv
<1>11. CASE Surveys
  <2> SUFFICES ASSUME NEW p \in Candidates, NEW from, NEW to, SurveyOf(p, from, to),
                      from \in {"described", "surveying"}, to \in {"surveying", "surveyed"}
               PROVE  DescriptionInv' /\ ~Returns
    BY <1>3, <1>11 DEF Surveys, Candidates
  <2> DEFINE hash == IF p \in t.seen THEN Content(p) ELSE Gone
             s == [t.says EXCEPT !.candidates = [t.says.candidates EXCEPT ![p] = hash]]
  <2>1. /\ Says(s) /\ s.text = t.says.text
        /\ s.candidates[p] = hash /\ \A q \in Candidates \ {p} : s.candidates[q] = t.says.candidates[q]
    BY <1>1 DEF Says
  <2>2. /\ telling' = [telling EXCEPT !.at = to, !.says = s]
        /\ UNCHANGED moved
    BY DEF SurveyOf, Tells, Keeps
  <2> HIDE DEF s
  <2>3. telling' = [telling EXCEPT !.at = to, !.stamp = t.stamp, !.says = s] /\ telling'.at = to
        /\ telling'.stamps = t.stamps /\ telling'.says = s
    BY <1>1, <2>2 DEF Telling
  <2>4. Described
    BY DEF SurveyOf, Described
  <2>5. ~Resolved' /\ ~Read' /\ ~Finishing'
    BY <2>3 DEF Resolved, Read, Finishing
  <2>6. CandidatesAreHonest(s)
    BY <1>9, <2>1, <2>4 DEF CandidatesAreHonest, Holds, Version, Content
  <2>7. TextIsHonest(telling.says)' /\ SourceIsHonest(telling.says)'
    <3>1. TextIsHonest(t.says)
      BY <1>9, <2>4
    <3> QED BY <1>3, <2>1, <2>3, <2>5, <3>1 DEF TextIsHonest, SourceIsHonest, Holds, Version, Content, Gone
  <2>8. moved' \in BOOLEAN /\ to \notin {"scanning", "scanned"}
    BY <1>1, <2>2
  <2>9. Says(s)
    BY <2>1
  <2>10. DescriptionInv'
    BY <1>3, <2>3, <2>4, <2>6, <2>7, <2>8, <2>9, TellsKept
  <2> QED BY <2>3, <2>10 DEF Returns
<1>12. CASE Resolves
  <2>0. Described /\ UNCHANGED moved
    BY <1>12 DEF Resolves, Described, Resolved, Read, Keeps
  <2>1. CASE Supported
    <3> DEFINE s == ByReceipt(t.says)
               at == IF t.at = "surveyed" THEN "hashing" ELSE "rehashing"
    <3>1. /\ Says(s) /\ s.observed /\ s.hash = receipt.hash /\ s.path = receipt.path
          /\ s.candidates = t.says.candidates /\ s.text = t.says.text
      <4>1. s = [observed |-> TRUE, hash |-> receipt.hash, path |-> receipt.path,
                 current |-> Gone, candidates |-> t.says.candidates, text |-> t.says.text]
        BY DEF ByReceipt, Resolution
      <4>2. receipt.path \in Candidates
        BY DEF SourceInv, Shape
      <4> HIDE DEF s
      <4> QED BY <1>1, <4>1, <4>2 DEF Says
    <3>2. telling' = [telling EXCEPT !.at = at, !.stamp = file[receipt.path].version, !.says = s]
      BY <1>12, <2>1 DEF Resolves, Tells
    <3> HIDE DEF s, at
    <3>3. at \in {"hashing", "rehashing"}
      BY DEF at
    <3>4. /\ telling'.at = at /\ telling'.seen = t.seen /\ telling'.stamps = t.stamps
          /\ telling'.says = s
      BY <1>1, <3>2 DEF Telling
    <3>5. receipt.path \in t.seen /\ live = receipt.hash
      BY <2>1 DEF Supported, SourceInv, ReceiptIsHonest
    <3>6. ~Read' /\ ~Finishing'
      BY <3>3, <3>4 DEF Read, Finishing
    <3>7. SourceIsHonest(telling.says)'
      BY <1>3, <3>1, <3>4, <3>5, <3>6 DEF SourceIsHonest
    <3>8. CandidatesAreHonest(s) /\ TextIsHonest(telling.says)'
      BY <1>3, <1>9, <2>0, <3>1, <3>4, <3>6 DEF CandidatesAreHonest, TextIsHonest, Holds, Version, Content, Gone
    <3>9. DescriptionInv'
      BY <1>1, <1>3, <2>0, <3>1, <3>2, <3>3, <3>7, <3>8, TellsKept
    <3> QED BY <1>3, <3>3, <3>4, <3>9 DEF Returns
  <2>2. CASE ~Supported
    <3> DEFINE u == Unsupported(t.says)
               s == Vouched(u)
               at == IF t.at = "surveyed" THEN "composing" ELSE "reconciling"
    <3>1. /\ Says(s) /\ ~s.observed /\ s.candidates = t.says.candidates /\ s.text = Gone
      <4>1. Says(u) /\ ~u.observed /\ u.candidates = t.says.candidates
        BY <1>1, UnsupportedShape
      <4> HIDE DEF u
      <4> QED BY <4>1, VouchedShape
    <3>2. telling' = [telling EXCEPT !.at = at, !.says = s]
      BY <1>12, <2>2 DEF Resolves, Tells
    <3> HIDE DEF s, at
    <3>3. at \in {"composing", "reconciling"}
      BY DEF at
    <3>4. telling'.at = at /\ telling'.stamps = t.stamps /\ telling'.says = s
          /\ telling' = [telling EXCEPT !.at = at, !.stamp = t.stamp, !.says = s]
      BY <1>1, <3>2 DEF Telling
    <3>5. SourceIsHonest(telling.says)' /\ CandidatesAreHonest(s) /\ TextIsHonest(telling.says)'
      BY <1>9, <2>0, <3>1, <3>4 DEF SourceIsHonest, CandidatesAreHonest, TextIsHonest
    <3>6. DescriptionInv'
      <4>1. moved' \in BOOLEAN /\ at \notin {"scanning", "scanned"} /\ Says(s)
        BY <1>1, <2>0, <3>1, <3>3
      <4>2. telling' = [telling EXCEPT !.at = at, !.stamp = t.stamp, !.says = s]
        BY <3>4
      <4> QED BY <1>3, <2>0, <3>5, <4>1, <4>2, TellsKept
    <3> QED BY <1>3, <3>3, <3>4, <3>6 DEF Returns
  <2> QED BY <2>1, <2>2
<1>13. CASE HashedNow
  <2> DEFINE h == Hashed(t.says)
             s == Vouched(h)
             at == IF t.at = "hashing" THEN "composing" ELSE "reconciling"
  <2>0. Described /\ Resolved /\ UNCHANGED moved
    BY <1>13 DEF HashedNow, Described, Resolved, Keeps
  <2>1. /\ Says(h) /\ h.candidates = t.says.candidates /\ h.text = t.says.text
        /\ h.observed => /\ t.says.observed /\ h.hash = t.says.hash /\ h.path = t.says.path
                         /\ h.current = Content(h.path)
    <3>1. CASE h = Unsupported(t.says)
      <4> HIDE DEF h
      <4> QED BY <1>1, <3>1, UnsupportedShape
    <3>2. CASE h = [t.says EXCEPT !.current = Content(t.says.path)]
      <4> HIDE DEF h
      <4> QED BY <1>1, <3>2 DEF Says
    <3> QED BY <3>1, <3>2 DEF Hashed
  <2>2. telling' = [telling EXCEPT !.at = at, !.stamp = 0, !.says = s]
    BY <1>13 DEF HashedNow, Tells
  <2> HIDE DEF h
  <2>3. /\ Says(s) /\ s.observed = h.observed /\ s.hash = h.hash /\ s.path = h.path
        /\ s.current = h.current /\ s.candidates = t.says.candidates
        /\ s.text \in {t.says.text, Gone}
        /\ s.text # Gone => s.observed /\ s.hash = Shipped
    BY <2>1, VouchedShape
  <2> HIDE DEF s, at
  <2>4. at \in {"composing", "reconciling"}
    BY DEF at
  <2>5. /\ telling'.at = at /\ telling'.seen = t.seen /\ telling'.stamps = t.stamps
        /\ telling'.says = s
    BY <1>1, <2>2 DEF Telling
  <2>6. SourceIsHonest(telling.says)'
    <3>1. h.observed => /\ t.says.path \in t.seen /\ (~moved => live = t.says.hash)
                        /\ h.current = Content(h.path)
      BY <1>9, <2>0, <2>1 DEF SourceIsHonest
    <3>2. s.observed => /\ s.path \in t.seen /\ (~moved => live = s.hash)
                        /\ s.current = Content(s.path)
      BY <2>1, <2>3, <3>1
    <3> QED BY <1>3, <2>0, <2>5, <3>2 DEF SourceIsHonest, Holds, Content
  <2>7. CandidatesAreHonest(s) /\ TextIsHonest(telling.says)'
    BY <1>3, <1>9, <2>0, <2>3, <2>5 DEF CandidatesAreHonest, TextIsHonest, Holds, Version, Content, Gone
  <2>8. DescriptionInv'
    BY <1>1, <1>3, <2>0, <2>2, <2>3, <2>4, <2>6, <2>7, TellsKept
  <2> QED BY <1>3, <2>4, <2>5, <2>8 DEF Returns
<1>14. CASE Composes
  <2> DEFINE text == IF IsFreshBase(t.says) THEN Content("prompt") ELSE Gone
             s == [t.says EXCEPT !.text = text]
  <2>0. Described /\ Resolved /\ Read /\ UNCHANGED moved
    BY <1>14 DEF Composes, Described, Resolved, Read, Keeps
  <2>1. /\ Says(s) /\ s.text = text /\ s.candidates = t.says.candidates
        /\ s.observed = t.says.observed /\ s.hash = t.says.hash /\ s.path = t.says.path
        /\ s.current = t.says.current
    BY <1>1 DEF Says
  <2>2. telling' = [telling EXCEPT !.at = "refreshing", !.says = s]
    BY <1>14 DEF Composes, Tells
  <2> HIDE DEF s
  <2>3. telling' = [telling EXCEPT !.at = "refreshing", !.stamp = t.stamp, !.says = s]
        /\ telling'.at = "refreshing" /\ telling'.seen = t.seen
        /\ telling'.stamps = t.stamps /\ telling'.says = s
    BY <1>1, <2>2 DEF Telling
  <2>4. ~Finishing'
    BY <2>3 DEF Finishing
  <2>5. SourceIsHonest(telling.says)' /\ CandidatesAreHonest(s) /\ TextIsHonest(telling.says)'
    BY <1>3, <1>9, <2>0, <2>1, <2>3, <2>4 DEF SourceIsHonest, CandidatesAreHonest,
       TextIsHonest, Holds, Version, Content
  <2>6. DescriptionInv'
    BY <1>1, <1>3, <2>0, <2>1, <2>3, <2>5, TellsKept
  <2> QED BY <1>3, <2>3, <2>6 DEF Returns
<1>15. CASE Reconciles
  <2> DEFINE u == Unsupported(t.says)
             s == IF moved THEN Vouched(u) ELSE t.says
  <2>0. Described /\ Resolved /\ Read /\ Finishing
    BY <1>15 DEF Reconciles, Described, Resolved, Read, Finishing
  <2>2. /\ Says(s) /\ s.candidates = t.says.candidates
        /\ s.observed => ~moved /\ s = t.says
        /\ s.text # Gone => ~moved /\ s = t.says
    <3>1. CASE moved
      <4>1. Says(u) /\ ~u.observed /\ u.candidates = t.says.candidates
        BY <1>1, UnsupportedShape
      <4> HIDE DEF u
      <4> QED BY <3>1, <4>1, VouchedShape
    <3>2. CASE ~moved
      BY <1>1, <3>2
    <3> QED BY <3>1, <3>2
  <2>3. telling' = [telling EXCEPT !.at = "rescanning", !.says = s] /\ moved' = FALSE
    <3>1. CASE moved
      BY <1>4, <1>15, <3>1 DEF Reconciles, Tells
    <3>2. CASE ~moved
      <4>1. telling' = [telling EXCEPT !.at = "rescanning", !.says = t.says] /\ moved' = FALSE
        BY <1>4, <1>15, <3>2 DEF Reconciles, Tells
      <4> QED BY <3>2, <4>1
    <3> QED BY <3>1, <3>2
  <2> HIDE DEF s
  <2>4. telling' = [telling EXCEPT !.at = "rescanning", !.stamp = t.stamp, !.says = s]
        /\ telling'.at = "rescanning" /\ telling'.seen = t.seen
        /\ telling'.stamps = t.stamps /\ telling'.says = s
    BY <1>1, <2>3 DEF Telling
  <2>5. SourceIsHonest(telling.says)'
    BY <1>3, <1>9, <2>0, <2>2, <2>4 DEF SourceIsHonest, Holds, Version, Content
  <2>6. CandidatesAreHonest(s) /\ TextIsHonest(telling.says)'
    BY <1>3, <1>9, <2>0, <2>2, <2>4 DEF CandidatesAreHonest, TextIsHonest, Holds, Version, Content, Gone
  <2>7. DescriptionInv'
    <3>1. moved' \in BOOLEAN /\ Says(s) /\ "rescanning" \notin {"scanning", "scanned"}
      BY <2>2, <2>3
    <3>2. telling' = [telling EXCEPT !.at = "rescanning", !.stamp = t.stamp, !.says = s]
      BY <2>4
    <3>3. UNCHANGED file
      BY <1>3
    <3> HIDE DEF t
    <3> QED BY <2>0, <2>5, <2>6, <3>1, <3>2, <3>3, TellsKept
  <2> QED BY <1>3, <2>4, <2>7 DEF Returns
<1>16. CASE Rescans
  <2>0. Described /\ Resolved /\ Read /\ Finishing /\ UNCHANGED moved
    BY <1>16 DEF Rescans, Described, Resolved, Read, Finishing, Keeps
  <2>1. /\ telling'.at = "checking" /\ telling'.says = t.says /\ Telling(telling')
        /\ telling'.seen = t.seen /\ telling'.stamps = t.stamps
    BY <1>1, <1>16 DEF Rescans, Tells, Telling
  <2>2. /\ SourceIsHonest(t.says) /\ CandidatesAreHonest(t.says) /\ TextIsHonest(t.says)
        /\ StampsArePast
    BY <1>9, <2>0
  <2>3. Described' /\ Resolved' /\ Read' /\ Finishing'
    BY <2>1 DEF Described, Resolved, Read, Finishing
  <2>4. StampsArePast' /\ SourceIsHonest(telling.says)' /\ CandidatesAreHonest(telling.says)'
        /\ TextIsHonest(telling.says)'
    BY <1>3, <2>0, <2>1, <2>2, <2>3 DEF StampsArePast, SourceIsHonest, CandidatesAreHonest,
       TextIsHonest, Holds, Watched, Version, Content, Gone
  <2> QED BY <1>1, <1>3, <2>0, <2>1, <2>3, <2>4 DEF DescriptionInv, Returns
<1>17. CASE Checks
  <2>0. Described /\ Resolved /\ Read /\ Finishing /\ UNCHANGED moved
    BY <1>17 DEF Checks, Described, Resolved, Read, Finishing, Keeps
  <2>1. CASE StoodStill
    <3>1. telling'.at = "told" /\ Telling(telling') /\ telling'.says = t.says
      BY <1>1, <1>17, <2>1, NotAskedShape DEF Checks, Tells, Telling, NotAsked, Paths, Candidates
    <3>2. ~moved /\ \A p \in Watched : t.stamps[p] = Version(p)
      <4>1. Watched \subseteq Paths
        BY <1>1, WatchedFiles
      <4> QED BY <1>4, <2>1, <4>1 DEF StoodStill, StampsNow, Version
    <3>3. t.seen \subseteq Watched /\ "prompt" \in Watched
      BY DEF Watched
    <3>4. IsTrue(t.says)
      BY <1>9, <2>0, <3>2, <3>3 DEF IsTrue, SourceIsHonest, CandidatesAreHonest, TextIsHonest, Holds, Version, Content
    <3>5. IsTrue(telling'.says)
      BY <3>1, <3>4
    <3> QED BY <1>1, <1>3, <1>5, <2>0, <3>1, <3>5
  <2>2. CASE ~StoodStill
    <3>1. telling'.at \in {"scanning", "told"} /\ Telling(telling') /\ telling'.says = NothingTold
      BY <1>17, <2>2, NotAskedShape DEF Checks, Tells, Telling, NotAsked, Invalidated, Paths, Candidates
    <3>2. IsTrue(telling'.says)
      BY <3>1, NothingToldShape DEF IsTrue
    <3> QED BY <1>1, <1>3, <1>5, <2>0, <3>1, <3>2
  <2> QED BY <2>1, <2>2
<1>18. CASE Sends
  <2>1. telling'.at = "idle" /\ Telling(telling')
    BY <1>18, NotAskedShape DEF Sends, Tells
  <2> QED BY <1>1, <1>3, <1>5, <1>18, <2>1 DEF Sends, Keeps, Returns
<1> QED BY <1>6, <1>7, <1>8, <1>11, <1>12, <1>13, <1>14, <1>15, <1>16, <1>17, <1>18 DEF DescribeStep

-----------------------------------------------------------------------------
(***************************************************************************)
(* The whole.                                                              *)
(***************************************************************************)

\* What a step does to the sources and to the description under way.
SourceStep ==
  \/ UNCHANGED telling /\ \E p \in Paths : \E lines : WriteFile(p, lines)
  \/ UNCHANGED telling /\ Replace
  \/ UNCHANGED telling /\ \E l \in Loaders : LoadBegins(l) \/ LoadStep(l)
  \/ DescribeStep
  \/ UNCHANGED <<sourceVars, telling>>

LEMMA SourceSteps == [Next]_vars => SourceStep
<1> SUFFICES ASSUME [Next]_vars PROVE SourceStep
  OBVIOUS
<1> USE DEF SourceStep
<1>1. CASE Asks \/ Asking \/ Answer \/ Breaks
  BY <1>1 DEF Asks, Asking, Answer, Breaks
<1>2. CASE RunsCommand \/ CommandEnds \/ ProcessStep
  BY <1>2 DEF RunsCommand, CommandEnds, ProcessStep
<1>3. CASE ReadsLines \/ Patch \/ PatchFails \/ Reloaded \/ Stop
  BY <1>3 DEF ReadsLines, Patch, PatchFails, Reloaded, Stop
<1>4. CASE PatchWrites \/ Saved
  BY <1>4 DEF PatchWrites, Saved, Paths, Candidates
<1>5. CASE Reloads
  BY <1>5, WorkspaceAssumption DEF Reloads
<1>6. CASE Evaluates
  BY <1>6 DEF Evaluates
<1>7. CASE OtherLoads \/ \E l \in Loaders : Loading(l)
  BY <1>7 DEF OtherLoads, Loading
<1>8. CASE Describing
  BY <1>8 DEF Describing
<1>9. CASE UNCHANGED vars
  BY <1>9 DEF vars
<1> QED BY <1>1, <1>2, <1>3, <1>4, <1>5, <1>6, <1>7, <1>8, <1>9 DEF Next

Inv == SourceInv /\ DescriptionInv

LEMMA InvHolds == Init => Inv
<1> SUFFICES ASSUME Init PROVE Inv
  OBVIOUS
<1>1. Shape
  BY DEF Init, SourcesInit, Shape, IsFile, IsLoad, NoLoad, Paths, Candidates
<1>2. ReceiptIsHonest /\ \A l \in Loaders : LoadIsHonest(l)
  BY DEF Init, SourcesInit, ReceiptIsHonest, LoadIsHonest, NoLoad
<1>3. DescriptionInv
  <2>1. telling = NotAsked /\ moved = FALSE /\ NotAsked.at = "idle"
    BY DEF Init, DescriptionInit, SourcesInit, NotAsked
  <2>2. ~Described
    BY <2>1 DEF Described, Resolved, Read, Finishing
  <2> QED BY <2>1, <2>2, NotAskedShape DEF DescriptionInv
<1> QED BY <1>1, <1>2, <1>3 DEF Inv, SourceInv

LEMMA InvKept ==
  ASSUME ~Wrapped, Inv, SourceStep
  PROVE  Inv' /\ (Returns => IsTrue(telling'.says))
<1> USE DEF Inv
<1>1. ASSUME UNCHANGED telling PROVE ~Returns
  BY <1>1 DEF Returns
<1>2. ASSUME NEW p \in Paths, NEW lines, WriteFile(p, lines), UNCHANGED telling
      PROVE  Inv' /\ ~Returns
  BY <1>1, <1>2, WriteKept, WriteKeepsDescription
<1>3. CASE UNCHANGED telling /\ Replace
  <2>1. moved' = TRUE /\ UNCHANGED file
    BY <1>3 DEF Replace
  <2> QED BY <1>1, <1>3, <2>1, ReplaceKept, RegistryKeepsDescription
<1>4. ASSUME UNCHANGED telling, NEW l \in Loaders, LoadBegins(l) \/ LoadStep(l)
      PROVE  Inv' /\ ~Returns
  <2>1. UNCHANGED file /\ (moved' = TRUE \/ UNCHANGED <<live, moved>>)
    BY <1>4 DEF LoadBegins, LoadStep, Looks, Stamps, Hashes, Imports, ImportFails, LoadEnds,
                Reads, Goes
  <2>2. moved' \in BOOLEAN
    BY <2>1 DEF DescriptionInv
  <2> QED BY <1>1, <1>4, <2>1, <2>2, LoadKept, RegistryKeepsDescription
<1>5. CASE DescribeStep
  BY <1>5, DescribeKept
<1>6. CASE UNCHANGED <<sourceVars, telling>>
  <2>1. UNCHANGED <<file, live, receipt, load, moved, telling>>
    BY <1>6 DEF sourceVars
  <2>2. SourceInv'
    BY <2>1 DEF SourceInv, Shape, ReceiptIsHonest, LoadIsHonest, IsFile, IsLoad, Version, Content
  <2>3. moved' \in BOOLEAN
    BY <2>1 DEF DescriptionInv
  <2> QED BY <1>1, <2>1, <2>2, <2>3, RegistryKeepsDescription
<1> QED BY <1>2, <1>3, <1>4, <1>5, <1>6 DEF SourceStep

\* A description that is returned is true of the function that is live and of
\* the bytes its file has, for any number of writes, loads and replacements
\* beside it, as long as the procedure is not one trackAgentRuns wraps.
THEOREM DescriptionIsTrue ==
  ASSUME ~Wrapped
  PROVE  Spec => DescribedIsTrue
<1>1. Inv /\ [Next]_vars => Inv' /\ (Returns => IsTrue(telling'.says))
  BY SourceSteps, InvKept
<1>2. Inv /\ [Next]_vars => [Returns => IsTrue(telling'.says)]_vars
  BY <1>1
<1> QED BY InvHolds, <1>1, <1>2, PTL DEF Spec, DescribedIsTrue
=============================================================================
