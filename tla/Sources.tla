------------------------------- MODULE Sources -------------------------------
(***************************************************************************)
(* One procedure of the running system: its source file, the overlay file  *)
(* that may replace it, the function in ctx.fns and the loader's receipt,  *)
(* and the loads (repl.load) that several agents may have under way.       *)
(***************************************************************************)
EXTENDS Integers, Sequences

CONSTANTS
  Loaders,     \* those who reload the procedure
  Wrapped,     \* whether it is one that trackAgentRuns wraps (agent.run, agent.submit)
  MaxWrites    \* bound: writes of files

ASSUME SourceAssumption == Wrapped \in BOOLEAN /\ MaxWrites \in Nat

VARIABLES
  file,     \* per path: its lines, <<>> when it does not exist, and its version
  live,     \* what the live function was compiled from
  receipt,  \* of the last load: the hash, the path, and whether live is its function
  load,     \* the loads under way
  moved     \* whether the registry entry changed since the description took it

sourceVars == <<file, live, receipt, load, moved>>

\* The files the procedure may come from, and a text it reads.
Candidates == {"src", "overlay"}
Paths == Candidates \cup {"prompt"}
Gone  == <<>>
Evaluated == <<-2>>     \* code that came from no file
Content(p) == file[p].lines
Exists(p)  == Content(p) # Gone

NoLoad == [at |-> "idle", path |-> "src", version |-> 0, hash |-> Gone, code |-> Gone]

\* loadFns: the function of the shipped file, with its receipt.
SourcesInit(first) ==
  /\ file = [p \in Paths |-> [lines |-> IF p = "overlay" THEN Gone ELSE first, version |-> 0]]
  /\ live = first
  /\ receipt = [hash |-> first, path |-> "src", current |-> TRUE]
  /\ load = [l \in Loaders |-> NoLoad]
  /\ moved = FALSE

SourcesTypeOK(lines) ==
  /\ file \in [Paths -> [lines : lines, version : 0..MaxWrites]]
  /\ live \in lines \cup {Evaluated}
  /\ receipt \in [hash : lines, path : Candidates, current : BOOLEAN]
  /\ load \in [Loaders -> [at : {"idle", "overlay", "base", "found", "stamped", "hashed",
                                 "imported"},
                           path : Candidates, version : 0..MaxWrites,
                           hash : lines, code : lines]]
  /\ moved \in BOOLEAN

-----------------------------------------------------------------------------
\* files.write and files.remove: new bytes, a new modification time.
Written(p, lines) ==
  /\ file["src"].version + file["overlay"].version + file["prompt"].version < MaxWrites
  /\ file' = [file EXCEPT ![p] = [lines |-> lines, version |-> @.version + 1]]
WriteFile(p, lines) == Written(p, lines) /\ UNCHANGED <<live, receipt, load, moved>>

\* §eval assigns another function to the registry.
Replace ==
  /\ live' = Evaluated
  /\ receipt' = [receipt EXCEPT !.current = FALSE]
  /\ moved' = TRUE
  /\ UNCHANGED <<file, load>>

-----------------------------------------------------------------------------
(* repl.load: every step ends in an await. *)

At(l, at)  == load[l].at = at
Goes(l, t) == load' = [load EXCEPT ![l] = t] /\ UNCHANGED <<file, live, receipt, moved>>

LoadBegins(l) == At(l, "idle") /\ Goes(l, [NoLoad EXCEPT !.at = "overlay"])

\* The overlay wins; the shipped file is looked at when there is none.
Looks(l) ==
  \/ /\ At(l, "overlay")
     /\ Goes(l, [load[l] EXCEPT !.at = IF Exists("overlay") THEN "found" ELSE "base",
                                !.path = IF Exists("overlay") THEN "overlay" ELSE "src"])
  \/ /\ At(l, "base")
     /\ Goes(l, IF Exists("src") THEN [load[l] EXCEPT !.at = "found"] ELSE NoLoad)

Reads(l, from, to) ==
  LET t == load[l] IN
  /\ At(l, from)
  /\ Goes(l, IF Exists(t.path) THEN to ELSE NoLoad)

Stamps(l) == Reads(l, "found", [load[l] EXCEPT !.at = "stamped",
                                               !.version = file[load[l].path].version])
Hashes(l) == Reads(l, "stamped", [load[l] EXCEPT !.at = "hashed",
                                                 !.hash = Content(load[l].path)])
Imports(l) == Reads(l, "hashed", [load[l] EXCEPT !.at = "imported",
                                                 !.code = Content(load[l].path)])
\* The file does not compile, or has no function to export.
ImportFails(l) == At(l, "hashed") /\ Goes(l, NoLoad)

Unchanged(t) == Content(t.path) = t.hash /\ file[t.path].version = t.version

\* Hash and version again: another function and its receipt in one step, or
\* "source changed while loading" and nothing at all.
LoadEnds(l) ==
  LET t == load[l] IN
  /\ At(l, "imported")
  /\ load' = [load EXCEPT ![l] = NoLoad]
  /\ IF Unchanged(t)
     THEN /\ live' = t.code
          /\ receipt' = [hash |-> t.hash, path |-> t.path, current |-> TRUE]
          /\ moved' = TRUE
     ELSE UNCHANGED <<live, receipt, moved>>
  /\ UNCHANGED file

LoadStep(l) == Looks(l) \/ Stamps(l) \/ Hashes(l) \/ Imports(l) \/ ImportFails(l) \/ LoadEnds(l)
=============================================================================
