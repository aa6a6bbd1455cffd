------------------------------- MODULE Startup -------------------------------
(***************************************************************************)
(* From the command line to an agent that knows where it is: arguments, the *)
(* workspace, the runtime's roots as agents are told them, the database, and    *)
(* the AGENTS.md files from the repository's root down to the workspace.    *)
(* Directory 1 is the outermost one considered, Depth the workspace.        *)
(***************************************************************************)
EXTENDS Integers, Sequences, FiniteSets, SequencesExt

CONSTANTS
  Commands,   \* command lines: sequences of words
  Depth,
  MaxChanges  \* bound: AGENTS.md files that change while they are looked for

ASSUME StartupAssumption == Depth \in Nat \ {0} /\ MaxChanges \in Nat

VARIABLES
  argv,
  place,     \* what the workspace path is: "directory", "file" or "missing"
  installed, \* the workspace is the installation itself
  repo,      \* the directory that is the repository's root, 0 for none
  git,       \* how git answers: "fine", "refuses", "absent", "elsewhere"
  agents,    \* each directory's AGENTS.md: "none", "readable", "unreadable"
  overlay,   \* the installation's .hyper exists
  phase,
  named,     \* the roots the prompt names
  ahead,     \* the directory whose AGENTS.md is looked for next
  paths,     \* those whose AGENTS.md was found
  rules,     \* those whose text was read
  changes    \* the directories whose AGENTS.md changed meanwhile

startupVars == <<argv, place, installed, repo, git, agents, overlay, phase, named, ahead, paths, rules,
  changes>>

Dirs == 1 .. Depth

StartupInit ==
  /\ argv \in Commands /\ place \in {"directory", "file", "missing"} /\ installed \in BOOLEAN
  /\ repo \in 0 .. Depth /\ git \in {"fine", "refuses", "absent", "elsewhere"}
  /\ agents \in [Dirs -> {"none", "readable", "unreadable"}]
  /\ overlay \in BOOLEAN
  /\ phase = "args" /\ named = {} /\ ahead = 0 /\ paths = <<>> /\ rules = <<>> /\ changes = {}

-----------------------------------------------------------------------------
\* parseArgs.  A word is an option by its dash; `serve' counts only as the first one, and
\* the second of two values wins.
Option(w) == w \in {"-h", "--version", "-C", "-m", "--port", "-x"}
Bad(s) == [s EXCEPT !.kind = "usage"]
Value(s, w) ==
  IF Option(w) \/ w = "" \/ (s.wants = "--port" /\ w # "80") THEN Bad(s)
  ELSE [s EXCEPT !.wants = ""]
ReadWord(s, w) ==
  IF s.kind \in {"help", "version", "usage"} THEN s
  ELSE IF s.wants # "" THEN Value(s, w)
  ELSE IF w = "-h" THEN [s EXCEPT !.kind = "help"]
  ELSE IF w = "--version" THEN [s EXCEPT !.kind = "version"]
  ELSE IF w = "-C" \/ (w = "-m" /\ s.kind = "terminal") \/ (w = "--port" /\ s.kind = "serve")
    THEN [s EXCEPT !.wants = w]
  ELSE IF Option(w) THEN Bad(s)
  ELSE [s EXCEPT !.words = @ + 1]
ParseArgs(words) ==
  LET serve == words # <<>> /\ Head(words) = "serve"
      start == [kind |-> IF serve THEN "serve" ELSE "terminal", wants |-> "", words |-> 0]
      end == FoldLeft(ReadWord, start, IF serve THEN Tail(words) ELSE words)
  IN CASE end.wants # "" \/ end.words > (IF serve THEN 0 ELSE 1) ->
            IF end.kind \in {"help", "version"} THEN end.kind ELSE "usage"
       [] OTHER -> end.kind

Goes(to) ==
  /\ phase' = to
  /\ UNCHANGED <<argv, place, installed, repo, git, agents, overlay, changes>>
At(from, to) == phase = from /\ Goes(to) /\ UNCHANGED <<named, ahead, paths, rules>>

Understands ==
  LET kind == ParseArgs(argv) IN
  At("args", CASE kind = "usage" -> "exit 2" [] kind \in {"help", "version"} -> "exit 0"
               [] OTHER -> "resolving")

\* realpath() and stat().
ResolveWorkspace == At("resolving", IF place = "directory" THEN "loading" ELSE "exit 1")

Roots == IF overlay THEN {"src", ".hyper"} ELSE {"src"}

\* The overlay is named before it exists: the database may create it, or an agent.
RuntimePathInstructions == Roots \cup {".hyper"}

\* loadFns, then the prompt's account of the roots.
Loads ==
  /\ phase = "loading" /\ Goes("opening")
  /\ named' = RuntimePathInstructions /\ UNCHANGED <<ahead, paths, rules>>

\* A source file changes while it is loaded, or a migration fails: the start is undone.
LoadFails == At("loading", "exit 1") \/ At("opening", "exit 1")

\* The database lies in the workspace's .hyper; the browser server asks for no rules.
Opens ==
  /\ phase = "opening"
  /\ phase' = IF ParseArgs(argv) = "serve" THEN "serving" ELSE "discovering"
  /\ overlay' = (overlay \/ installed)
  /\ UNCHANGED <<argv, place, installed, repo, git, agents, named, ahead, paths, rules, changes>>

\* Mutant of GitRoot: whatever git says, the workspace alone will do.
GitRootOrWorkspace == IF git = "fine" /\ repo # 0 THEN repo ELSE Depth

\* The repository's root; the workspace alone only if git says that there is none, in
\* the words it has for that; otherwise nothing, and the start fails.
GitRoot ==
  IF git # "fine" THEN 0 ELSE IF repo = 0 THEN Depth ELSE repo

\* The directories are those from the root down to the workspace.
Discovers ==
  /\ phase = "discovering" /\ Goes(IF GitRoot = 0 THEN "exit 1" ELSE "looking")
  /\ ahead' = GitRoot /\ UNCHANGED <<named, paths, rules>>

\* access() of one candidate after the other; then the bodies.
Looks ==
  /\ phase = "looking" /\ ahead \in Dirs /\ ahead' = ahead + 1
  /\ paths' = IF agents[ahead] = "none" THEN paths ELSE Append(paths, ahead)
  /\ Goes("looking") /\ UNCHANGED <<named, rules>>
HasLooked == ahead \notin Dirs /\ At("looking", "reading")
Reads ==
  /\ phase = "reading" /\ Len(rules) < Len(paths)
  /\ LET d == paths[Len(rules) + 1] IN
       IF agents[d] = "readable" THEN rules' = Append(rules, d) /\ Goes("reading")
       ELSE UNCHANGED rules /\ Goes("exit 1")
  /\ UNCHANGED <<named, ahead, paths>>
HasRead == Len(rules) = Len(paths) /\ At("reading", "ready")

\* Somebody else writes, removes or locks an AGENTS.md.
FileChanges(d, to) ==
  /\ phase \in {"looking", "reading"} /\ Cardinality(changes) < MaxChanges /\ d \notin changes
  /\ agents' = [agents EXCEPT ![d] = to] /\ changes' = changes \cup {d}
  /\ UNCHANGED <<argv, place, installed, repo, git, overlay, phase, named, ahead, paths, rules>>

\* An agent that runs makes the overlay.
OverlayAppears ==
  /\ phase \in {"serving", "ready"} /\ overlay' = TRUE
  /\ UNCHANGED <<argv, place, installed, repo, git, agents, phase, named, ahead, paths, rules, changes>>

StartupNext ==
  \/ Understands \/ ResolveWorkspace \/ Loads \/ LoadFails \/ Opens \/ Discovers \/ Looks
  \/ HasLooked \/ Reads \/ HasRead \/ OverlayAppears
  \/ \E d \in Dirs, to \in {"none", "readable", "unreadable"} : FileChanges(d, to)

-----------------------------------------------------------------------------
\* An agent of the terminal has the rules of every directory between the repository's
\* root and the workspace, outermost first, and of no other: if git or a file stands in
\* the way there is no agent.  Files that changed meanwhile are read or not.
RulesReachTheAgent ==
  phase = "ready" =>
    LET from == IF repo = 0 THEN Depth ELSE repo IN
    /\ \A d \in Dirs \ changes : (\E i \in DOMAIN rules : rules[i] = d)
                                   <=> (d >= from /\ agents[d] # "none")
    /\ \A i, j \in DOMAIN rules : i < j => rules[i] < rules[j]

\* Whatever is reloaded from, the prompt names: also an overlay that did not exist when
\* the prompt's account was made.
RootsAreTold == phase \in {"discovering", "looking", "reading", "ready", "serving"} => Roots \subseteq named
=============================================================================
