------------------------------ MODULE Workspace ------------------------------
(***************************************************************************)
(* One agent at work on the sources of the system it runs in: it asks the  *)
(* model, and carries out the markers of the answer one by one: a command, *)
(* a patch of a source file, a reload of the procedure, code of its own.   *)
(* Beside it the operator saves files and stops the agent, another agent   *)
(* reloads the same procedure, and somebody asks for GET /self.            *)
(***************************************************************************)
EXTENDS HashlineEdit, SelfDescription, ModelCalls, Commands

CONSTANTS
  Me,       \* the agent, as a loader
  Saves,    \* what the operator saves into it
  Patches(_),  \* the patches a model may write for the lines it has seen
  MaxPatches   \* bound: patches carried out

ASSUME WorkspaceAssumption == Me \in Loaders /\ MaxPatches \in Nat

VARIABLES
  shared,   \* whether others are around, who share the sources but not the run
  doing,    \* what the run of the agent is at
  aborted,  \* its abort signal
  seen,     \* the lines its last §read:hashline showed
  patch,    \* the patch under way: the lines it was planned on, its operations
  patches   \* patches so far (no program variable)

turnVars == <<shared, doing, aborted, seen, patch, patches>>
vars == <<sourceVars, telling, call, command, turnVars>>

NoPatch == [base |-> Gone, ops |-> <<>>]

Init ==
  /\ SourcesInit(Shipped) /\ DescriptionInit /\ CallInit /\ CommandInit
  /\ shared \in BOOLEAN /\ aborted = FALSE
  /\ doing = IF shared THEN "acting" ELSE "nothing"
  /\ seen = Shipped /\ patch = NoPatch /\ patches = 0

\* Lines the bounds allow, for the type invariant.
AllLines == Seq(-2..9)

TypeOK ==
  /\ SourcesTypeOK(AllLines) /\ DescriptionTypeOK(AllLines)
  /\ CallTypeOK /\ CommandTypeOK
  /\ doing \in {"nothing", "asking", "acting", "command", "patch", "load"}
  /\ shared \in BOOLEAN /\ aborted \in BOOLEAN /\ seen \in AllLines /\ patches \in 0..MaxPatches
  /\ patch.base \in AllLines

-----------------------------------------------------------------------------
Turn(from, to) == doing = from /\ doing' = to /\ UNCHANGED <<shared, aborted, seen, patch, patches>>
Ends == doing' = "nothing" /\ aborted' = FALSE /\ UNCHANGED <<shared, seen, patch, patches>>

\* agent.run: the call, its steps, and what follows the answer.
Asks ==
  /\ doing \in {"nothing", "acting"} /\ ~aborted /\ ~shared
  /\ call.at = "none" /\ CallBegins
  /\ doing' = "asking" /\ UNCHANGED <<shared, aborted, seen, patch, patches>>
  /\ UNCHANGED <<sourceVars, telling, command>>
Asking ==
  /\ doing = "asking" /\ CallStep(aborted)
  /\ UNCHANGED <<sourceVars, telling, command, turnVars>>
Answer ==
  /\ call' = NoCall
  /\ \/ call.at = "answered" /\ ~aborted /\ Turn("asking", "acting")
     \/ call.at = "answered" /\ doing = "asking" /\ Ends  \* prose, or throwIfAborted
     \/ call.at = "failed" /\ doing = "asking" /\ Ends
  /\ UNCHANGED <<sourceVars, telling, command>>

\* throwIfAborted before and after every marker.
Breaks ==
  /\ doing = "acting" /\ aborted /\ Ends
  /\ UNCHANGED <<sourceVars, telling, command, call>>

\* §bash.
RunsCommand ==
  /\ ~shared /\ Turn("acting", "command") /\ ~aborted /\ Spawn
  /\ UNCHANGED <<sourceVars, telling, call>>
CommandEnds ==
  /\ Turn("command", "acting") /\ CommandReturns
  /\ UNCHANGED <<sourceVars, telling, call>>
ProcessStep ==
  /\ ProcessEnds \/ Terminated \/ Killed
  /\ UNCHANGED <<sourceVars, telling, call, turnVars>>

\* §read:hashline.
ReadsLines ==
  /\ ~shared /\ doing = "acting" /\ ~aborted /\ Exists("src")
  /\ seen' = Content("src")
  /\ UNCHANGED <<sourceVars, telling, call, command, shared, doing, aborted, patch, patches>>

\* §edit: the file is read and the patch planned on it, or refused.
Patch ==
  /\ ~shared /\ doing = "acting" /\ ~aborted /\ patches < MaxPatches /\ Exists("src")
  /\ \E ops \in Patches(seen) :
       /\ Accepted(Content("src"), seen, ops)
       /\ patch' = [base |-> Content("src"), ops |-> ops]
  /\ doing' = "patch" /\ UNCHANGED <<shared, aborted, seen, patches>>
  /\ UNCHANGED <<sourceVars, telling, call, command>>
\* After the await of the highlighter the patched lines are written.
PatchWrites ==
  /\ doing = "patch" /\ doing' = "acting"
  /\ WriteFile("src", Edited(patch.base, patch.ops))
  /\ patch' = NoPatch /\ patches' = patches + 1
  /\ UNCHANGED <<shared, aborted, seen, telling, call, command>>
PatchFails ==
  /\ doing = "patch" /\ doing' = "acting" /\ patch' = NoPatch
  /\ UNCHANGED <<shared, aborted, seen, patches, sourceVars, telling, call, command>>

\* §eval: repl.load, or an assignment to the registry.
Reloads ==
  /\ Turn("acting", "load") /\ ~aborted /\ LoadBegins(Me)
  /\ UNCHANGED <<telling, call, command>>
Reloaded ==
  /\ At(Me, "idle") /\ Turn("load", "acting")
  /\ UNCHANGED <<sourceVars, telling, call, command>>
Evaluates ==
  /\ doing = "acting" /\ ~aborted /\ Replace
  /\ UNCHANGED <<telling, call, command, turnVars>>

\* agent.stop.
Stop ==
  /\ ~shared /\ doing # "nothing" /\ ~aborted
  /\ aborted' = TRUE /\ command' = Told(command)
  /\ UNCHANGED <<sourceVars, telling, call, shared, doing, seen, patch, patches>>

-----------------------------------------------------------------------------
\* PUT /files and the file tools of others.
Saved ==
  /\ \/ \E lines \in Saves : WriteFile("src", lines)
     \/ ~Exists("overlay") /\ WriteFile("overlay", Shipped)
     \/ Exists("overlay") /\ WriteFile("overlay", Gone)
     \/ shared /\ \E lines \in Saves : WriteFile("prompt", lines)
  /\ UNCHANGED <<telling, call, command, turnVars>>

Loading(l) == LoadStep(l) /\ UNCHANGED <<telling, call, command, turnVars>>
OtherLoads == \E l \in Loaders \ {Me} : LoadBegins(l) /\ UNCHANGED <<telling, call, command, turnVars>>
Describing == DescribeStep /\ UNCHANGED <<call, command, turnVars>>

Next ==
  \/ Asks \/ Asking \/ Answer \/ Breaks
  \/ RunsCommand \/ CommandEnds \/ ProcessStep
  \/ ReadsLines \/ Patch \/ PatchWrites \/ PatchFails
  \/ Reloads \/ Reloaded \/ Evaluates \/ Stop
  \/ Saved
  \/ shared /\ (OtherLoads \/ Describing)
  \/ \E l \in Loaders : Loading(l)

Spec == Init /\ [][Next]_vars

-----------------------------------------------------------------------------
\* Requests settle once their signal is aborted, the backoff passes, a SIGTERM
\* is delivered, the kill timer fires, a file is read.  Neither the provider
\* nor a command is assumed to end by itself.
Settling ==
  /\ doing = "asking" /\ aborted
  /\ Post(TRUE) \/ Throws \/ Refused \/ SleepEnds \/ StreamBreaks
  /\ UNCHANGED <<sourceVars, telling, command, turnVars>>
Signals == (Terminated \/ Killed) /\ UNCHANGED <<sourceVars, telling, call, turnVars>>

Fairness ==
  /\ WF_vars(Settling) /\ WF_vars(Signals) /\ WF_vars(Answer)
  /\ WF_vars(Breaks) /\ WF_vars(CommandEnds) /\ WF_vars(PatchWrites \/ PatchFails)
  /\ WF_vars(Loading(Me)) /\ WF_vars(Reloaded)

FairSpec == Spec /\ Fairness

-----------------------------------------------------------------------------
\* FT-036 INV-01: a description that is returned vouches for the function that
\* is live at that moment and for the bytes its file has at that moment,
\* whatever was written, loaded and replaced while it was taken.
DescribedIsTrue == [][Returns => IsTrue(telling'.says)]_vars

\* A patch that is written onto the file it was planned on takes nothing but
\* the lines it names, and leaves everything it brings.
PatchKeepsTheRest ==
  [][patch # NoPatch /\ patch' = NoPatch /\ file' # file /\ Content("src") = patch.base
       => /\ KeepsTheRest(patch.base, patch.ops, file'["src"].lines)
          /\ PutsPayloads(patch.base, patch.ops, file'["src"].lines)]_vars

\* agent/SYSTEM_PROMPT.txt: "`+ ANCHOR` — insert after anchor".
PatchInsertsAfter ==
  [][patch # NoPatch /\ patch' = NoPatch /\ file' # file
       => InsertsAfter(patch.base, patch.ops, file'["src"].lines)]_vars

\* A stopped run ends, whatever it is at: the provider may be silent, the
\* command may ignore SIGTERM.
AbortedEnds == aborted ~> ~aborted
=============================================================================
