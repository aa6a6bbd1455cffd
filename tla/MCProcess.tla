------------------------------ MODULE MCProcess ------------------------------
(* What a process does for all of its agents, for TLC: it starts, loads its files, *)
(* migrates its database, runs the worker's loop, runs delegated tasks beside it,  *)
(* and takes a text from the operator.  These share no state: a behaviour is about *)
(* one of them.                                                                    *)
EXTENDS WorkerLoop, Delegation, Migrations, Startup, Catalog, Composer, TLC

VARIABLE subject

MCOrders == {[task |-> "t", extra |-> "", format |-> "json"],
             [task |-> "t", extra |-> "x", format |-> "fields"]}
MCCommands == {<<>>, <<"-C", "w", "p">>, <<"serve", "--port", "80">>, <<"serve", "-m", "x">>,
               <<"-C">>, <<"-h", "-x">>, <<"p", "--version">>, <<"p", "q">>}

SourceFile(root, dir, prefix, parts, suffix) ==
  [root |-> root, dir |-> dir, prefix |-> prefix, parts |-> parts, suffix |-> suffix, ok |-> TRUE]
InAgent(root, prefix, parts) == SourceFile(root, <<"agent">>, prefix, parts, ".ts")
MCOnDisk ==
  {InAgent("src", "$route", <<"$id", "GET">>), InAgent("src", "$route", <<"new", "GET">>),
   InAgent("src", "$route", <<"$id", "stop", "POST">>), InAgent("src", "", <<"start">>),
   InAgent("src", "$setting", <<"debounceMs">>), InAgent(".hyper", "$route", <<"$id", "GET">>),
   SourceFile("src", <<"agent">>, "$script", <<"chat.js">>, ".js"),
   SourceFile("src", <<>>, "$", <<"layout">>, ".ts"),
   InAgent(".hyper", "", <<"start">>),
   SourceFile(".hyper", <<"notes">>, "$route", <<"$a", "$b", "GET">>, ".ts")}
MCTree ==
  MCOnDisk \cup
  {InAgent(".hyper", "$setting", <<"debounceMs">>),
   [InAgent(".hyper", "$", <<"start">>) EXCEPT !.ok = FALSE],
   SourceFile(".hyper", <<"tmp_x">>, "", <<"probe">>, ".ts")}
MCWanted ==
  FunctionNames \cup {<<"tmp_x", "probe">>, <<"agent", "$", "start">>, <<"agent", "route", "new", "GET">>}
Request(method, path) == [method |-> method, path |-> path]
MCAsked ==
  {Request("GET", <<"agent", "new">>), Request("GET", <<"agent", "a1">>),
   Request("POST", <<"agent", "new">>), Request("POST", <<"agent", "a1", "stop">>),
   Request("GET", <<"agent", "chat.js">>), Request("GET", <<"notes", "x", "y">>)}

ASSUME FilesSayWhichServes == Unambiguous

allVars == <<subject, vars, delegationVars, migrationVars, startupVars, catalogVars, composerVars>>

\* One start of the process that goes well, and a loop with nothing due.
Plain ==
  /\ argv = <<>> /\ place = "directory" /\ ~installed /\ repo = 0 /\ git = "fine" /\ ~overlay
  /\ agents = [d \in Dirs |-> "none"]

\* Bound: a start has one thing wrong at most, and then one AGENTS.md.
OneFault ==
  (place # "directory" \/ git # "fine" \/ ParseArgs(argv) # "terminal") =>
    agents = [d \in Dirs |-> IF d = 1 THEN "readable" ELSE "none"]

MCInit ==
  /\ subject \in {"start", "files", "migrations", "loop", "tasks", "composer"}
  /\ StartupInit /\ IF subject = "start" THEN OneFault ELSE Plain
  /\ Init /\ (subject # "loop" => \A a \in Agents : due[a] = Never)
  /\ DelegationInit /\ MigrationsInit /\ CatalogInit /\ ComposerInit

MCNext ==
  \/ /\ subject = "start" /\ StartupNext
     /\ UNCHANGED <<subject, vars, delegationVars, migrationVars, catalogVars, composerVars>>
  \/ /\ subject = "migrations" /\ MigrationsNext
     /\ UNCHANGED <<subject, vars, delegationVars, startupVars, catalogVars, composerVars>>
  \/ /\ subject = "loop" /\ Next
     /\ UNCHANGED <<subject, delegationVars, migrationVars, startupVars, catalogVars, composerVars>>
  \/ /\ subject = "tasks" /\ DelegationNext
     /\ UNCHANGED <<subject, vars, migrationVars, startupVars, catalogVars, composerVars>>
  \/ /\ subject = "files" /\ CatalogNext
     /\ UNCHANGED <<subject, vars, delegationVars, migrationVars, startupVars, composerVars>>
  \/ /\ subject = "composer" /\ ComposerNext
     /\ UNCHANGED <<subject, vars, delegationVars, migrationVars, startupVars, catalogVars>>

MCSpec ==
  /\ MCInit /\ [][MCNext]_allVars
  /\ (subject = "loop" => WF_vars(LoopStep) /\ WF_vars(Tick))
  /\ DelegationFairness
=============================================================================
