------------------------------- MODULE Catalog -------------------------------
(***************************************************************************)
(* What the files of src and of the overlay .hyper become: procedures,      *)
(* declared settings and routes, when the process starts and when an agent   *)
(* reloads a name or a module; and which route serves a request.  One load   *)
(* in detail, with others beside it, is Sources.                             *)
(***************************************************************************)
EXTENDS Integers, Sequences, FiniteSets, SequencesExt

CONSTANTS
  Tree,       \* files: [root, dir, prefix, parts, suffix, ok], ok for a usable export
  OnDisk,     \* those there are at first
  Asked,      \* requests: [method, path]
  Wanted,     \* bound: the names an agent loads
  Absent,
  MaxMoved    \* bound: files that come and go

VARIABLES
  disk,       \* the files
  loading,    \* "functions", "routes", "serving"
  left,       \* what the scan has not come to
  functions,  \* ctx.fns, and ctx itself for the outermost directory: the file of each name
  declared,   \* the registry of settings
  routes,     \* ctx.routes in order of insertion: [path, methods]
  booted,     \* the files when the routes were loaded
  writes      \* count for MaxMoved

catalogVars == <<disk, loading, left, functions, declared, routes, booted, writes>>

-----------------------------------------------------------------------------
\* classify(), and the directories that a scan leaves out.  A name is its parts between
\* underscores: $route_$id_stop_POST.ts is prefix $route, parts <<$id, stop, POST>>.  A
\* segment is literal or a parameter.
Methods == {"GET", "POST", "PUT", "DELETE", "PATCH", "HEAD", "OPTIONS"}
Skip == [kind |-> "skip"]
Route(dir, parts) ==
  IF Last(parts) \notin Methods THEN Skip
  ELSE [kind |-> "route", path |-> dir \o SelectSeq(Front(parts), LAMBDA s : s # ""),
        method |-> Last(parts)]
Scratch == {"_runtime", "tmp_x"}
Classify(f) ==
  IF \E i \in DOMAIN f.dir : f.dir[i] \in Scratch THEN Skip
  ELSE IF f.prefix = "$script" /\ f.suffix \in {".js", ".css"}
    THEN [kind |-> "route", path |-> Append(f.dir, Last(f.parts)), method |-> "GET"]
  ELSE IF f.suffix # ".ts" \/ f.prefix = "$type" THEN Skip
  ELSE IF f.prefix = "$" /\ f.parts \in {<<"main">>, <<"test">>} THEN Skip
  ELSE IF f.prefix = "$setting"
    THEN IF f.dir = <<>> THEN Skip ELSE [kind |-> "setting", name |-> <<f.dir[1]>> \o f.parts]
  ELSE IF f.prefix = "$route" THEN Route(f.dir, f.parts)
  ELSE [kind |-> "fn", name |-> f.dir \o f.parts]

Of(kind) == {f \in Tree : Classify(f).kind = kind}
Name(f) == Classify(f).name
Path(f) == Classify(f).path
Method(f) == Classify(f).method
FunctionNames == {Name(f) : f \in Of("fn")}
SettingNames == {Name(f) : f \in Of("setting")}

\* repl.load looks for a file, whatever a scan makes of it: x.ts for the name x, and $x.ts,
\* so that agent.$start, agent.route_new_GET and tmp_x.probe are names too.
Bare(prefix) ==
  CASE prefix = "$route" -> "route" [] prefix = "$setting" -> "setting"
    [] prefix = "$type" -> "type" [] OTHER -> "script"
ItsOwn(f) == f.dir \o (IF f.prefix = "" THEN f.parts ELSE <<f.prefix>> \o f.parts)
WithoutSign(f) == f.dir \o (IF f.prefix \in {"", "$"} THEN f.parts ELSE <<Bare(f.prefix)>> \o f.parts)
FoundAs(f) == IF f.suffix = ".ts" THEN {ItsOwn(f), WithoutSign(f)} ELSE {}
LoadNames == UNION {FoundAs(f) : f \in Tree}

\* Of two files found under one name, one has that very name or they are in two roots:
\* otherwise they have one path, and a path is one file.
ASSUME CatalogAssumption ==
  /\ OnDisk \subseteq Tree /\ Absent \notin Tree /\ \A f \in Tree : f.root \in {"src", ".hyper"}
  /\ \A f \in Of("fn") : f.prefix \in {"", "$"}
  /\ \A n \in LoadNames : \A f, g \in Tree :
       n \in FoundAs(f) \cap FoundAs(g) /\ f.root = g.root /\ (n = ItsOwn(f) <=> n = ItsOwn(g)) => f = g
  /\ \A q \in Asked : q.method \in Methods

CatalogInit ==
  /\ disk = OnDisk /\ loading = "functions" /\ left = OnDisk
  /\ functions = [n \in LoadNames |-> Absent] /\ declared = [n \in SettingNames |-> Absent]
  /\ routes = <<>> /\ booted = {} /\ writes = 0

\* A scan takes src before .hyper, and within a root what order it likes.
Scanned(f) == f \in left /\ (f.root = ".hyper" => \A g \in left : g.root = ".hyper")

\* loadFns: a later file replaces an earlier one; one without a usable export is passed over.
LoadFn(f) ==
  /\ loading = "functions" /\ Scanned(f) /\ left' = left \ {f}
  /\ functions' = IF f \in Of("fn") /\ f.ok THEN [functions EXCEPT ![Name(f)] = f] ELSE functions
  /\ declared' = IF f \in Of("setting") /\ f.ok THEN [declared EXCEPT ![Name(f)] = f] ELSE declared
  /\ UNCHANGED <<disk, loading, routes, booted, writes>>

\* loadRoutes: a path keeps the place of its first file; a script needs no export.
Handler(f) == f \in Of("route") /\ (f.ok \/ f.prefix = "$script")
Bucket(path) == {i \in DOMAIN routes : routes[i].path = path}
AddRoute(path, method, f) ==
  IF Bucket(path) = {}
    THEN Append(routes, [path |-> path, methods |-> [m \in Methods |-> IF m = method THEN f ELSE Absent]])
    ELSE [i \in DOMAIN routes |->
            IF i \in Bucket(path) THEN [routes[i] EXCEPT !.methods[method] = f] ELSE routes[i]]
LoadRoute(f) ==
  /\ loading = "routes" /\ Scanned(f) /\ left' = left \ {f}
  /\ routes' = IF Handler(f) THEN AddRoute(Path(f), Method(f), f) ELSE routes
  /\ UNCHANGED <<disk, loading, functions, declared, booted, writes>>

Loaded ==
  /\ left = {} /\ loading # "serving"
  /\ IF loading = "functions" THEN loading' = "routes" /\ left' = disk /\ booted' = disk
     ELSE loading' = "serving" /\ UNCHANGED <<left, booted>>
  /\ UNCHANGED <<disk, functions, declared, routes, writes>>

-----------------------------------------------------------------------------
\* An agent writes or removes a file.
Changes(f) ==
  /\ loading = "serving" /\ writes < MaxMoved /\ writes' = writes + 1
  /\ disk' = IF f \in disk THEN disk \ {f} ELSE disk \cup {f}
  /\ UNCHANGED <<loading, left, functions, declared, routes, booted>>

\* The files that a reload finds for n: x.ts before $x.ts, the overlay first.
Found(n) == {f \in disk : n \in FoundAs(f)}

\* Mutant of Before: the roots in the order of the scan.
BeforeInScanOrder(n, f, g) ==
  IF f.root # g.root THEN f.root = "src" ELSE n = ItsOwn(f) \/ f = g

Before(n, f, g) ==
  IF f.root # g.root THEN f.root = ".hyper" ELSE n = ItsOwn(f) \/ f = g
First(n) == CHOOSE f \in Found(n) : \A g \in Found(n) : Before(n, f, g)

\* It has to export a function, as a route does and a declared setting does not.
Loadable(n) == Found(n) # {} /\ First(n).ok /\ First(n).prefix # "$setting"

\* repl.load of a dotted name: no file or no function throws.
LoadFile(n) ==
  /\ loading = "serving" /\ Len(n) > 1 /\ Loadable(n)
  /\ functions' = [functions EXCEPT ![n] = First(n)]
  /\ UNCHANGED <<disk, loading, left, declared, routes, booted, writes>>

\* repl.load of a module: the functions and settings it has now, in the order of the
\* scan, up to the first function that throws.
FnFiles(n) == {f \in disk \cap Of("fn") : Name(f) = n}
InModule(dir) == {n \in FunctionNames : Front(n) = dir /\ FnFiles(n) # {}}
Declaring(n) == {f \in disk \cap Of("setting") : f.ok /\ Name(f) = n}
Overriding(files) ==
  CHOOSE f \in files : f.root = ".hyper" \/ \A g \in files : g.root = "src"
SettingsOf(dir) == {n \in SettingNames : <<n[1]>> = dir /\ Declaring(n) # {}}
Through(dir, done, set) ==
  (\A n \in InModule(dir) : Loadable(n)) => done = InModule(dir) /\ set = SettingsOf(dir)
LoadModule(dir, done, set) ==
  /\ loading = "serving" /\ dir # <<>>
  /\ done \subseteq {n \in InModule(dir) : Loadable(n)} /\ set \subseteq SettingsOf(dir)
  /\ Through(dir, done, set)
  /\ functions' = [n \in LoadNames |-> IF n \in done THEN First(n) ELSE functions[n]]
  /\ declared' = [n \in SettingNames |-> IF n \in set THEN Overriding(Declaring(n)) ELSE declared[n]]
  /\ UNCHANGED <<disk, loading, left, routes, booted, writes>>

CatalogNext ==
  \/ \E f \in Tree : LoadFn(f) \/ LoadRoute(f) \/ Changes(f)
  \/ Loaded
  \/ \E n \in Wanted : LoadFile(n)
  \/ \E dir \in {f.dir : f \in Tree}, done \in SUBSET FunctionNames,
        set \in SUBSET SettingNames : LoadModule(dir, done, set)

-----------------------------------------------------------------------------
\* match(): the very path, otherwise the first pattern that fits.
Parameter(segment) == segment \in {"$id", "$a", "$b"}
Fits(pattern, path) ==
  /\ Len(pattern) = Len(path)
  /\ \A i \in DOMAIN path : Parameter(pattern[i]) \/ pattern[i] = path[i]
Serving(q, i) == routes[i].methods[q.method] # Absent

\* Mutant of Match: patterns alone, in order of insertion.
MatchInOrder(q) ==
  LET fit == {i \in DOMAIN routes : Serving(q, i) /\ Fits(routes[i].path, q.path)}
  IN IF fit = {} THEN Absent
     ELSE routes[CHOOSE i \in fit : \A j \in fit : i <= j].methods[q.method]

Match(q) ==
  LET exact == {i \in DOMAIN routes : Serving(q, i) /\ routes[i].path = q.path}
      fit == {i \in DOMAIN routes : Serving(q, i) /\ Fits(routes[i].path, q.path)}
      among == IF exact # {} THEN exact ELSE fit
  IN IF among = {} THEN Absent
     ELSE routes[CHOOSE i \in among : \A j \in among : i <= j].methods[q.method]

\* The files that could serve a request, of those there are.
Handlers(files, q) ==
  {f \in files : Handler(f) /\ Method(f) = q.method /\ Fits(Path(f), q.path)}

\* What the files say of a request: the file whose path has fewest parameters, and of
\* several for one path the overlay's.
Meant(q) ==
  LET of == Handlers(booted, q)
      literal == {f \in of : Path(f) = q.path}
      best == IF literal # {} THEN literal ELSE of
  IN {f \in best : f.root = ".hyper" \/ \A g \in best : Path(g) = Path(f) => g.root = "src"}

\* They say which one it is: those that could serve a request have one path, unless one has
\* the very path that is asked for, and a root has one file for a path and a method.
Unambiguous ==
  \A q \in Asked : \A f, g \in Handlers(OnDisk, q) :
    /\ Path(f) = Path(g) \/ \E h \in Handlers(OnDisk, q) : Path(h) = q.path
    /\ Path(f) = Path(g) /\ f.root = g.root => f = g

\* If so, then whatever order the file system lists them in, a request finds the same route,
\* and the one that was written for it: /agent/new is not the page of an agent called `new'.
ServedAlike ==
  loading = "serving" =>
    \A q \in Asked : IF Meant(q) = {} THEN Match(q) = Absent ELSE Meant(q) = {Match(q)}

\* What a reload leaves under a name, the next start would also choose for it; otherwise it
\* comes from a file that a scan does not make this name of, and is gone after a restart.
Chosen(n) ==
  LET usable == {f \in FnFiles(n) : f.ok}
  IN {f \in usable : f.root = ".hyper" \/ \A g \in usable : g.root = "src"}
Scans(n) == {f \in Of("fn") : Name(f) = n}
ReloadIsRestart ==
  [][loading = "serving" =>
       \A n \in LoadNames : functions'[n] # functions[n] =>
         functions'[n] \in Chosen(n) \/ functions'[n] \notin Scans(n)]_catalogVars
=============================================================================
