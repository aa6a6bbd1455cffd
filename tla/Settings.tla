------------------------------ MODULE Settings ------------------------------
(***************************************************************************)
(* Declared settings: rows of the table override environment variables,    *)
(* which override what $setting_*.ts declares.  The form of                *)
(* /settings/declared submits every field it shows, touched or not; the    *)
(* page /settings writes keys to .env and to the environment the process   *)
(* holds.  A text is a string; None is the absence of a row, a variable,   *)
(* a line or a form, Null the declared default of a secret.                *)
(***************************************************************************)
EXTENDS Integers, Sequences, SequencesExt, FiniteSets

CONSTANTS
  None, Null,
  Kind,     \* the type of each declared setting
  Bound,    \* those that name an environment variable
  Default,  \* what each is declared with
  Options,  \* the choices of an enum, in order
  Texts,    \* what may be typed into, or exported for, each of them
  Shells,   \* environments the shell may give the process
  Files,    \* contents .env may have: sequences of lines
  Reread(_), \* what the parser of the next process reads of a value saveEnv() wrote
  Focus,    \* bound: the settings an operator edits, one of these sets
  MaxEdits, \* bound: fields changed between two submissions
  Tabs

Declared == DOMAIN Kind

ASSUME KindAssumption ==
  \A k \in Declared : Kind[k] \in {"enum", "string", "number", "boolean", "secret"}
ASSUME OptionsAssumption == Options # <<>> /\ None \notin Range(Options)
ASSUME TextAssumption ==  \* what is absent is no text, and a file is lines
  /\ {None, Null} \cap {"", "0", "1", "2", "NaN", "true", "false", "on"} = {}
  /\ \A lines \in Files : lines \in Seq(Range(lines))

VARIABLES
  focus,    \* the settings edited in this behaviour
  table,    \* settings of scope global: the value stored for each, or None
  shell,    \* the environment the process was started with
  file,     \* the lines of .env
  env,      \* ctx.env
  kept,     \* history, of each variable: "read" when the process started, "saved" by it into
            \* .env since, or "unsaved": a write failed that it should have outlived
  form      \* for each tab, the form it shows, or None

settingsVars == <<focus, table, shell, file, env, kept, form>>

-----------------------------------------------------------------------------
\* What is read and written as text.
Numerals == {"0", "1", "2"}

Number(raw) == IF raw = "" THEN "0" ELSE IF raw \in Numerals THEN raw ELSE "NaN"

Truth(raw, true) == IF raw \in true THEN "true" ELSE "false"

Parsed(k, raw) ==
  CASE Kind[k] = "number"  -> Number(raw)
    [] Kind[k] = "boolean" -> Truth(raw, {"true", "1"})
    [] OTHER -> raw

\* get(), for a setting of scope global.
Get(k) ==
  IF table[k] # None THEN table[k]
  ELSE IF k \in Bound /\ env[k] # None THEN Parsed(k, env[k])
  ELSE Default[k]

\* getString() without a fallback.
GetString(k) ==
  IF Get(k) # None /\ Get(k) # Null /\ Kind[k] \notin {"number", "boolean"}
  THEN Get(k) ELSE None

\* declared(): the same chain once more, with the place the value comes from.
Resolved(k) ==
  IF table[k] # None THEN [value |-> table[k], source |-> "db"]
  ELSE IF k \in Bound /\ env[k] # None
       THEN [value |-> Parsed(k, env[k]), source |-> "env"]
  ELSE [value |-> Default[k], source |-> "default"]

SetRow(k, v) == table' = [table EXCEPT ![k] = v]
RemoveRow(k) == table' = [table EXCEPT ![k] = None]

-----------------------------------------------------------------------------
\* What a browser submits of a field nobody touched.  A select shows its first
\* option for a value that is none of them, a number field drops what is no
\* number, a password field is empty, a box that is not checked is left out.
Untouched(k, v) ==
  CASE Kind[k] = "enum"    -> IF v \in Range(Options) THEN v ELSE Options[1]
    [] Kind[k] = "number"  -> IF v \in Numerals THEN v ELSE ""
    [] Kind[k] = "boolean" -> IF v = "true" THEN "true" ELSE None
    [] Kind[k] = "secret"  -> ""
    [] OTHER -> IF v = Null THEN "" ELSE v

\* The rendered form: its fields, those the operator changed, and what each
\* setting was when it was rendered.
Rendered == [field   |-> [k \in Declared |-> Untouched(k, Resolved(k).value)],
             touched |-> {},
             reset   |-> {k \in Declared : Resolved(k).source = "db"},
             seen    |-> [k \in Declared |-> Resolved(k).value]]

Submitted(k, raw) ==
  IF Kind[k] = "boolean" THEN Truth(raw, {"true", "1", "on"}) ELSE Parsed(k, raw)

\* A field the handler goes over without a look at the table.
Ignored(k, raw) ==
  /\ Kind[k] # "boolean"
  /\ \/ raw = None
     \/ Kind[k] = "secret" /\ raw = ""
     \/ Kind[k] = "enum" /\ raw \notin Range(Options)
     \/ Kind[k] = "number" /\ Number(raw) = "NaN"

\* Mutant of Stored: the empty field of a secret is taken for a secret.
StoredBlank(k, raw) ==
  IF Kind[k] # "secret" /\ (Ignored(k, raw) \/ Submitted(k, raw) = Get(k))
  THEN table[k] ELSE Submitted(k, raw)

\* What one field leaves in the table: a row only for a value that is new.
Stored(k, raw) ==
  IF Ignored(k, raw) \/ Submitted(k, raw) = Get(k) THEN table[k] ELSE Submitted(k, raw)

OpenForm(t) ==
  /\ form' = [form EXCEPT ![t] = Rendered]
  /\ UNCHANGED <<focus, table, shell, file, env, kept>>

Type(t, k, raw) ==
  /\ form[t] # None /\ k \in focus \ form[t].touched
  /\ Cardinality(form[t].touched) < MaxEdits
  /\ form' = [form EXCEPT ![t].field[k] = raw, ![t].touched = @ \cup {k}]
  /\ UNCHANGED <<focus, table, shell, file, env, kept>>

\* POST /settings/declared by "Save changes"; the answer replaces the form.
SaveForm(t) ==
  /\ form[t] # None
  /\ table' = [k \in Declared |-> Stored(k, form[t].field[k])]
  /\ UNCHANGED <<focus, shell, file, env, kept>>
  /\ form' = [form EXCEPT ![t] = Rendered']

\* The same by the button "reset" of one row.
ResetRow(t, k) ==
  /\ form[t] # None /\ k \in form[t].reset
  /\ RemoveRow(k)
  /\ UNCHANGED <<focus, shell, file, env, kept>>
  /\ form' = [form EXCEPT ![t] = Rendered']

-----------------------------------------------------------------------------
(* .env: a line assigns a value to a name, in a form saveEnv() recognises   *)
(* or with `export` in front, which it does not; the other lines stand for  *)
(* comments.  The value is what a process reads of the line.                *)
Line(k, v) == [name |-> k, value |-> v, plain |-> TRUE]
Assigns(l, k) == l.name = k /\ l.plain

\* What a process started now reads: the last line counts, and a variable of
\* the shell counts more.
Filed(lines, k) ==
  LET at == {i \in DOMAIN lines : lines[i].name = k}
  IN IF at = {} THEN None ELSE lines[CHOOSE i \in at : \A j \in at : j <= i].value

Booted(sh, lines) == [k \in DOMAIN env |-> IF sh[k] # None THEN sh[k] ELSE Filed(lines, k)]

\* The line saveEnv() writes: escape() quotes a value with blanks, quotes, # or $, and
\* protects nothing in it but double quotes.
Quoted(k, v) == Line(k, Reread(v))

\* Mutant of Written: only the first line of the name is written anew.
WrittenFirst(lines, k, v) ==
  LET at == {i \in DOMAIN lines : Assigns(lines[i], k)}
      first == CHOOSE i \in at : \A j \in at : i =< j
  IN IF at = {} THEN (IF v = "" THEN lines ELSE Append(lines, Quoted(k, v)))
     ELSE IF v = "" THEN RemoveAt(lines, first) ELSE [lines EXCEPT ![first] = Quoted(k, v)]

Without(lines, k) ==
  LET Kept[i \in 0 .. Len(lines)] ==
        IF i = 0 THEN <<>>
        ELSE IF Assigns(lines[i], k) THEN Kept[i - 1] ELSE Append(Kept[i - 1], lines[i])
  IN Kept[Len(lines)]

\* saveEnv(): every plain line of the name is rewritten or dropped; a name
\* without one gets a line at the end.
Written(lines, k, v) ==
  IF v = "" THEN Without(lines, k)
  ELSE IF \A i \in DOMAIN lines : ~Assigns(lines[i], k) THEN Append(lines, Quoted(k, v))
  ELSE [i \in DOMAIN lines |-> IF Assigns(lines[i], k) THEN Quoted(k, v) ELSE lines[i]]

\* The names the page /settings has a field for.
Secrets == {k \in Bound : Kind[k] = "secret"}

\* POST /settings/env: the environment of this process, then the file.
SaveEnv(k, v) ==
  /\ env' = [env EXCEPT ![k] = IF v = "" THEN None ELSE v]
  /\ file' = Written(file, k, v)
  /\ kept' = [kept EXCEPT ![k] = "saved"]
  /\ UNCHANGED <<focus, table, shell, form>>

\* The file cannot be opened for writing, or is cut while it is written, and the handler
\* throws: the environment has changed all the same.
SaveEnvFails(k, v) ==
  /\ env' = [env EXCEPT ![k] = IF v = "" THEN None ELSE v]
  /\ \/ /\ kept' = [kept EXCEPT ![k] = "unsaved"]
        /\ UNCHANGED file
     \/ /\ kept' = [name \in DOMAIN kept |-> "unsaved"]
        /\ \E n \in 0 .. Len(Written(file, k, v)) : file' = SubSeq(Written(file, k, v), 1, n)
  /\ UNCHANGED <<focus, table, shell, form>>

\* The page /settings says of a key whether it is set.
KeyIsSet(k) == env[k] \notin {None, ""}

\* startRuntime(): the environment, the declarations; no page is open.
Started(sh) ==
  /\ shell' = sh /\ env' = Booted(sh, file)
  /\ kept' = [k \in DOMAIN kept |-> "read"]
  /\ form' = [t \in Tabs |-> None]
  /\ UNCHANGED <<focus, table, file>>

SettingsInit ==
  /\ focus \in Focus
  /\ table = [k \in Declared |-> None]
  /\ shell \in Shells /\ file \in Files
  /\ env = [k \in Bound |-> IF shell[k] # None THEN shell[k] ELSE Filed(file, k)]
  /\ kept = [k \in Bound |-> "read"]
  /\ form = [t \in Tabs |-> None]

-----------------------------------------------------------------------------
\* The pages show what the program uses: declared.ts and get.ts walk the same chain
\* in two copies, and /settings looks at the environment alone, which is right as
\* long as no row says otherwise.
ShownIsUsed ==
  \A k \in Declared :
    /\ Resolved(k).value = Get(k)
    /\ (Kind[k] = "secret" /\ table[k] = None) => (KeyIsSet(k) <=> GetString(k) \notin {None, ""})

\* A value its field can show: others are replaced by saving the page.
Showable(k, v) ==
  CASE Kind[k] = "enum"    -> v \in Range(Options)
    [] Kind[k] = "number"  -> v \in Numerals
    [] Kind[k] = "boolean" -> v \in {"true", "false"}
    [] OTHER -> v \notin {None, Null} \/ Kind[k] = "secret"

\* Saving stores what the form says.  A valid text is the new value, whatever the
\* environment says.  A field nobody touched is saved as it was rendered, so that a form
\* that has become stale takes back what another tab has changed meanwhile; but it writes
\* no row for a value that nobody changed, and a secret it does not show stays what it is.
SaveIsTheEdit ==
  [][\A t \in Tabs : SaveForm(t) =>
       \A k \in Declared :
         LET f == form[t] IN
         /\ (k \in f.touched /\ ~Ignored(k, f.field[k])) => Get(k)' = Submitted(k, f.field[k])
         /\ (k \notin f.touched /\ Showable(k, f.seen[k])) =>
              IF Kind[k] = "secret" \/ f.seen[k] = Get(k) THEN table'[k] = table[k]
                                                        ELSE Get(k)' = f.seen[k]
    ]_settingsVars

\* What was saved into .env outlives the process: of every name that neither the shell nor
\* a line with `export` gives, the next process reads what this one read, or what its parser
\* makes of what this one saved last, unless a write has failed since.
KeysOutliveRestart ==
  \A k \in DOMAIN env :
    (/\ shell[k] = None /\ kept[k] # "unsaved"
     /\ \A i \in DOMAIN file : file[i].name = k => file[i].plain)
      => Booted(shell, file)[k] = IF kept[k] = "saved" /\ env[k] # None THEN Reread(env[k])
                                                                        ELSE env[k]
=============================================================================
