--------------------------- MODULE SelfDescription ---------------------------
(***************************************************************************)
(* self.describe (GET /self): which source a procedure runs, which files   *)
(* it could come from, and, when it is the shipped prompt composer, which  *)
(* text it puts into the prompt.  All of it is read, hashed and compared   *)
(* while files are written and functions replaced.  A description is taken *)
(* twice at most; if both times something moved, it claims nothing.        *)
(***************************************************************************)
EXTENDS Sources

CONSTANT Shipped   \* the lines of the shipped source

VARIABLE telling   \* the description under way, and what it is about to say

\* What is said of a procedure that nothing supports, its candidates unread.
NothingTold == [observed |-> FALSE, hash |-> Gone, path |-> "src", current |-> Gone,
                candidates |-> [p \in Candidates |-> Gone], text |-> Gone]
NotAsked == [at |-> "idle", attempt |-> 1, seen |-> {}, stamps |-> [p \in Paths |-> 0],
             stamp |-> 0, again |-> {}, says |-> NothingTold]

DescriptionInit == telling = NotAsked

DescriptionTypeOK(lines) ==
  telling \in [at : {"idle", "scanning", "scanned", "described", "surveying", "surveyed",
                     "hashing", "composing", "refreshing", "rehashing", "reconciling",
                     "rescanning", "checking", "told"},
               attempt : 1..2, seen : SUBSET Candidates, stamps : [Paths -> 0..MaxWrites],
               stamp : 0..MaxWrites, again : SUBSET Candidates,
               says : [observed : BOOLEAN, hash : lines, path : Candidates, current : lines,
                       candidates : [Candidates -> lines], text : lines]]

Present == {p \in Candidates : Exists(p)}

\* sourcePaths: the files of the scan, and the text of the prompt in any case.
Watched   == telling.seen \cup {"prompt"}
StampsNow == [p \in Paths |-> IF p \in Watched THEN file[p].version ELSE 0]

\* Functions are compared by identity, and a wrapper stays the same when what
\* it wraps is replaced.
Replaced == moved /\ ~Wrapped

Tells(t) == telling' = t /\ UNCHANGED <<file, live, receipt, load>>
Keeps    == UNCHANGED moved

-----------------------------------------------------------------------------
DescribeBegins == telling.at = "idle" /\ Tells([NotAsked EXCEPT !.at = "scanning"]) /\ Keeps

\* project.scan.
Scans == /\ telling.at = "scanning"
         /\ Tells([telling EXCEPT !.at = "scanned", !.seen = Present]) /\ Keeps

\* The version of every file, and the functions of the registry.
Snapshots ==
  /\ telling.at = "scanned"
  /\ Tells([telling EXCEPT !.at = "described", !.stamps = StampsNow])
  /\ moved' = FALSE

\* readableHash of the files the procedure could come from, one after the other.
\* (A write while a file is read leaves its hash out, which claims less.)
SurveyOf(p, from, to) ==
  /\ telling.at = from
  /\ Tells([telling EXCEPT !.at = to,
              !.says.candidates[p] = IF p \in telling.seen THEN Content(p) ELSE Gone])
  /\ Keeps
Surveys == SurveyOf("src", "described", "surveying") \/ SurveyOf("overlay", "surveying", "surveyed")

\* validateReceipt: the receipt is of the function that was live, and of a file
\* the scan has seen.
Supported == /\ receipt.current /\ ~Replaced
             /\ receipt.path \in telling.seen /\ Exists(receipt.path)

Resolution(observed, hash, path, says) ==
  [observed |-> observed, hash |-> hash, path |-> path, current |-> Gone,
   candidates |-> says.candidates, text |-> says.text]
Unsupported(says) == Resolution(FALSE, Gone, "src", says)
ByReceipt(says)   == Resolution(TRUE, receipt.hash, receipt.path, says)

\* isFreshBaseComposer: only of the shipped bytes is it known what they compose.
IsFreshBase(says) == /\ says.observed /\ says.path = "src"
                     /\ says.hash = Shipped /\ says.current = says.hash
\* unavailablePromptLayers.
Vouched(says) == IF IsFreshBase(says) THEN says ELSE [says EXCEPT !.text = Gone]

\* The first time, and once more after the prompt's layers.
Resolves ==
  /\ telling.at \in {"surveyed", "refreshing"}
  /\ LET first == telling.at = "surveyed" IN
     Tells(IF Supported
           THEN [telling EXCEPT !.at = IF first THEN "hashing" ELSE "rehashing",
                                !.stamp = file[receipt.path].version,
                                !.says = ByReceipt(telling.says)]
           ELSE [telling EXCEPT !.at = IF first THEN "composing" ELSE "reconciling",
                                !.says = Vouched(Unsupported(telling.says))])
  /\ Keeps

\* The file's hash, if it stood still meanwhile, and if the function is the same.
Hashed(says) ==
  IF Exists(says.path) /\ file[says.path].version = telling.stamp /\ ~Replaced
  THEN [says EXCEPT !.current = Content(says.path)] ELSE Unsupported(says)
HashedNow ==
  /\ telling.at \in {"hashing", "rehashing"}
  /\ Tells([telling EXCEPT !.at = IF telling.at = "hashing" THEN "composing" ELSE "reconciling",
                           !.stamp = 0, !.says = Vouched(Hashed(telling.says))])
  /\ Keeps

\* promptLayers: the text beside the composer, when the composer is the shipped one.
Composes ==
  /\ telling.at = "composing"
  /\ Tells([telling EXCEPT !.at = "refreshing",
              !.says.text = IF IsFreshBase(telling.says) THEN Content("prompt") ELSE Gone])
  /\ Keeps

\* The registry is read again: neither an entry that changed is vouched for
\* nor the prompt that it would have composed.
Reconciles ==
  /\ telling.at = "reconciling"
  /\ Tells([telling EXCEPT !.at = "rescanning",
                           !.says = IF Replaced THEN Vouched(Unsupported(@)) ELSE @])
  /\ moved' = FALSE

Rescans ==
  /\ telling.at = "rescanning"
  /\ Tells([telling EXCEPT !.at = "checking", !.again = Present]) /\ Keeps

\* Mutant of StoodStill: the versions of the files are not compared.
StoodStillByMembership == telling.again = telling.seen /\ ~Replaced

\* Files, versions and functions are the ones the snapshot began with.
StoodStill == telling.again = telling.seen /\ StampsNow = telling.stamps /\ ~Replaced

\* invalidateSourceFacts.
Invalidated == [NotAsked EXCEPT !.at = "told", !.says = NothingTold]

Checks ==
  /\ telling.at = "checking"
  /\ Tells(IF StoodStill THEN [NotAsked EXCEPT !.at = "told", !.says = telling.says]
           ELSE IF telling.attempt = 1
                THEN [NotAsked EXCEPT !.at = "scanning", !.attempt = 2]
                ELSE Invalidated)
  /\ Keeps
Sends == telling.at = "told" /\ Tells(NotAsked) /\ Keeps

DescribeStep ==
  \/ DescribeBegins \/ Scans \/ Snapshots \/ Surveys \/ Resolves \/ HashedNow \/ Composes
  \/ Reconciles \/ Rescans \/ Checks \/ Sends

-----------------------------------------------------------------------------
\* What a description says when it is returned: the live function is the one
\* compiled from the hash it names, the files have the hashes it names, and a
\* prompt's text is named only for the composer that uses it.
IsTrue(says) ==
  /\ says.observed => live = says.hash /\ Content(says.path) = says.current
  /\ \A p \in Candidates : says.candidates[p] # Gone => Content(p) = says.candidates[p]
  /\ says.text # Gone => live = Shipped /\ Content("prompt") = says.text
Returns == telling.at # "told" /\ telling'.at = "told"
=============================================================================
