--------------------------- MODULE ModelCallProofs ---------------------------
(***************************************************************************)
(* Theorems about what a model is called with and what it answers: the      *)
(* settings and .env, the choice of a model, and the question asked outside *)
(* any conversation.  They hold for every set of settings, texts, files and *)
(* models, every number of open pages and every length of a stream.         *)
(***************************************************************************)
EXTENDS ModelChoice, OneOffCalls, Exchanges, SequenceTheorems, WellFoundedInduction, TLAPS

-----------------------------------------------------------------------------
(***************************************************************************)
(* Counting up: the induction theorems of the library take an operator,     *)
(* these lemmas take sets and functions.                                    *)
(***************************************************************************)

\* A set of natural numbers that is not empty has a least element.
LEMMA LeastOfNaturals ==
  ASSUME NEW T, T \subseteq Nat, T # {}
  PROVE  \E x \in T : \A y \in T : x <= y
<1> DEFINE Less == {ss \in Nat \X Nat : ss[1] < ss[2]}
<1>1. IsWellFoundedOn(Less, Nat)
  BY NatLessThanWellFounded DEF OpToRel
<1>2. PICK x \in T : \A y \in T : ~(<<y, x>> \in Less)
  <2> HIDE DEF Less
  <2> QED BY <1>1, WFMin
<1>3. ASSUME NEW y \in T PROVE x <= y
  <2>1. ~(<<y, x>> \in Less) /\ x \in Nat /\ y \in Nat
    BY <1>2
  <2>2. ~(y < x)
    BY <2>1
  <2> QED BY <2>1, <2>2
<1> QED BY <1>3

\* A set that holds 0, and each number up to n whose predecessor it holds, holds them all.
LEMMA Upwards ==
  ASSUME NEW n \in Nat, NEW S, 0 \in S,
         \A i \in 1 .. n : i - 1 \in S => i \in S
  PROVE  0 .. n \subseteq S
<1> DEFINE Missing == {i \in 0 .. n : i \notin S}
<1>1. SUFFICES ASSUME Missing # {} PROVE FALSE
  OBVIOUS
<1>2. PICK i \in Missing : \A j \in Missing : i <= j
  <2>1. Missing \subseteq Nat
    OBVIOUS
  <2> HIDE DEF Missing
  <2> QED BY <1>1, <2>1, LeastOfNaturals
<1>3. i \in 1 .. n /\ i \notin S
  OBVIOUS
<1>4. ~(i <= i - 1) /\ i - 1 \in 0 .. n
  BY <1>3
<1>5. i - 1 \in S
  BY <1>2, <1>4
<1> QED BY <1>3, <1>5

Turns(n, S, turn) == \A i \in 1 .. n : turn[i] \in [S -> S]
Walks(n, S, base, turn, g) ==
  /\ g \in [0 .. n -> S] /\ g[0] = base
  /\ \A i \in 1 .. n : g[i] = turn[i][g[i - 1]]

\* Steps that are functions can be taken one after the other: turn[i] is the i-th.
LEMMA Stepwise ==
  ASSUME NEW n \in Nat, NEW S, NEW base \in S, NEW turn, Turns(n, S, turn)
  PROVE  \E g : Walks(n, S, base, turn, g)
<1> USE DEF Turns
<1> DEFINE Goes(m, g) == Walks(m, S, base, turn, g)
           Good == {m \in 0 .. n : \E g : Goes(m, g)}
<1>1. 0 \in Good
  <2>1. Goes(0, [i \in 0 .. 0 |-> base])
    BY DEF Walks
  <2> HIDE DEF Goes
  <2> QED BY <2>1
<1>2. ASSUME NEW m \in 1 .. n, m - 1 \in Good PROVE m \in Good
  <2>1. PICK g : Goes(m - 1, g)
    BY <1>2
  <2> USE DEF Walks
  <2> DEFINE h == [i \in 0 .. m |-> IF i = m THEN turn[m][g[m - 1]] ELSE g[i]]
  <2>2. h \in [0 .. m -> S]
    <3>1. g[m - 1] \in S
      BY <2>1
    <3>2. turn[m][g[m - 1]] \in S
      BY <3>1
    <3>3. \A i \in 0 .. m : i # m => g[i] \in S
      BY <2>1
    <3> QED BY <3>2, <3>3
  <2>3. h[0] = base
    BY <2>1
  <2>4. ASSUME NEW i \in 1 .. m PROVE h[i] = turn[i][h[i - 1]]
    <3>1. i - 1 \in 0 .. m /\ i - 1 # m /\ i \in 0 .. m
      OBVIOUS
    <3>2. h[i - 1] = g[i - 1]
      BY <3>1
    <3>3. CASE i = m
      BY <3>1, <3>2, <3>3
    <3>4. CASE i # m
      <4>1. i \in 1 .. m - 1
        BY <3>4
      <4>2. h[i] = g[i]
        BY <3>1, <3>4
      <4> HIDE DEF h
      <4> QED BY <4>1, <4>2, <3>2, <2>1
    <3> QED BY <3>3, <3>4
  <2>5. Goes(m, h)
    <3> HIDE DEF h
    <3> QED BY <2>2, <2>3, <2>4
  <2> HIDE DEF h, Goes
  <2> QED BY <2>5
<1>3. 0 .. n \subseteq Good
  <2> HIDE DEF Good
  <2> QED BY <1>1, <1>2, Upwards
<1>4. n \in Good
  <2> HIDE DEF Good
  <2> QED BY <1>3
<1>5. PICK g : Goes(n, g)
  BY <1>4
<1> QED BY <1>5

\* The first n elements of two sequences are the same.
Continues(n, seq, longer) == \A i \in 1 .. n : longer[i] = seq[i]

\* What Chosen() has taken of the first n elements, for every n up to m.
Choosing(seq, at, m, g) ==
  g = [n \in 0 .. m |->
         IF n = 0 THEN <<>>
         ELSE IF n \in at THEN Append(g[n - 1], seq[n]) ELSE g[n - 1]]

LEMMA ChoosingEnds ==
  ASSUME NEW T, NEW seq, NEW at, NEW m \in Nat, \A i \in 1 .. m : i \in at => seq[i] \in T
  PROVE  \E g : Choosing(seq, at, m, g) /\ g \in [0 .. m -> Seq(T)]
<1> DEFINE turn == [i \in 1 .. m |-> [s \in Seq(T) |->
                      IF i \in at THEN Append(s, seq[i]) ELSE s]]
<1>1. ASSUME NEW i \in 1 .. m PROVE turn[i] \in [Seq(T) -> Seq(T)]
  <2>1. \A s \in Seq(T) : (IF i \in at THEN Append(s, seq[i]) ELSE s) \in Seq(T)
    OBVIOUS
  <2> QED BY <2>1
<1>2. PICK U : U = Seq(T)
  OBVIOUS
<1>3. PICK g : Walks(m, U, <<>>, turn, g)
  <2>1. Turns(m, U, turn)
    BY <1>1, <1>2 DEF Turns
  <2>2. <<>> \in U
    BY <1>2
  <2> HIDE DEF turn
  <2> QED BY <2>1, <2>2, Stepwise
<1>4. g \in [0 .. m -> Seq(T)] /\ g[0] = <<>> /\ \A i \in 1 .. m : g[i] = turn[i][g[i - 1]]
  <2> HIDE DEF turn
  <2> QED BY <1>2, <1>3 DEF Walks
<1>5. ASSUME NEW n \in 0 .. m
      PROVE  g[n] = IF n = 0 THEN <<>>
                    ELSE IF n \in at THEN Append(g[n - 1], seq[n]) ELSE g[n - 1]
  <2>1. CASE n = 0
    BY <2>1, <1>4
  <2>2. CASE n # 0
    <3>1. n \in 1 .. m /\ g[n - 1] \in Seq(T)
      BY <2>2, <1>4
    <3> QED BY <3>1, <2>2, <1>4
  <2> QED BY <2>1, <2>2
<1>6. g = [n \in 0 .. m |-> g[n]]
  BY <1>4
<1>7. Choosing(seq, at, m, g)
  BY <1>5, <1>6 DEF Choosing
<1> QED BY <1>4, <1>7

\* There is one way to choose, and only the positions there are count.
SameAt(n, at, others) == \A i \in 1 .. n : i \in at <=> i \in others

LEMMA SameChoosing ==
  ASSUME NEW n \in Nat, NEW m \in Nat, n <= m, NEW seq, NEW longer, Continues(n, seq, longer),
         NEW at, NEW others, SameAt(n, at, others),
         NEW g, Choosing(seq, at, n, g), NEW h, Choosing(longer, others, m, h)
  PROVE  \A i \in 0 .. n : g[i] = h[i]
<1> DEFINE S == {i \in 0 .. n : g[i] = h[i]}
<1>1. 0 \in S
  BY DEF Choosing
<1>2. ASSUME NEW i \in 1 .. n, i - 1 \in S PROVE i \in S
  <2>1. i \in 0 .. n /\ i \in 0 .. m /\ i # 0 /\ longer[i] = seq[i] /\ (i \in at <=> i \in others)
    BY DEF Continues, SameAt
  <2>2. g[i] = IF i \in at THEN Append(g[i - 1], seq[i]) ELSE g[i - 1]
    BY <2>1 DEF Choosing
  <2>3. h[i] = IF i \in others THEN Append(h[i - 1], longer[i]) ELSE h[i - 1]
    BY <2>1 DEF Choosing
  <2> QED BY <1>2, <2>1, <2>2, <2>3
<1>3. 0 .. n \subseteq S
  <2> HIDE DEF S
  <2> QED BY <1>1, <1>2, Upwards
<1> QED BY <1>3

\* What is chosen are elements, and of nothing nothing is chosen.
LEMMA ChosenTyped ==
  ASSUME NEW S, NEW seq \in Seq(S), NEW at, NEW T, \A i \in 1 .. Len(seq) : i \in at => seq[i] \in T
  PROVE  Chosen(seq, at) \in Seq(T) /\ (seq = <<>> => Chosen(seq, at) = <<>>)
<1>1. PICK m \in Nat : m = Len(seq)
  OBVIOUS
<1>2. PICK g : g = CHOOSE f : Choosing(seq, at, m, f)
  OBVIOUS
<1>3. Chosen(seq, at) = g[m]
  BY <1>1, <1>2 DEF Chosen, Choosing
<1>4. PICK h : Choosing(seq, at, m, h) /\ h \in [0 .. m -> Seq(T)]
  BY <1>1, ChoosingEnds
<1>5. Choosing(seq, at, m, g)
  BY <1>2, <1>4
<1>6. g[m] = h[m]
  <2>1. Continues(m, seq, seq) /\ SameAt(m, at, at) /\ m \in 0 .. m
    BY DEF Continues, SameAt
  <2>2. \A i \in 0 .. m : g[i] = h[i]
    BY <2>1, <1>4, <1>5, SameChoosing
  <2> QED BY <2>1, <2>2
<1>7. m = 0 => h[m] = <<>>
  BY <1>4 DEF Choosing
<1> QED BY <1>1, <1>3, <1>4, <1>6, <1>7

\* One more element is chosen or not, whatever becomes of the positions after it.
LEMMA ChosenGrows ==
  ASSUME NEW S, NEW seq \in Seq(S), NEW e \in S, NEW at, NEW others, SameAt(Len(seq), at, others)
  PROVE  Chosen(Append(seq, e), others)
           = IF Len(seq) + 1 \in others THEN Append(Chosen(seq, at), e) ELSE Chosen(seq, at)
<1>1. PICK n \in Nat : n = Len(seq)
  OBVIOUS
<1>2. PICK m \in Nat : m = n + 1
  OBVIOUS
<1>3. PICK longer : longer = Append(seq, e)
  OBVIOUS
<1>4. longer \in Seq(S) /\ Len(longer) = m /\ longer[m] = e
  BY <1>1, <1>2, <1>3
<1>5. Continues(n, seq, longer) /\ SameAt(n, at, others)
  BY <1>1, <1>3 DEF Continues
<1>6. PICK g : g = CHOOSE f : Choosing(seq, at, n, f)
  OBVIOUS
<1>7. PICK h : h = CHOOSE f : Choosing(longer, others, m, f)
  OBVIOUS
<1>8. Choosing(seq, at, n, g)
  <2>1. \A i \in 1 .. n : i \in at => seq[i] \in S
    BY <1>1
  <2>2. \E f : Choosing(seq, at, n, f)
    BY <2>1, ChoosingEnds
  <2> QED BY <2>2, <1>6
<1>9. Choosing(longer, others, m, h)
  <2>1. \A i \in 1 .. m : i \in others => longer[i] \in S
    BY <1>4
  <2>2. \E f : Choosing(longer, others, m, f)
    BY <2>1, ChoosingEnds
  <2> QED BY <2>2, <1>7
<1>10. g[n] = h[n]
  <2>1. n <= m /\ n \in 0 .. n
    BY <1>2
  <2>2. \A i \in 0 .. n : g[i] = h[i]
    BY <2>1, <1>5, <1>8, <1>9, SameChoosing
  <2> QED BY <2>1, <2>2
<1>11. h[m] = IF m \in others THEN Append(h[n], e) ELSE h[n]
  <2>1. m \in 0 .. m /\ m # 0 /\ m - 1 = n
    BY <1>2
  <2>2. h[m] = IF m \in others THEN Append(h[m - 1], longer[m]) ELSE h[m - 1]
    BY <2>1, <1>9 DEF Choosing
  <2> QED BY <2>1, <2>2, <1>4
<1>12. Chosen(seq, at) = g[n] /\ Chosen(longer, others) = h[m]
  BY <1>1, <1>4, <1>6, <1>7 DEF Chosen, Choosing
<1> QED BY <1>1, <1>2, <1>3, <1>10, <1>11, <1>12

-----------------------------------------------------------------------------
(***************************************************************************)
(* The question outside a conversation.                                    *)
(***************************************************************************)

StreamEvents == {e \in [type : {"delta", "noise", "completed", "incomplete", "failed"},
                   text : Spoken \cup {"none"}] : e.type = "delta" => e.text \in Spoken}

\* What SaidSoFar has put together of the first i events, for every i up to n.
Saying(log, n, g) ==
  g = [i \in 0 .. n |->
         IF i = 0 THEN <<>>
         ELSE IF log[i].type = "delta" THEN Append(g[i - 1], log[i].text) ELSE g[i - 1]]

SaidOf(log) == (CHOOSE g : Saying(log, Len(log), g))[Len(log)]

LEMMA SayingEnds ==
  ASSUME NEW log \in Seq(StreamEvents), NEW n \in Nat, n <= Len(log)
  PROVE  \E g : Saying(log, n, g) /\ g \in [0 .. n -> Seq(Spoken)]
<1> DEFINE turn == [i \in 1 .. n |-> [s \in Seq(Spoken) |->
                      IF log[i].type = "delta" THEN Append(s, log[i].text) ELSE s]]
<1>1. ASSUME NEW i \in 1 .. n PROVE turn[i] \in [Seq(Spoken) -> Seq(Spoken)]
  <2>1. log[i] \in StreamEvents
    BY Len(log) \in Nat
  <2>2. log[i].type = "delta" => log[i].text \in Spoken
    BY <2>1 DEF StreamEvents
  <2>3. \A s \in Seq(Spoken) :
          (IF log[i].type = "delta" THEN Append(s, log[i].text) ELSE s) \in Seq(Spoken)
    BY <2>2
  <2> QED BY <2>3
<1>2. <<>> \in Seq(Spoken)
  OBVIOUS
<1>3. PICK g \in [0 .. n -> Seq(Spoken)] : g[0] = <<>> /\ \A i \in 1 .. n : g[i] = turn[i][g[i - 1]]
  <2>1. Turns(n, Seq(Spoken), turn)
    BY <1>1 DEF Turns
  <2>2. \E g : Walks(n, Seq(Spoken), <<>>, turn, g)
    <3> HIDE DEF turn
    <3> QED BY <2>1, <1>2, Stepwise
  <2> HIDE DEF turn
  <2> QED BY <2>2 DEF Walks
<1>4. ASSUME NEW i \in 0 .. n
      PROVE  g[i] = IF i = 0 THEN <<>>
                    ELSE IF log[i].type = "delta" THEN Append(g[i - 1], log[i].text) ELSE g[i - 1]
  <2>1. CASE i = 0
    BY <2>1, <1>3
  <2>2. CASE i # 0
    <3>1. i \in 1 .. n /\ g[i - 1] \in Seq(Spoken)
      BY <2>2
    <3> QED BY <3>1, <2>2, <1>3
  <2> QED BY <2>1, <2>2
<1>5. g = [i \in 0 .. n |-> g[i]]
  OBVIOUS
<1>6. Saying(log, n, g)
  BY <1>4, <1>5 DEF Saying
<1> QED BY <1>6

\* There is one way to put the first events together, whatever comes after them.
LEMMA SameSaying ==
  ASSUME NEW n \in Nat, NEW log, NEW longer, NEW m \in Nat, n <= m,
         Continues(n, log, longer),
         NEW g, Saying(log, n, g), NEW h, Saying(longer, m, h)
  PROVE  \A i \in 0 .. n : g[i] = h[i]
<1> DEFINE S == {i \in 0 .. n : g[i] = h[i]}
<1>1. 0 \in S
  BY DEF Saying
<1>2. ASSUME NEW i \in 1 .. n, i - 1 \in S PROVE i \in S
  <2>1. i \in 0 .. n /\ i \in 0 .. m /\ i # 0 /\ longer[i] = log[i]
    BY DEF Continues
  <2>2. g[i] = IF log[i].type = "delta" THEN Append(g[i - 1], log[i].text) ELSE g[i - 1]
    BY <2>1 DEF Saying
  <2>3. h[i] = IF longer[i].type = "delta" THEN Append(h[i - 1], longer[i].text) ELSE h[i - 1]
    BY <2>1 DEF Saying
  <2> QED BY <1>2, <2>1, <2>2, <2>3
<1>3. 0 .. n \subseteq S
  <2> HIDE DEF S
  <2> QED BY <1>1, <1>2, Upwards
<1> QED BY <1>3

\* What was said is a sequence of what deltas may say, and nothing before the first.
LEMMA SaidTyped ==
  ASSUME NEW log \in Seq(StreamEvents)
  PROVE  SaidOf(log) \in Seq(Spoken) /\ (log = <<>> => SaidOf(log) = <<>>)
<1>1. PICK n \in Nat : n = Len(log)
  OBVIOUS
<1>2. PICK g : g = CHOOSE f : Saying(log, n, f)
  OBVIOUS
<1>3. PICK h : Saying(log, n, h) /\ h \in [0 .. n -> Seq(Spoken)]
  BY <1>1, SayingEnds
<1>4. Saying(log, n, g)
  BY <1>2, <1>3
<1>5. \A i \in 0 .. n : g[i] = h[i]
  <2>1. Continues(n, log, log)
    BY DEF Continues
  <2> QED BY <2>1, <1>3, <1>4, SameSaying
<1>6. SaidOf(log) = h[n]
  BY <1>1, <1>2, <1>5 DEF SaidOf
<1>7. n = 0 => h[n] = <<>>
  BY <1>3 DEF Saying
<1> QED BY <1>6, <1>7, <1>3, <1>1

\* One more event says what it says, and changes nothing else.
LEMMA SaidGrows ==
  ASSUME NEW log \in Seq(StreamEvents), NEW e \in StreamEvents
  PROVE  SaidOf(Append(log, e))
           = IF e.type = "delta" THEN Append(SaidOf(log), e.text) ELSE SaidOf(log)
<1>1. PICK n \in Nat : n = Len(log)
  OBVIOUS
<1>2. PICK longer : longer = Append(log, e)
  OBVIOUS
<1>3. longer \in Seq(StreamEvents) /\ Len(longer) = n + 1 /\ longer[n + 1] = e
  BY <1>1, <1>2
<1>4. Continues(n, log, longer)
  BY <1>1, <1>2 DEF Continues
<1>5. PICK g : g = CHOOSE f : Saying(log, n, f)
  OBVIOUS
<1>6. PICK h : h = CHOOSE f : Saying(longer, n + 1, f)
  OBVIOUS
<1>7. Saying(log, n, g)
  <2>1. \E f : Saying(log, n, f)
    BY <1>1, SayingEnds
  <2> QED BY <2>1, <1>5
<1>8. Saying(longer, n + 1, h)
  <2>1. n + 1 \in Nat /\ n + 1 <= Len(longer)
    BY <1>3
  <2>2. \E f : Saying(longer, n + 1, f)
    BY <2>1, <1>3, SayingEnds
  <2> QED BY <2>2, <1>6
<1>9. g[n] = h[n]
  <2>1. n + 1 \in Nat /\ n <= n + 1 /\ n \in 0 .. n
    OBVIOUS
  <2>2. PICK m \in Nat : m = n + 1
    BY <2>1
  <2>3. n <= m /\ Saying(longer, m, h)
    BY <2>1, <2>2, <1>8
  <2>4. \A i \in 0 .. n : g[i] = h[i]
    BY <2>3, <1>4, <1>7, SameSaying
  <2> QED BY <2>1, <2>4
<1>10. h[n + 1] = IF e.type = "delta" THEN Append(h[n], e.text) ELSE h[n]
  <2>1. PICK m \in Nat : m = n + 1
    OBVIOUS
  <2>2. m \in 0 .. m /\ m # 0 /\ m - 1 = n
    BY <2>1
  <2>3. Saying(longer, m, h)
    BY <2>1, <1>8
  <2>4. h[m] = IF longer[m].type = "delta" THEN Append(h[m - 1], longer[m].text) ELSE h[m - 1]
    BY <2>2, <2>3 DEF Saying
  <2> QED BY <2>1, <2>2, <2>4, <1>3
<1> QED BY <1>1, <1>2, <1>3, <1>5, <1>6, <1>9, <1>10 DEF SaidOf

LEMMA SaidSoFarIs == SaidSoFar = SaidOf(sent)
  BY DEF SaidSoFar, SaidOf, Saying

OneOffTyped ==
  /\ endpoint \in [api : {"responses", "chat", "messages"}, key : {"good", "unreadable", "none"}]
  /\ limit \in Int /\ size \in Sources
  /\ asked \in [shown : Int, cut : BOOLEAN]
  /\ sent \in Seq(StreamEvents) /\ heard \in Seq(Spoken)

\* The deltas heard are what was said, as long as there is no answer.
Listened ==
  /\ step \in {"looking", "reading", "asking"} => sent = <<>> /\ heard = <<>>
  /\ step = "listening" => heard = SaidSoFar

\* From the question on, the file is what was asked about.
AskedOfIt == step \in {"asking", "listening", "answered"} => asked.shown = size \/ asked.cut

OneOffInv == OneOffTyped /\ Listened /\ AskedOfIt /\ AnswerIsWhatWasSaid

\* A question shows the whole file or tells of the cut, for every limit.
LEMMA CutIsTold ==
  ASSUME NEW length \in Nat, NEW n \in Int
  PROVE  /\ Question(length, n) \in [shown : Int, cut : BOOLEAN]
         /\ Question(length, n).shown = length \/ Question(length, n).cut
<1> DEFINE shown == IF length > n THEN Slice(length, n) ELSE length
<1>1. shown \in Int /\ (shown = length \/ length > shown)
  BY DEF Slice
<1>2. Question(length, n) = [shown |-> shown, cut |-> length > shown]
  BY DEF Question
<1>3. CASE length > shown
  <2>1. Question(length, n) = [shown |-> shown, cut |-> TRUE]
    BY <1>2, <1>3
  <2> HIDE DEF shown
  <2> QED BY <2>1, <1>1
<1>4. CASE ~(length > shown)
  <2>1. Question(length, n) = [shown |-> shown, cut |-> FALSE]
    <3>1. (length > shown) = FALSE
      <4> HIDE DEF shown
      <4> QED BY <1>4
    <3> QED BY <1>2, <3>1
  <2> HIDE DEF shown
  <2> QED BY <2>1, <1>1, <1>4
<1> QED BY <1>3, <1>4

LEMMA OneOffTypedKept == OneOffTyped /\ [OneOffNext]_oneOffVars => OneOffTyped'
<1> SUFFICES ASSUME OneOffTyped, [OneOffNext]_oneOffVars PROVE OneOffTyped'
  OBVIOUS
<1>1. CASE UNCHANGED oneOffVars
  BY <1>1 DEF OneOffTyped, oneOffVars
<1>2. CASE \E n \in Sources : FileChanges(n)
  BY <1>2 DEF OneOffTyped, FileChanges
<1>3. CASE Exists \/ Posts \/ Refused \/ Closes
  <2>1. UNCHANGED <<endpoint, limit, size, asked, sent, heard>>
    BY <1>3 DEF Exists, Posts, Refused, Closes, Throws, Settled
  <2> QED BY <2>1 DEF OneOffTyped
<1>4. CASE Reads
  <2>1. size # -1 => size \in Nat
    BY OneOffAssumption DEF OneOffTyped, Sources
  <2>2. asked' = asked \/ asked' \in [shown : Int, cut : BOOLEAN]
    <3>1. CASE size = -1
      BY <1>4, <3>1 DEF Reads, Throws
    <3>2. CASE size # -1
      <4>1. asked' = Question(size, limit)
        BY <1>4, <3>2 DEF Reads
      <4>2. size \in Nat /\ limit \in Int
        BY <3>2, <2>1 DEF OneOffTyped
      <4> QED BY <4>1, <4>2, CutIsTold
    <3> QED BY <3>1, <3>2
  <2>3. UNCHANGED <<endpoint, limit, size, sent, heard>>
    BY <1>4 DEF Reads, Throws
  <2> QED BY <2>2, <2>3 DEF OneOffTyped
<1>5. CASE \E text \in Spoken : ChatAnswers(text)
  <2>1. PICK text \in Spoken : ChatAnswers(text)
    BY <1>5
  <2>2. sent' = <<[type |-> "delta", text |-> text]>> /\ UNCHANGED <<endpoint, limit, size, asked, heard>>
    BY <2>1 DEF ChatAnswers
  <2>3. [type |-> "delta", text |-> text] \in StreamEvents
    BY DEF StreamEvents
  <2> QED BY <2>2, <2>3 DEF OneOffTyped
<1>6. CASE \E text \in Spoken : Hears(text)
  <2>1. PICK text \in Spoken : Hears(text)
    BY <1>6
  <2>2. /\ sent' = Append(sent, [type |-> "delta", text |-> text]) /\ heard' = Append(heard, text)
        /\ UNCHANGED <<endpoint, limit, size, asked>>
    BY <2>1 DEF Hears
  <2>3. [type |-> "delta", text |-> text] \in StreamEvents
    BY DEF StreamEvents
  <2> QED BY <2>2, <2>3 DEF OneOffTyped
<1>7. CASE Noise
  <2>1. [type |-> "noise", text |-> "none"] \in StreamEvents
    BY DEF StreamEvents
  <2> QED BY <2>1, <1>7 DEF OneOffTyped, Noise
<1>8. CASE \E word \in {"completed", "incomplete", "failed"}, whole \in BOOLEAN : LastWord(word, whole)
  <2>1. PICK word \in {"completed", "incomplete", "failed"}, whole \in BOOLEAN : LastWord(word, whole)
    BY <1>8
  <2>2. [type |-> word, text |-> "none"] \in StreamEvents
    BY DEF StreamEvents
  <2> QED BY <2>1, <2>2 DEF OneOffTyped, LastWord
<1> QED
  BY <1>1, <1>2, <1>3, <1>4, <1>5, <1>6, <1>7, <1>8 DEF OneOffNext

LEMMA ListenedKept == OneOffTyped /\ Listened /\ [OneOffNext]_oneOffVars => Listened'
<1> SUFFICES ASSUME OneOffTyped, Listened, [OneOffNext]_oneOffVars PROVE Listened'
  OBVIOUS
<1>1. SaidSoFar' = SaidOf(sent')
  BY DEF SaidSoFar, SaidOf, Saying
<1>2. CASE UNCHANGED <<sent, heard>> /\ (step' = step \/ step' \in {"answered", "failed"})
  BY <1>1, <1>2, SaidSoFarIs DEF Listened
<1>3. CASE step \in {"looking", "reading", "asking"} /\ UNCHANGED <<sent, heard>>
  <2>1. sent = <<>> /\ heard = <<>> /\ SaidOf(sent) = <<>>
    BY <1>3, SaidTyped DEF Listened, OneOffTyped
  <2> QED BY <2>1, <1>1, <1>3 DEF Listened
<1>4. CASE \E text \in Spoken : Hears(text)
  <2>1. PICK text \in Spoken : Hears(text)
    BY <1>4
  <2>2. PICK e : e = [type |-> "delta", text |-> text]
    OBVIOUS
  <2>3. e \in StreamEvents /\ e.type = "delta" /\ e.text = text
    BY <2>2 DEF StreamEvents
  <2>4. step = "listening" /\ step' = step /\ sent' = Append(sent, e) /\ heard' = Append(heard, text)
    BY <2>1, <2>2 DEF Hears, Listening
  <2>5. SaidOf(sent') = Append(SaidOf(sent), text)
    BY <2>3, <2>4, SaidGrows DEF OneOffTyped
  <2> QED BY <2>4, <2>5, <1>1, SaidSoFarIs DEF Listened
<1>5. CASE Noise
  <2>1. PICK e : e = [type |-> "noise", text |-> "none"]
    OBVIOUS
  <2>2. e \in StreamEvents /\ e.type # "delta"
    BY <2>1 DEF StreamEvents
  <2>3. step = "listening" /\ step' = step /\ sent' = Append(sent, e) /\ heard' = heard
    BY <1>5, <2>1 DEF Noise, Listening
  <2>4. SaidOf(sent') = SaidOf(sent)
    BY <2>2, <2>3, SaidGrows DEF OneOffTyped
  <2> QED BY <2>3, <2>4, <1>1, SaidSoFarIs DEF Listened
<1>6. CASE step' \in {"answered", "failed"}
  BY <1>6 DEF Listened
<1>7. Exists \/ Reads \/ Posts \/ (\E n \in Sources : FileChanges(n))
        => step \in {"looking", "reading", "asking"} /\ UNCHANGED <<sent, heard>>
  BY DEF Exists, Reads, Posts, FileChanges, Throws
<1>8. Refused \/ Closes => UNCHANGED <<sent, heard>> /\ step' \in {"answered", "failed"}
  BY DEF Refused, Closes, Throws, Settled
<1>9. ASSUME NEW text \in Spoken, ChatAnswers(text) PROVE step' = "answered"
  BY <1>9 DEF ChatAnswers, Settled
<1>10. ASSUME NEW word, NEW whole, LastWord(word, whole) PROVE step' = "answered"
  BY <1>10 DEF LastWord, Settled
<1>11. UNCHANGED oneOffVars => UNCHANGED <<step, sent, heard>>
  BY DEF oneOffVars
<1> QED
  BY <1>2, <1>3, <1>4, <1>5, <1>6, <1>7, <1>8, <1>9, <1>10, <1>11 DEF OneOffNext

LEMMA AskedKept == OneOffTyped /\ AskedOfIt /\ [OneOffNext]_oneOffVars => AskedOfIt'
<1> SUFFICES ASSUME OneOffTyped, AskedOfIt, [OneOffNext]_oneOffVars PROVE AskedOfIt'
  OBVIOUS
<1>1. CASE Reads
  <2>1. CASE size = -1
    BY <1>1, <2>1 DEF Reads, Throws, AskedOfIt
  <2>2. CASE size # -1
    <3>1. asked' = Question(size, limit) /\ size' = size
      BY <1>1, <2>2 DEF Reads
    <3>2. size \in Nat /\ limit \in Int
      BY <2>2, OneOffAssumption DEF OneOffTyped, Sources
    <3>3. Question(size, limit).shown = size \/ Question(size, limit).cut
      BY <3>2, CutIsTold
    <3> QED BY <3>1, <3>3 DEF AskedOfIt
  <2> QED BY <2>1, <2>2
<1>2. CASE step' \in {"looking", "reading", "failed"}
  BY <1>2 DEF AskedOfIt
<1>3. CASE UNCHANGED <<asked, size>> /\ step \in {"asking", "listening", "answered"}
  BY <1>3 DEF AskedOfIt
<1>4. CASE UNCHANGED oneOffVars
  BY <1>4 DEF AskedOfIt, oneOffVars
<1>5. Exists \/ (\E n \in Sources : FileChanges(n)) => step' \in {"looking", "reading", "failed"}
  BY DEF Exists, FileChanges, Throws
<1>6. Posts \/ Refused \/ Noise \/ Closes
        => UNCHANGED <<asked, size>> /\ step \in {"asking", "listening", "answered"}
  BY DEF Posts, Refused, Noise, Closes, Listening, Throws, Settled
<1>7. ASSUME NEW text \in Spoken, ChatAnswers(text) \/ Hears(text)
      PROVE  UNCHANGED <<asked, size>> /\ step \in {"asking", "listening", "answered"}
  BY <1>7 DEF ChatAnswers, Hears, Listening
<1>8. ASSUME NEW word, NEW whole, LastWord(word, whole)
      PROVE  UNCHANGED <<asked, size>> /\ step \in {"asking", "listening", "answered"}
  BY <1>8 DEF LastWord, Listening
<1> QED
  BY <1>1, <1>2, <1>3, <1>4, <1>5, <1>6, <1>7, <1>8 DEF OneOffNext

\* The three ways to an answer, each with the invariant before it.
LEMMA AnswerMade ==
  ASSUME OneOffTyped, Listened, step = "listening", AskedOfIt', step' = "answered",
         \/ \E text \in Spoken : ChatAnswers(text)
         \/ \E word \in {"completed", "incomplete", "failed"}, whole \in BOOLEAN : LastWord(word, whole)
         \/ Closes
  PROVE  AnswerIsWhatWasSaid'
<1>1. SaidSoFar' = SaidOf(sent') /\ SaidSoFar = SaidOf(sent) /\ heard = SaidSoFar
  BY SaidSoFarIs DEF SaidSoFar, SaidOf, Saying, Listened
<1>2. asked'.shown = size' \/ asked'.cut
  BY DEF AskedOfIt
<1>3. CASE \E text \in Spoken : ChatAnswers(text)
  <2>1. PICK text \in Spoken : ChatAnswers(text)
    BY <1>3
  <2>2. PICK e : e = [type |-> "delta", text |-> text]
    OBVIOUS
  <2>3. e \in StreamEvents /\ e.type = "delta" /\ e.text = text
    BY <2>2 DEF StreamEvents
  <2>4. /\ sent' = <<e>> /\ answer' = [text |-> <<text>>, finish |-> "stop"]
        /\ endpoint' = endpoint /\ endpoint.api = "chat"
    BY <2>1, <2>2 DEF ChatAnswers, Settled
  <2>5. SaidOf(<<e>>) = <<text>>
    <3>1. <<>> \in Seq(StreamEvents) /\ Append(<<>>, e) = <<e>> /\ Append(<<>>, text) = <<text>>
      OBVIOUS
    <3> QED BY <3>1, <2>3, SaidGrows, SaidTyped
  <2> QED BY <2>4, <2>5, <1>1, <1>2 DEF AnswerIsWhatWasSaid
<1>4. CASE \E word \in {"completed", "incomplete", "failed"}, whole \in BOOLEAN : LastWord(word, whole)
  <2>1. PICK word \in {"completed", "incomplete", "failed"}, whole \in BOOLEAN : LastWord(word, whole)
    BY <1>4
  <2>2. PICK e : e = [type |-> word, text |-> "none"]
    OBVIOUS
  <2>3. e \in StreamEvents /\ e.type = word /\ word # "delta"
    BY <2>1, <2>2 DEF StreamEvents
  <2>4. /\ sent' = Append(sent, e)
        /\ answer' = [text |-> Final(IF whole THEN SaidSoFar ELSE <<>>, heard), finish |-> Finish(word)]
    BY <2>1, <2>2 DEF LastWord, Settled
  <2>5. SaidOf(sent') = SaidOf(sent)
    BY <2>3, <2>4, SaidGrows DEF OneOffTyped
  <2>6. answer'.text = SaidSoFar'
    BY <2>4, <2>5, <1>1 DEF Final
  <2>7. answer'.finish = "stop" => word = "completed"
    BY <2>1, <2>4 DEF Finish
  <2>8. Last(sent') = e
    <3>1. Len(sent') = Len(sent) + 1 /\ sent'[Len(sent) + 1] = e
      BY <2>4 DEF OneOffTyped
    <3> QED BY <3>1 DEF Last
  <2> QED BY <2>3, <2>6, <2>7, <2>8, <1>2 DEF AnswerIsWhatWasSaid
<1>5. CASE Closes
  <2>1. sent' = sent /\ answer' = [text |-> heard, finish |-> "none"]
    BY <1>5 DEF Closes, Settled
  <2> QED BY <2>1, <1>1, <1>2 DEF AnswerIsWhatWasSaid
<1> QED BY <1>3, <1>4, <1>5

LEMMA OneOffKept == OneOffInv /\ [OneOffNext]_oneOffVars => OneOffInv'
<1> SUFFICES ASSUME OneOffInv, [OneOffNext]_oneOffVars PROVE OneOffInv'
  OBVIOUS
<1>1. OneOffTyped' /\ Listened' /\ AskedOfIt'
  BY OneOffTypedKept, ListenedKept, AskedKept DEF OneOffInv
<1>2. CASE step' # "answered"
  BY <1>1, <1>2 DEF OneOffInv, AnswerIsWhatWasSaid
<1>3. CASE step' = "answered"
  <2>1. CASE UNCHANGED oneOffVars
    BY <2>1, <1>1 DEF OneOffInv, AnswerIsWhatWasSaid, oneOffVars, SaidSoFar
  <2>2. \/ \E text \in Spoken : ChatAnswers(text)
        \/ \E word \in {"completed", "incomplete", "failed"}, whole \in BOOLEAN : LastWord(word, whole)
        \/ Closes
        \/ UNCHANGED oneOffVars
    <3>1. ~(Exists \/ Reads \/ Posts \/ Refused \/ Noise \/ \E n \in Sources : FileChanges(n))
      BY <1>3 DEF Exists, Reads, Posts, Refused, Noise, FileChanges, Listening, Throws
    <3>2. \A text \in Spoken : ~Hears(text)
      BY <1>3 DEF Hears, Listening
    <3> QED BY <3>1, <3>2 DEF OneOffNext
  <2>3. CASE ~UNCHANGED oneOffVars
    <3>1. step = "listening"
      BY <2>2, <2>3 DEF ChatAnswers, LastWord, Closes, Listening
    <3> QED BY <3>1, <2>2, <2>3, <1>1, <1>3, AnswerMade DEF OneOffInv
  <2> QED BY <2>1, <2>3
<1> QED BY <1>2, <1>3

OneOffSpec == OneOffInit /\ [][OneOffNext]_oneOffVars

\* The answer to a question is all the deltas of its stream, whether the provider's last
\* word repeats them, leaves them out or never comes; the provider alone calls it finished,
\* and what was left out of the file was told: llmCall() and readAndSummarize().
THEOREM AnswersAreWhole == OneOffSpec => []AnswerIsWhatWasSaid
<1>1. OneOffInit => OneOffInv
  <2> SUFFICES ASSUME OneOffInit PROVE OneOffInv
    OBVIOUS
  <2>1. limit \in Int /\ [shown |-> 0, cut |-> FALSE] \in [shown : Int, cut : BOOLEAN]
    BY OneOffAssumption DEF OneOffInit
  <2>2. OneOffTyped
    BY <2>1 DEF OneOffInit, OneOffTyped
  <2> QED BY <2>2 DEF OneOffInit, OneOffInv, Listened, AskedOfIt, AnswerIsWhatWasSaid
<1>2. OneOffInv => AnswerIsWhatWasSaid
  BY DEF OneOffInv
<1> QED BY <1>1, <1>2, OneOffKept, PTL DEF OneOffSpec

-----------------------------------------------------------------------------
(***************************************************************************)
(* The choice of a model.                                                  *)
(***************************************************************************)

ChoiceSpec == ChoiceInit /\ [][ChoiceNext]_vars

\* Only a terminal guesses, and what it guessed is marked, or it is gone from the table.
GuessIsMarked ==
  guess # None =>
    /\ mode = "terminal"
    /\ \/ mark = guess /\ model = guess
       \/ mark = None /\ table["model"] = None

GuessInv ==
  /\ DOMAIN table = Declared
  /\ mode # "terminal" => stage = "off"
  /\ stage = "detecting" => ~failed
  /\ GuessIsMarked
  /\ stage = "prompt" /\ failed /\ guess # None => table["model"] = None

LEMMA ModelIsDeclared == "model" \in Declared
  BY ChoiceAssumption

\* A row is written or removed where it is, and no other changes.
LEMMA OneRow ==
  ASSUME NEW k \in Declared, NEW v, DOMAIN table = Declared, SetRow(k, v) \/ (RemoveRow(k) /\ v = None)
  PROVE  DOMAIN table' = Declared /\ table'[k] = v /\ \A other \in Declared \ {k} : table'[other] = table[other]
  BY DEF SetRow, RemoveRow

LEMMA PagesKeepGuess == GuessInv /\ Pages => GuessInv'
<1> SUFFICES ASSUME GuessInv, Pages PROVE GuessInv'
  OBVIOUS
<1>1. mode = "serve" /\ UNCHANGED choiceVars
  BY DEF Pages
<1>2. DOMAIN table' = Declared
  <2>1. ASSUME NEW t \in Tabs, OpenForm(t) PROVE table' = table
    BY <2>1 DEF OpenForm
  <2>2. ASSUME NEW t \in Tabs, SaveForm(t) PROVE DOMAIN table' = Declared
    BY <2>2 DEF SaveForm
  <2>3. ASSUME NEW t \in Tabs, NEW k \in Declared, ResetRow(t, k) PROVE DOMAIN table' = Declared
    BY <2>3 DEF ResetRow, RemoveRow, GuessInv
  <2>4. ASSUME NEW t \in Tabs, NEW k \in Declared, NEW raw, Type(t, k, raw) PROVE table' = table
    BY <2>4 DEF Type
  <2>5. ASSUME NEW k, NEW v, SaveEnv(k, v) \/ SaveEnvFails(k, v) PROVE table' = table
    BY <2>5 DEF SaveEnv, SaveEnvFails
  <2> QED BY <2>1, <2>2, <2>3, <2>4, <2>5 DEF Pages, GuessInv
<1>3. guess = None /\ stage = "off"
  BY <1>1 DEF GuessInv, GuessIsMarked
<1> QED BY <1>1, <1>2, <1>3 DEF GuessInv, GuessIsMarked, choiceVars

LEMMA SessionKeepsGuess == GuessInv /\ Session => GuessInv'
<1> SUFFICES ASSUME GuessInv, Session PROVE GuessInv'
  OBVIOUS
<1>1. ASSUME NEW sh, Serve(sh) PROVE GuessInv'
  BY <1>1 DEF Serve, Started, GuessInv, GuessIsMarked
<1>2. ASSUME NEW sh, NEW m, Launch(sh, m) PROVE GuessInv'
  <2>1. mode = "off" /\ mode' = "terminal" /\ failed' = FALSE /\ table' = table /\ guess' = guess
    BY <1>2 DEF Launch, Started
  <2>2. guess = None
    BY <2>1 DEF GuessInv, GuessIsMarked
  <2> QED BY <2>1, <2>2 DEF GuessInv, GuessIsMarked
<1>3. CASE Off /\ UNCHANGED settingsVars
  BY <1>3 DEF Off, settingsVars, GuessInv, GuessIsMarked
<1>4. ASSUME NEW up, Detect(up), ~(Off /\ UNCHANGED settingsVars) PROVE GuessInv'
  <2>1. PICK m : /\ SetRow("model", m)
                 /\ model' = m /\ mark' = m /\ guess' = m /\ stage' = "prompt"
                 /\ mode' = mode /\ failed' = failed
    BY <1>4 DEF Detect
  <2>2. DOMAIN table' = Declared
    BY <2>1, ModelIsDeclared, OneRow DEF GuessInv
  <2>3. mode = "terminal" /\ ~failed
    BY <1>4 DEF Detect, GuessInv
  <2> QED BY <2>1, <2>2, <2>3 DEF GuessInv, GuessIsMarked
<1>5. ASSUME NEW up, NewAgentPage(up) PROVE GuessInv'
  BY <1>5 DEF NewAgentPage, settingsVars, GuessInv, GuessIsMarked
<1>6. ASSUME NEW m, AgentSaves(m) PROVE GuessInv'
  <2>1. DOMAIN table' = Declared
    BY <1>6, ModelIsDeclared, OneRow DEF AgentSaves, GuessInv
  <2>2. guess' = None /\ stage' = "turn" /\ mode' = mode
    BY <1>6 DEF AgentSaves
  <2>3. mode = "terminal"
    BY <1>6 DEF AgentSaves, GuessInv
  <2> QED BY <2>1, <2>2, <2>3 DEF GuessInv, GuessIsMarked
<1>7. ASSUME NEW err \in BOOLEAN, TurnEnds(err) PROVE GuessInv'
  <2>1. /\ stage = "turn" /\ stage' = "prompt" /\ failed' = err
        /\ UNCHANGED <<mode, model, guess>> /\ mode = "terminal"
    BY <1>7 DEF TurnEnds, GuessInv
  <2>2. CASE err /\ mark = model
    <3>1. RemoveRow("model") /\ mark' = None
      BY <1>7, <2>2 DEF TurnEnds, Forgets
    <3>2. DOMAIN table' = Declared /\ table'["model"] = None
      BY <3>1, ModelIsDeclared, OneRow DEF GuessInv
    <3> QED BY <2>1, <3>1, <3>2 DEF GuessInv, GuessIsMarked
  <2>3. CASE ~(err /\ mark = model)
    <3>1. UNCHANGED <<table, mark>>
      BY <1>7, <2>3 DEF TurnEnds, Forgets
    <3> QED BY <2>1, <2>3, <3>1 DEF GuessInv, GuessIsMarked
  <2> QED BY <2>2, <2>3
<1>8. CASE BeginsTurn
  BY <1>8 DEF BeginsTurn, settingsVars, GuessInv, GuessIsMarked
<1>9. CASE CreateAgent
  <2>1. mode = "serve" /\ guess = None /\ UNCHANGED <<table, mode, stage, failed, guess>>
    BY <1>9 DEF CreateAgent, settingsVars, GuessInv, GuessIsMarked
  <2> QED BY <2>1 DEF GuessInv, GuessIsMarked
<1>10. Exit => Off /\ UNCHANGED settingsVars
  BY DEF Exit
<1> QED
  BY <1>1, <1>2, <1>3, <1>4, <1>5, <1>6, <1>7, <1>8, <1>9, <1>10 DEF Session

LEMMA GuessHolds == ChoiceSpec => []GuessInv
<1>1. ChoiceInit => GuessInv
  BY DEF ChoiceInit, SettingsInit, GuessInv, GuessIsMarked
<1>2. GuessInv /\ [ChoiceNext]_vars => GuessInv'
  <2>1. GuessInv /\ UNCHANGED vars => GuessInv'
    BY DEF vars, settingsVars, choiceVars, GuessInv, GuessIsMarked
  <2> QED BY <2>1, PagesKeepGuess, SessionKeepsGuess DEF ChoiceNext
<1> QED BY <1>1, <1>2, PTL DEF ChoiceSpec

\* A model that hcode detected and saved is not the default any more when the prompt is
\* back after a turn that failed, in whatever order turns, edits of the agent and restarts
\* come: detectDefaultModel() and the terminal adapter.
THEOREM FailedGuessIsForgotten == ChoiceSpec => []FailureIsForgotten
<1>1. GuessInv => FailureIsForgotten
  BY DEF GuessInv, FailureIsForgotten
<1> QED BY <1>1, GuessHolds, PTL

-----------------------------------------------------------------------------
(***************************************************************************)
(* The form of the settings.                                               *)
(***************************************************************************)

\* What a field nobody touched submits is what its setting was when it was rendered.
AsRendered(field, touched, seen) ==
  DOMAIN field = Declared /\ \A k \in Declared \ touched : field[k] = Untouched(k, seen[k])
FormOf(field, touched, reset, seen) ==
  [field |-> field, touched |-> touched, reset |-> reset, seen |-> seen]
IsForm(f) ==
  \E field, touched, reset, seen :
    f = FormOf(field, touched, reset, seen) /\ AsRendered(field, touched, seen)

FormInv == DOMAIN form = Tabs /\ \A t \in Tabs : form[t] # None => IsForm(form[t])

LEMMA FormHas == \A f : IsForm(f) => AsRendered(f.field, f.touched, f.seen)
<1> SUFFICES ASSUME NEW f, IsForm(f) PROVE AsRendered(f.field, f.touched, f.seen)
  OBVIOUS
<1>1. PICK field, touched, reset, seen :
        f = FormOf(field, touched, reset, seen) /\ AsRendered(field, touched, seen)
  BY DEF IsForm
<1>2. f.field = field /\ f.touched = touched /\ f.seen = seen
  BY <1>1 DEF FormOf
<1> QED BY <1>1, <1>2

LEMMA RenderedIsForm == IsForm(Rendered) /\ IsForm(Rendered')
<1>1. IsForm(Rendered)
  <2> DEFINE field == [k \in Declared |-> Untouched(k, Resolved(k).value)]
             seen == [k \in Declared |-> Resolved(k).value]
             reset == {k \in Declared : Resolved(k).source = "db"}
  <2>1. Rendered = FormOf(field, {}, reset, seen)
    BY DEF Rendered, FormOf
  <2>2. AsRendered(field, {}, seen)
    BY DEF AsRendered
  <2> HIDE DEF field, seen, reset
  <2> QED BY <2>1, <2>2 DEF IsForm
<1>2. IsForm(Rendered')
  <2> DEFINE field == [k \in Declared |-> Untouched(k, Resolved(k)'.value)]
             seen == [k \in Declared |-> Resolved(k)'.value]
             reset == {k \in Declared : Resolved(k)'.source = "db"}
  <2>1. Rendered' = FormOf(field, {}, reset, seen)
    BY DEF Rendered, FormOf
  <2>2. AsRendered(field, {}, seen)
    BY DEF AsRendered
  <2> HIDE DEF field, seen, reset
  <2> QED BY <2>1, <2>2 DEF IsForm
<1> QED BY <1>1, <1>2

\* Typing into a field leaves the others as they were rendered.
LEMMA TypedIsForm ==
  ASSUME NEW f, IsForm(f), NEW k \in Declared, NEW raw
  PROVE  IsForm([[f EXCEPT !.field = [f.field EXCEPT ![k] = raw]] EXCEPT !.touched = f.touched \cup {k}])
<1>1. PICK field, touched, reset, seen :
        f = FormOf(field, touched, reset, seen) /\ AsRendered(field, touched, seen)
  BY DEF IsForm
<1> DEFINE field2 == [field EXCEPT ![k] = raw]
           touched2 == touched \cup {k}
<1>2. AsRendered(field2, touched2, seen)
  BY <1>1 DEF AsRendered
<1>3. f.field = field /\ f.touched = touched
  BY <1>1 DEF FormOf
<1>4. [f.field EXCEPT ![k] = raw] = field2 /\ f.touched \cup {k} = touched2
  BY <1>3
<1> HIDE DEF field2, touched2
<1>5. [f EXCEPT !.field = field2] = FormOf(field2, touched, reset, seen)
  BY <1>1 DEF FormOf
<1>6. [FormOf(field2, touched, reset, seen) EXCEPT !.touched = touched2]
        = FormOf(field2, touched2, reset, seen)
  BY DEF FormOf
<1>7. [[f EXCEPT !.field = [f.field EXCEPT ![k] = raw]] EXCEPT !.touched = f.touched \cup {k}]
        = FormOf(field2, touched2, reset, seen)
  BY <1>4, <1>5, <1>6
<1> QED BY <1>2, <1>7 DEF IsForm

LEMMA FormsKept == FormInv /\ [ChoiceNext]_vars => FormInv'
<1> SUFFICES ASSUME FormInv, [ChoiceNext]_vars PROVE FormInv'
  OBVIOUS
<1>1. CASE form' = form
  BY <1>1 DEF FormInv
<1>2. ASSUME NEW t \in Tabs, NEW f, IsForm(f), form' = [form EXCEPT ![t] = f] PROVE FormInv'
  BY <1>2 DEF FormInv
<1>3. ASSUME NEW sh, Started(sh) PROVE FormInv'
  BY <1>3 DEF Started, FormInv
<1>4. ASSUME NEW t \in Tabs, OpenForm(t) \/ SaveForm(t) \/ \E k \in Declared : ResetRow(t, k)
      PROVE  FormInv'
  <2>1. form' = [form EXCEPT ![t] = Rendered] \/ form' = [form EXCEPT ![t] = Rendered']
    BY <1>4 DEF OpenForm, SaveForm, ResetRow
  <2> QED BY <2>1, <1>2, RenderedIsForm
<1>5. ASSUME NEW t \in Tabs, NEW k \in Declared, NEW raw, Type(t, k, raw) PROVE FormInv'
  <2>1. form[t] # None /\ form' = [form EXCEPT ![t].field[k] = raw, ![t].touched = @ \cup {k}]
    BY <1>5 DEF Type
  <2>2. PICK f : f = form[t]
    OBVIOUS
  <2>3. IsForm(f)
    BY <2>1, <2>2 DEF FormInv
  <2> DEFINE f2 == [[f EXCEPT !.field = [f.field EXCEPT ![k] = raw]] EXCEPT !.touched = f.touched \cup {k}]
  <2>4. IsForm(f2)
    BY <2>3, TypedIsForm
  <2>5. form' = [form EXCEPT ![t] = f2]
    <3>1. PICK field, touched, reset, seen :
            f = [field |-> field, touched |-> touched, reset |-> reset, seen |-> seen]
      BY <2>3 DEF IsForm, FormOf
    <3> QED BY <2>1, <2>2, <3>1 DEF FormInv
  <2> HIDE DEF f2
  <2> QED BY <2>4, <2>5, <1>2
<1>6. ASSUME NEW k, NEW v, SaveEnv(k, v) \/ SaveEnvFails(k, v) PROVE form' = form
  BY <1>6 DEF SaveEnv, SaveEnvFails
<1>7. CASE Pages
  BY <1>7, <1>1, <1>4, <1>5, <1>6 DEF Pages
<1>8. CASE Session
  <2>1. ASSUME NEW sh, Serve(sh) PROVE Started(sh)
    BY <2>1 DEF Serve
  <2>2. ASSUME NEW sh, NEW m, Launch(sh, m) PROVE Started(sh)
    BY <2>2 DEF Launch
  <2>3. ASSUME NEW up, Detect(up) \/ NewAgentPage(up) PROVE form' = form
    BY <2>3 DEF Detect, NewAgentPage, settingsVars
  <2>4. ASSUME NEW m, AgentSaves(m) PROVE form' = form
    BY <2>4 DEF AgentSaves
  <2>5. ASSUME NEW err \in BOOLEAN, TurnEnds(err) PROVE form' = form
    BY <2>5 DEF TurnEnds
  <2>6. BeginsTurn \/ CreateAgent \/ Exit => form' = form
    BY DEF BeginsTurn, CreateAgent, Exit, settingsVars
  <2> QED BY <1>8, <1>1, <1>3, <2>1, <2>2, <2>3, <2>4, <2>5, <2>6 DEF Session
<1>9. UNCHANGED vars => form' = form
  BY DEF vars, settingsVars
<1> QED BY <1>1, <1>7, <1>8, <1>9 DEF ChoiceNext

LEMMA FormsHold == ChoiceSpec => []FormInv
<1>1. ChoiceInit => FormInv
  BY DEF ChoiceInit, SettingsInit, FormInv
<1> QED BY <1>1, FormsKept, PTL DEF ChoiceSpec

\* What a field that shows its value submits is that value.
LEMMA ShownComesBack ==
  ASSUME NEW k \in Declared, NEW v, Showable(k, v), Kind[k] # "secret",
         NEW raw, raw = Untouched(k, v)
  PROVE  ~Ignored(k, raw) /\ Submitted(k, raw) = v
<1>1. Kind[k] \in {"enum", "string", "number", "boolean"}
  BY KindAssumption
<1>2. CASE Kind[k] = "boolean"
  <2>1. v \in {"true", "false"}
    BY <1>2 DEF Showable
  <2>2. None \notin {"true", "1", "on"}
    BY TextAssumption
  <2> QED BY <1>2, <2>1, <2>2 DEF Untouched, Submitted, Truth, Ignored
<1>3. None \notin {"", "0", "1", "2"}
  BY TextAssumption
<1>4. CASE Kind[k] = "enum"
  <2>1. v \in Range(Options)
    BY <1>4 DEF Showable
  <2>2. raw = v
    BY <1>4, <2>1 DEF Untouched
  <2>3. v # None
    BY <2>1, OptionsAssumption
  <2> QED BY <1>4, <2>1, <2>2, <2>3 DEF Submitted, Parsed, Ignored
<1>5. CASE Kind[k] = "number"
  <2>1. v \in Numerals
    BY <1>5 DEF Showable
  <2>2. raw = v /\ v # "" /\ v # None /\ v # "NaN"
    BY <1>3, <1>5, <2>1 DEF Untouched, Numerals
  <2>3. Number(raw) = v
    BY <2>1, <2>2 DEF Number
  <2> QED BY <1>5, <2>2, <2>3 DEF Submitted, Parsed, Ignored
<1>6. CASE Kind[k] = "string"
  <2>1. v # None /\ v # Null
    BY <1>6 DEF Showable
  <2>2. raw = v
    BY <1>6, <2>1 DEF Untouched
  <2> QED BY <1>6, <2>1, <2>2 DEF Submitted, Parsed, Ignored
<1> QED BY <1>1, <1>2, <1>4, <1>5, <1>6

\* What a field submits is a text.
LEMMA SubmittedIsText ==
  ASSUME NEW k \in Declared, NEW raw, ~Ignored(k, raw)
  PROVE  Submitted(k, raw) # None
<1>1. None \notin {"0", "1", "2", "NaN", "true", "false"}
  BY TextAssumption
<1>2. CASE Kind[k] = "boolean"
  BY <1>1, <1>2 DEF Submitted, Truth
<1>3. CASE Kind[k] = "number"
  <2>1. Submitted(k, raw) = Number(raw)
    BY <1>3 DEF Submitted, Parsed
  <2>2. Number(raw) \in {"0", "1", "2", "NaN"}
    BY DEF Number, Numerals
  <2> QED BY <1>1, <2>1, <2>2
<1>4. CASE Kind[k] \notin {"boolean", "number"}
  <2>1. Submitted(k, raw) = raw
    BY <1>4 DEF Submitted, Parsed
  <2> QED BY <1>4, <2>1 DEF Ignored
<1> QED BY <1>2, <1>3, <1>4

\* One submission of the form.
LEMMA SaveDoesTheEdit ==
  ASSUME FormInv, NEW t \in Tabs, SaveForm(t), NEW k \in Declared,
         NEW f, f = form[t]
  PROVE  /\ (k \in f.touched /\ ~Ignored(k, f.field[k])) => Get(k)' = Submitted(k, f.field[k])
         /\ (k \notin f.touched /\ Showable(k, f.seen[k])) =>
              IF Kind[k] = "secret" \/ f.seen[k] = Get(k) THEN table'[k] = table[k]
                                                        ELSE Get(k)' = f.seen[k]
<1>1. /\ form[t] # None /\ env' = env
      /\ table'[k] = Stored(k, f.field[k])
  BY DEF SaveForm
<1>2. AsRendered(f.field, f.touched, f.seen)
  BY <1>1, FormHas DEF FormInv
<1>3. table'[k] = table[k] => Get(k)' = Get(k)
  BY <1>1 DEF Get
<1>4. table'[k] # None => Get(k)' = table'[k]
  BY DEF Get
<1>5. ASSUME ~Ignored(k, f.field[k]) PROVE Get(k)' = Submitted(k, f.field[k])
  <2>1. Submitted(k, f.field[k]) # None
    BY <1>5, SubmittedIsText
  <2>2. CASE Submitted(k, f.field[k]) = Get(k)
    BY <2>2, <1>1, <1>3 DEF Stored
  <2>3. CASE Submitted(k, f.field[k]) # Get(k)
    BY <2>3, <2>1, <1>5, <1>1, <1>4 DEF Stored
  <2> QED BY <2>2, <2>3
<1>6. ASSUME k \notin f.touched, Showable(k, f.seen[k])
      PROVE  IF Kind[k] = "secret" \/ f.seen[k] = Get(k) THEN table'[k] = table[k]
                                                        ELSE Get(k)' = f.seen[k]
  <2>1. f.field[k] = Untouched(k, f.seen[k])
    BY <1>6, <1>2 DEF AsRendered
  <2>2. CASE Kind[k] = "secret"
    <3>1. Ignored(k, f.field[k])
      BY <2>1, <2>2 DEF Untouched, Ignored
    <3> QED BY <2>2, <3>1, <1>1 DEF Stored
  <2>3. CASE Kind[k] # "secret"
    <3>1. ~Ignored(k, f.field[k]) /\ Submitted(k, f.field[k]) = f.seen[k]
      BY <1>6, <2>1, <2>3, ShownComesBack
    <3>2. f.seen[k] = Get(k) => table'[k] = table[k]
      BY <3>1, <1>1 DEF Stored
    <3> QED BY <2>3, <3>1, <3>2, <1>5
  <2> QED BY <2>2, <2>3
<1> QED BY <1>5, <1>6

\* Saving the form of the settings stores what it says: what was typed, and of a field
\* nobody touched what it showed.  So it writes no row where nobody changed anything, and
\* takes back what a stale form does not know of; a secret stays what it is:
\* POST /settings/declared.
THEOREM SavingIsTheEdit == ChoiceSpec => SaveIsTheEdit
<1> DEFINE Edit == \A t \in Tabs : SaveForm(t) =>
             \A k \in Declared :
               LET f == form[t] IN
               /\ (k \in f.touched /\ ~Ignored(k, f.field[k])) => Get(k)' = Submitted(k, f.field[k])
               /\ (k \notin f.touched /\ Showable(k, f.seen[k])) =>
                    IF Kind[k] = "secret" \/ f.seen[k] = Get(k) THEN table'[k] = table[k]
                                                              ELSE Get(k)' = f.seen[k]
<1>1. FormInv => Edit
  <2> SUFFICES ASSUME FormInv, NEW t \in Tabs, SaveForm(t), NEW k \in Declared
               PROVE  LET f == form[t] IN
                 /\ (k \in f.touched /\ ~Ignored(k, f.field[k])) => Get(k)' = Submitted(k, f.field[k])
                 /\ (k \notin f.touched /\ Showable(k, f.seen[k])) =>
                      IF Kind[k] = "secret" \/ f.seen[k] = Get(k) THEN table'[k] = table[k]
                                                                ELSE Get(k)' = f.seen[k]
    OBVIOUS
  <2>1. PICK f : f = form[t]
    OBVIOUS
  <2> QED BY <2>1, SaveDoesTheEdit
<1>2. SaveIsTheEdit <=> [][Edit]_settingsVars
  BY DEF SaveIsTheEdit
<1> HIDE DEF Edit
<1> QED BY <1>1, <1>2, FormsHold, PTL

-----------------------------------------------------------------------------
(***************************************************************************)
(* The file .env.                                                          *)
(***************************************************************************)

\* Of the first n lines none names k, or the last that does gives it v.
Silent(entries, n, k) == \A i \in 1 .. n : entries[i].name # k
Tells(entries, n, k, v) ==
  \E i \in 1 .. n : /\ entries[i].name = k /\ entries[i].value = v
                    /\ \A j \in i + 1 .. n : entries[j].name # k

LEMMA SilentOrTells ==
  ASSUME NEW entries, NEW n \in Nat, NEW k
  PROVE  Silent(entries, n, k) \/ \E v : Tells(entries, n, k, v)
<1> DEFINE S == {i \in 0 .. n : Silent(entries, i, k) \/ \E v : Tells(entries, i, k, v)}
<1>1. 0 \in S
  BY DEF Silent
<1>2. ASSUME NEW i \in 1 .. n, i - 1 \in S PROVE i \in S
  <2>1. CASE entries[i].name = k
    <3>1. Tells(entries, i, k, entries[i].value)
      BY <2>1 DEF Tells
    <3> QED BY <3>1
  <2>2. CASE entries[i].name # k
    <3>1. Silent(entries, i - 1, k) => Silent(entries, i, k)
      <4>1. \A j \in 1 .. i : j = i \/ j \in 1 .. i - 1
        OBVIOUS
      <4> QED BY <4>1, <2>2 DEF Silent
    <3>2. ASSUME NEW v, Tells(entries, i - 1, k, v) PROVE Tells(entries, i, k, v)
      <4>1. PICK a \in 1 .. i - 1 : /\ entries[a].name = k /\ entries[a].value = v
                                    /\ \A j \in a + 1 .. i - 1 : entries[j].name # k
        BY <3>2 DEF Tells
      <4>2. a \in 1 .. i /\ \A j \in a + 1 .. i : j = i \/ j \in a + 1 .. i - 1
        OBVIOUS
      <4> QED BY <4>1, <4>2, <2>2 DEF Tells
    <3> QED BY <1>2, <3>1, <3>2
  <2> QED BY <2>1, <2>2
<1>3. 0 .. n \subseteq S
  <2> HIDE DEF S
  <2> QED BY <1>1, <1>2, Upwards
<1> QED BY <1>3

\* Filed() is what the last line says that names k.
LEMMA FiledTells ==
  ASSUME NEW S, NEW entries \in Seq(S), NEW k
  PROVE  /\ Silent(entries, Len(entries), k) => Filed(entries, k) = None
         /\ \A v : Tells(entries, Len(entries), k, v) => Filed(entries, k) = v
<1> DEFINE at == {i \in DOMAIN entries : entries[i].name = k}
           last == CHOOSE i \in at : \A j \in at : j <= i
<1>1. DOMAIN entries = 1 .. Len(entries) /\ Len(entries) \in Nat
  OBVIOUS
<1>2. Filed(entries, k) = IF at = {} THEN None ELSE entries[last].value
  BY DEF Filed
<1>3. Silent(entries, Len(entries), k) => at = {}
  BY <1>1 DEF Silent
<1>4. ASSUME NEW v, Tells(entries, Len(entries), k, v) PROVE Filed(entries, k) = v
  <2>1. PICK i \in 1 .. Len(entries) : /\ entries[i].name = k /\ entries[i].value = v
                                     /\ \A j \in i + 1 .. Len(entries) : entries[j].name # k
    BY <1>4 DEF Tells
  <2>2. i \in at
    BY <2>1, <1>1
  <2>3. \A j \in at : j <= i
    <3> SUFFICES ASSUME NEW j \in at, ~(j <= i) PROVE FALSE
      OBVIOUS
    <3>1. j \in 1 .. Len(entries) /\ entries[j].name = k
      BY <1>1
    <3>2. j \in i + 1 .. Len(entries)
      BY <3>1, <1>1
    <3> QED BY <3>1, <3>2, <2>1
  <2>4. at \subseteq Int
    BY <1>1
  <2> HIDE DEF at
  <2>5. last \in at /\ \A j \in at : j <= last
    BY <2>2, <2>3
  <2>6. last = i
    <3>1. PICK m : m = last
      OBVIOUS
    <3>2. m \in at /\ m <= i /\ i <= m
      BY <3>1, <2>2, <2>3, <2>5
    <3>3. m \in Int /\ i \in Int
      BY <3>2, <2>2, <2>4
    <3> QED BY <3>1, <3>2, <3>3
  <2> QED BY <1>2, <2>1, <2>2, <2>6
<1> QED BY <1>2, <1>3, <1>4

\* Sequences that say the same of k file the same for it.
LEMMA SameFiled ==
  ASSUME NEW S, NEW entries \in Seq(S), NEW T, NEW other \in Seq(T), NEW k,
         Silent(entries, Len(entries), k) => Silent(other, Len(other), k),
         \A v : Tells(entries, Len(entries), k, v) => Tells(other, Len(other), k, v)
  PROVE  Filed(other, k) = Filed(entries, k)
<1>1. Len(entries) \in Nat
  OBVIOUS
<1>2. Silent(entries, Len(entries), k) \/ \E v : Tells(entries, Len(entries), k, v)
  BY <1>1, SilentOrTells
<1>3. /\ Silent(entries, Len(entries), k) => Filed(entries, k) = None
      /\ \A v : Tells(entries, Len(entries), k, v) => Filed(entries, k) = v
  BY FiledTells
<1>4. /\ Silent(other, Len(other), k) => Filed(other, k) = None
      /\ \A v : Tells(other, Len(other), k, v) => Filed(other, k) = v
  BY FiledTells
<1> QED BY <1>2, <1>3, <1>4

\* No line of k is one that saveEnv() does not recognise.
AllPlain(entries, n, k) == \A i \in 1 .. n : entries[i].name = k => Assigns(entries[i], k)

LEMMA LineAssigns == \A k, v : Assigns(Line(k, v), k) /\ Line(k, v).name = k /\ Line(k, v).value = v
  BY DEF Assigns, Line

LEMMA AssignsNames == \A l, k : Assigns(l, k) => l.name = k
  BY DEF Assigns

\* What line n says, after the first m.
OneMore(entries, m, n, k) ==
  /\ Silent(entries, n, k) <=> Silent(entries, m, k) /\ entries[n].name # k
  /\ \A v : entries[n].name = k => (Tells(entries, n, k, v) <=> entries[n].value = v)
  /\ \A v : entries[n].name # k => (Tells(entries, n, k, v) <=> Tells(entries, m, k, v))
  /\ AllPlain(entries, n, k)
       <=> AllPlain(entries, m, k) /\ (entries[n].name = k => Assigns(entries[n], k))

LEMMA OneMoreLine ==
  ASSUME NEW entries, NEW m \in Nat, NEW n \in Nat, n = m + 1, NEW k
  PROVE  OneMore(entries, m, n, k)
<1>0. n - 1 = m
  OBVIOUS
<1>1. \A i : i \in 1 .. n <=> i = n \/ i \in 1 .. n - 1
  OBVIOUS
<1>2. n \in 1 .. n /\ n + 1 .. n = {}
  OBVIOUS
<1>3. Silent(entries, n, k) <=> Silent(entries, n - 1, k) /\ entries[n].name # k
  BY <1>1 DEF Silent
<1>4. AllPlain(entries, n, k)
        <=> AllPlain(entries, n - 1, k) /\ (entries[n].name = k => Assigns(entries[n], k))
  BY <1>1 DEF AllPlain
<1>5. ASSUME NEW v, entries[n].name = k PROVE Tells(entries, n, k, v) <=> entries[n].value = v
  <2>1. entries[n].value = v => Tells(entries, n, k, v)
    BY <1>2, <1>5 DEF Tells
  <2>2. ASSUME Tells(entries, n, k, v) PROVE entries[n].value = v
    <3>1. PICK i \in 1 .. n : /\ entries[i].name = k /\ entries[i].value = v
                              /\ \A j \in i + 1 .. n : entries[j].name # k
      BY <2>2 DEF Tells
    <3>2. i # n => n \in i + 1 .. n
      OBVIOUS
    <3> QED BY <3>1, <3>2, <1>5
  <2> QED BY <2>1, <2>2
<1>6. ASSUME NEW v, entries[n].name # k PROVE Tells(entries, n, k, v) <=> Tells(entries, n - 1, k, v)
  <2>1. ASSUME Tells(entries, n, k, v) PROVE Tells(entries, n - 1, k, v)
    <3>1. PICK i \in 1 .. n : /\ entries[i].name = k /\ entries[i].value = v
                              /\ \A j \in i + 1 .. n : entries[j].name # k
      BY <2>1 DEF Tells
    <3>2. i \in 1 .. n - 1
      BY <3>1, <1>1, <1>6
    <3>3. \A j \in i + 1 .. n - 1 : j \in i + 1 .. n
      OBVIOUS
    <3> QED BY <3>1, <3>2, <3>3 DEF Tells
  <2>2. ASSUME Tells(entries, n - 1, k, v) PROVE Tells(entries, n, k, v)
    <3>1. PICK i \in 1 .. n - 1 : /\ entries[i].name = k /\ entries[i].value = v
                                  /\ \A j \in i + 1 .. n - 1 : entries[j].name # k
      BY <2>2 DEF Tells
    <3>2. i \in 1 .. n /\ \A j \in i + 1 .. n : j = n \/ j \in i + 1 .. n - 1
      OBVIOUS
    <3> QED BY <3>1, <3>2, <1>6 DEF Tells
  <2> QED BY <2>1, <2>2
<1> QED BY <1>0, <1>3, <1>4, <1>5, <1>6 DEF OneMore

\* Lines that begin alike say alike.
LEMMA SameLines ==
  ASSUME NEW entries, NEW other, NEW n \in Nat, Continues(n, entries, other), NEW k
  PROVE  /\ Silent(entries, n, k) <=> Silent(other, n, k)
         /\ \A v : Tells(entries, n, k, v) <=> Tells(other, n, k, v)
         /\ AllPlain(entries, n, k) <=> AllPlain(other, n, k)
<1>1. \A i \in 1 .. n : other[i] = entries[i]
  BY DEF Continues
<1>2. ASSUME NEW v PROVE Tells(entries, n, k, v) <=> Tells(other, n, k, v)
  <2>1. \A i \in 1 .. n : \A j \in i + 1 .. n : j \in 1 .. n
    OBVIOUS
  <2> QED BY <2>1, <1>1 DEF Tells
<1> QED BY <1>1, <1>2 DEF Silent, AllPlain

\* What is left of the first n lines once those that assign k are gone.
Keeps(entries, n, k, s) ==
  /\ \A i \in 1 .. Len(s) : ~Assigns(s[i], k)
  /\ \A other : other # k =>
       /\ Silent(entries, n, other) => Silent(s, Len(s), other)
       /\ \A v : Tells(entries, n, other, v) => Tells(s, Len(s), other, v)
       /\ AllPlain(s, Len(s), other) => AllPlain(entries, n, other)

LEMMA KeepsWithout ==
  ASSUME NEW entries, NEW earlier \in Nat, NEW n \in Nat, n = earlier + 1, NEW k, NEW s,
         Keeps(entries, earlier, k, s), Assigns(entries[n], k)
  PROVE  Keeps(entries, n, k, s)
<1>1. entries[n].name = k
  BY AssignsNames
<1>2. ASSUME NEW other, other # k
      PROVE  /\ Silent(entries, n, other) => Silent(s, Len(s), other)
             /\ \A v : Tells(entries, n, other, v) => Tells(s, Len(s), other, v)
             /\ AllPlain(s, Len(s), other) => AllPlain(entries, n, other)
  <2>1. OneMore(entries, earlier, n, other)
    BY OneMoreLine
  <2> QED BY <2>1, <1>1, <1>2 DEF OneMore, Keeps
<1> QED BY <1>2 DEF Keeps

LEMMA KeepsWith ==
  ASSUME NEW entries, NEW earlier \in Nat, NEW n \in Nat, n = earlier + 1, NEW k,
         NEW S, NEW s \in Seq(S), entries[n] \in S,
         Keeps(entries, earlier, k, s), ~Assigns(entries[n], k)
  PROVE  Keeps(entries, n, k, Append(s, entries[n]))
<1>1. PICK m \in Nat : m = Len(s)
  OBVIOUS
<1>2. PICK r : r = Append(s, entries[n])
  OBVIOUS
<1>3. PICK m2 \in Nat : m2 = m + 1
  OBVIOUS
<1>4. Len(r) = m2 /\ r[m2] = entries[n]
  BY <1>1, <1>2, <1>3
<1>5. Continues(m, s, r)
  BY <1>1, <1>2 DEF Continues
<1>6. \A i \in 1 .. Len(r) : ~Assigns(r[i], k)
  <2>1. \A i \in 1 .. m2 : i = m2 \/ i \in 1 .. m
    BY <1>3
  <2>2. \A i \in 1 .. m : r[i] = s[i]
    BY <1>5 DEF Continues
  <2> QED BY <2>1, <2>2, <1>1, <1>4 DEF Keeps
<1>7. ASSUME NEW other, other # k
      PROVE  /\ Silent(entries, n, other) => Silent(r, Len(r), other)
             /\ \A v : Tells(entries, n, other, v) => Tells(r, Len(r), other, v)
             /\ AllPlain(r, Len(r), other) => AllPlain(entries, n, other)
  <2>1. /\ Silent(entries, earlier, other) => Silent(s, m, other)
        /\ \A v : Tells(entries, earlier, other, v) => Tells(s, m, other, v)
        /\ AllPlain(s, m, other) => AllPlain(entries, earlier, other)
    BY <1>7, <1>1 DEF Keeps
  <2>2. /\ Silent(s, m, other) <=> Silent(r, m, other)
        /\ \A v : Tells(s, m, other, v) <=> Tells(r, m, other, v)
        /\ AllPlain(s, m, other) <=> AllPlain(r, m, other)
    BY <1>5, SameLines
  <2>3. OneMore(r, m, m2, other) /\ OneMore(entries, earlier, n, other)
    BY <1>3, OneMoreLine
  <2>4. Silent(entries, n, other) => Silent(r, m2, other)
    BY <2>1, <2>2, <2>3, <1>4 DEF OneMore
  <2>5. \A v : Tells(entries, n, other, v) => Tells(r, m2, other, v)
    BY <2>1, <2>2, <2>3, <1>4 DEF OneMore
  <2>6. AllPlain(r, m2, other) => AllPlain(entries, n, other)
    BY <2>1, <2>2, <2>3, <1>4 DEF OneMore
  <2> QED BY <2>4, <2>5, <2>6, <1>4
<1> QED BY <1>2, <1>6, <1>7 DEF Keeps

\* What Without() has kept of the first i lines, for every i up to n.
KeepingLines(entries, k, n, g) ==
  g = [i \in 0 .. n |->
         IF i = 0 THEN <<>>
         ELSE IF Assigns(entries[i], k) THEN g[i - 1] ELSE Append(g[i - 1], entries[i])]

LEMMA KeepingLinesEnds ==
  ASSUME NEW S, NEW entries \in Seq(S), NEW k, NEW n \in Nat, n = Len(entries)
  PROVE  \E g : KeepingLines(entries, k, n, g) /\ g \in [0 .. n -> Seq(S)]
<1> DEFINE turn == [i \in 1 .. n |-> [s \in Seq(S) |->
                      IF Assigns(entries[i], k) THEN s ELSE Append(s, entries[i])]]
<1>1. ASSUME NEW i \in 1 .. n PROVE turn[i] \in [Seq(S) -> Seq(S)]
  <2>1. entries[i] \in S
    OBVIOUS
  <2>2. \A s \in Seq(S) : (IF Assigns(entries[i], k) THEN s ELSE Append(s, entries[i])) \in Seq(S)
    BY <2>1
  <2> QED BY <2>2
<1>2. PICK T : T = Seq(S)
  OBVIOUS
<1>3. PICK g : Walks(n, T, <<>>, turn, g)
  <2>1. Turns(n, T, turn)
    BY <1>1, <1>2 DEF Turns
  <2>2. <<>> \in T
    BY <1>2
  <2> HIDE DEF turn
  <2> QED BY <2>1, <2>2, Stepwise
<1>4. g \in [0 .. n -> Seq(S)] /\ g[0] = <<>> /\ \A i \in 1 .. n : g[i] = turn[i][g[i - 1]]
  <2> HIDE DEF turn
  <2> QED BY <1>2, <1>3 DEF Walks
<1>5. ASSUME NEW i \in 0 .. n
      PROVE  g[i] = IF i = 0 THEN <<>>
                    ELSE IF Assigns(entries[i], k) THEN g[i - 1] ELSE Append(g[i - 1], entries[i])
  <2>1. CASE i = 0
    BY <2>1, <1>4
  <2>2. CASE i # 0
    <3>1. i \in 1 .. n /\ g[i - 1] \in Seq(S)
      BY <2>2, <1>4
    <3> QED BY <3>1, <2>2, <1>4
  <2> QED BY <2>1, <2>2
<1>6. g = [i \in 0 .. n |-> g[i]]
  BY <1>4
<1>7. KeepingLines(entries, k, n, g)
  BY <1>5, <1>6 DEF KeepingLines
<1> QED BY <1>4, <1>7

LEMMA WithoutKeeps ==
  ASSUME NEW S, NEW entries \in Seq(S), NEW k
  PROVE  Without(entries, k) \in Seq(S) /\ Keeps(entries, Len(entries), k, Without(entries, k))
<1>1. PICK n \in Nat : n = Len(entries)
  OBVIOUS
<1>2. PICK g : g = CHOOSE f : KeepingLines(entries, k, n, f)
  OBVIOUS
<1>3. Without(entries, k) = g[n]
  BY <1>1, <1>2 DEF Without, KeepingLines
<1>4. PICK h : KeepingLines(entries, k, n, h) /\ h \in [0 .. n -> Seq(S)]
  BY <1>1, KeepingLinesEnds
<1>5. KeepingLines(entries, k, n, g)
  BY <1>2, <1>4
<1>6. g[0] = <<>>
  <2>1. 0 \in 0 .. n
    OBVIOUS
  <2> QED BY <2>1, <1>5 DEF KeepingLines
<1>7. ASSUME NEW i \in 1 .. n
      PROVE  g[i] = IF Assigns(entries[i], k) THEN g[i - 1] ELSE Append(g[i - 1], entries[i])
  <2>1. i \in 0 .. n /\ i # 0
    OBVIOUS
  <2> QED BY <2>1, <1>5 DEF KeepingLines
<1> DEFINE Fine(i) == g[i] \in Seq(S) /\ Keeps(entries, i, k, g[i])
           Good == {i \in 0 .. n : Fine(i)}
<1>8. 0 \in Good
  <2>1. Len(<<>>) = 0 /\ <<>> \in Seq(S)
    OBVIOUS
  <2>2. Keeps(entries, 0, k, <<>>)
    BY <2>1 DEF Keeps, Silent, Tells, AllPlain
  <2>3. Fine(0)
    BY <2>1, <2>2, <1>6
  <2> HIDE DEF Fine
  <2> QED BY <2>3
<1>9. ASSUME NEW i \in 1 .. n, i - 1 \in Good PROVE i \in Good
  <2>1. PICK earlier \in Nat : i = earlier + 1 /\ earlier = i - 1
    OBVIOUS
  <2>2. PICK s \in Seq(S) : s = g[earlier] /\ Keeps(entries, earlier, k, s)
    BY <1>9, <2>1
  <2>3. i \in Nat /\ entries[i] \in S
    BY <1>1
  <2>4. g[i] = IF Assigns(entries[i], k) THEN s ELSE Append(s, entries[i])
    BY <2>1, <2>2, <1>7
  <2>5. CASE Assigns(entries[i], k)
    <3>1. Keeps(entries, i, k, s)
      BY <2>1, <2>2, <2>3, <2>5, KeepsWithout
    <3>2. Fine(i)
      BY <3>1, <2>4, <2>5
    <3> HIDE DEF Fine
    <3> QED BY <3>2
  <2>6. CASE ~Assigns(entries[i], k)
    <3>1. Keeps(entries, i, k, Append(s, entries[i]))
      BY <2>1, <2>2, <2>3, <2>6, KeepsWith
    <3>2. Append(s, entries[i]) \in Seq(S)
      BY <2>3
    <3>3. Fine(i)
      BY <3>1, <3>2, <2>4, <2>6
    <3> HIDE DEF Fine
    <3> QED BY <3>3
  <2> QED BY <2>5, <2>6
<1>10. 0 .. n \subseteq Good
  <2> HIDE DEF Good
  <2> QED BY <1>8, <1>9, Upwards
<1>11. n \in Good
  <2> HIDE DEF Good
  <2> QED BY <1>10
<1> QED BY <1>1, <1>3, <1>11

\* What saveEnv() makes of the lines: the other names keep what they had, and k has v, or
\* nothing, unless a line with `export` gives it.
Rewrites(entries, written, k, value) ==
  /\ \E T : written \in Seq(T)
  /\ \A other : other # k =>
       /\ Filed(written, other) = Filed(entries, other)
       /\ AllPlain(written, Len(written), other) => AllPlain(entries, Len(entries), other)
  /\ AllPlain(written, Len(written), k) => Filed(written, k) = value

LEMMA DroppedFiles ==
  ASSUME NEW S, NEW entries \in Seq(S), NEW k
  PROVE  Rewrites(entries, Without(entries, k), k, None)
<1>1. PICK w : w = Without(entries, k)
  OBVIOUS
<1>2. w \in Seq(S) /\ Keeps(entries, Len(entries), k, w)
  BY <1>1, WithoutKeeps
<1>3. ASSUME NEW other, other # k
      PROVE  /\ Filed(w, other) = Filed(entries, other)
             /\ AllPlain(w, Len(w), other) => AllPlain(entries, Len(entries), other)
  <2>1. /\ Silent(entries, Len(entries), other) => Silent(w, Len(w), other)
        /\ \A v : Tells(entries, Len(entries), other, v) => Tells(w, Len(w), other, v)
        /\ AllPlain(w, Len(w), other) => AllPlain(entries, Len(entries), other)
    BY <1>2, <1>3 DEF Keeps
  <2> QED BY <2>1, <1>2, SameFiled
<1>4. ASSUME AllPlain(w, Len(w), k) PROVE Filed(w, k) = None
  <2>1. Silent(w, Len(w), k)
    BY <1>2, <1>4 DEF Keeps, AllPlain, Silent
  <2> QED BY <2>1, <1>2, FiledTells
<1> QED BY <1>1, <1>2, <1>3, <1>4 DEF Rewrites

LEMMA AddedFiles ==
  ASSUME NEW S, NEW entries \in Seq(S), NEW k, NEW v
  PROVE  Rewrites(entries, Append(entries, Line(k, v)), k, v)
<1>1. PICK l : l = Line(k, v)
  OBVIOUS
<1>2. PICK T : T = S \cup {l}
  OBVIOUS
<1>3. PICK w : w = Append(entries, l)
  OBVIOUS
<1>4. PICK m \in Nat : m = Len(entries)
  OBVIOUS
<1>5. PICK n \in Nat : n = m + 1
  OBVIOUS
<1>6. w \in Seq(T) /\ Len(w) = n /\ w[n] = l
  BY <1>2, <1>3, <1>4, <1>5
<1>7. Continues(m, entries, w)
  BY <1>3, <1>4 DEF Continues
<1>8. l.name = k /\ l.value = v
  BY <1>1, LineAssigns
<1>9. ASSUME NEW other, other # k
      PROVE  /\ Filed(w, other) = Filed(entries, other)
             /\ AllPlain(w, Len(w), other) => AllPlain(entries, Len(entries), other)
  <2>1. OneMore(w, m, n, other)
    BY <1>5, OneMoreLine
  <2>2. /\ Silent(entries, m, other) <=> Silent(w, m, other)
        /\ \A x : Tells(entries, m, other, x) <=> Tells(w, m, other, x)
        /\ AllPlain(entries, m, other) <=> AllPlain(w, m, other)
    BY <1>7, SameLines
  <2>3. /\ Silent(entries, Len(entries), other) => Silent(w, Len(w), other)
        /\ \A x : Tells(entries, Len(entries), other, x) => Tells(w, Len(w), other, x)
        /\ AllPlain(w, Len(w), other) => AllPlain(entries, Len(entries), other)
    BY <2>1, <2>2, <1>4, <1>6, <1>8, <1>9 DEF OneMore
  <2> QED BY <2>3, <1>6, SameFiled
<1>10. Filed(w, k) = v
  <2>1. OneMore(w, m, n, k)
    BY <1>5, OneMoreLine
  <2>2. Tells(w, Len(w), k, v)
    BY <2>1, <1>6, <1>8 DEF OneMore
  <2> QED BY <2>2, <1>6, FiledTells
<1> QED BY <1>1, <1>3, <1>6, <1>9, <1>10 DEF Rewrites

LEMMA RewrittenFiles ==
  ASSUME NEW S, NEW entries \in Seq(S), NEW k, NEW v,
         NEW e \in DOMAIN entries, Assigns(entries[e], k)
  PROVE  Rewrites(entries, [i \in DOMAIN entries |-> IF Assigns(entries[i], k) THEN Line(k, v) ELSE entries[i]],
                  k, v)
<1>1. PICK l : l = Line(k, v)
  OBVIOUS
<1>2. PICK T : T = S \cup {l}
  OBVIOUS
<1>3. PICK w : w = [i \in DOMAIN entries |-> IF Assigns(entries[i], k) THEN Line(k, v) ELSE entries[i]]
  OBVIOUS
<1>4. PICK n \in Nat : n = Len(entries) /\ DOMAIN entries = 1 .. n
  OBVIOUS
<1>5. w \in [1 .. n -> T]
  <2>1. \A i \in 1 .. n : entries[i] \in T
    BY <1>2, <1>4
  <2> QED BY <2>1, <1>1, <1>2, <1>3, <1>4
<1>6. w \in Seq(T) /\ Len(w) = n
  BY <1>5
<1>7. ASSUME NEW i \in 1 .. n
      PROVE  IF Assigns(entries[i], k) THEN w[i] = l /\ entries[i].name = k ELSE w[i] = entries[i]
  BY <1>1, <1>3, <1>4, AssignsNames
<1>8. l.name = k /\ l.value = v
  BY <1>1, LineAssigns
<1>9. ASSUME NEW other, other # k
      PROVE  /\ Filed(w, other) = Filed(entries, other)
             /\ AllPlain(w, Len(w), other) => AllPlain(entries, Len(entries), other)
  <2>1. ASSUME NEW i \in 1 .. n
        PROVE  /\ w[i].name = other <=> entries[i].name = other
               /\ w[i].name = other => w[i] = entries[i]
    BY <1>7, <1>8, <1>9
  <2>2. Silent(entries, n, other) => Silent(w, n, other)
    BY <2>1 DEF Silent
  <2>3. ASSUME NEW x, Tells(entries, n, other, x) PROVE Tells(w, n, other, x)
    <3>1. PICK i \in 1 .. n : /\ entries[i].name = other /\ entries[i].value = x
                              /\ \A j \in i + 1 .. n : entries[j].name # other
      BY <2>3 DEF Tells
    <3>2. w[i].name = other /\ w[i].value = x
      BY <3>1, <2>1
    <3>3. \A j \in i + 1 .. n : w[j].name # other
      <4>1. \A j \in i + 1 .. n : j \in 1 .. n
        OBVIOUS
      <4> QED BY <4>1, <3>1, <2>1
    <3> QED BY <3>2, <3>3 DEF Tells
  <2>4. AllPlain(w, n, other) => AllPlain(entries, n, other)
    BY <2>1 DEF AllPlain
  <2> QED BY <2>2, <2>3, <2>4, <1>4, <1>6, SameFiled
<1>10. ASSUME AllPlain(w, n, k) PROVE Filed(w, k) = v
  <2>1. w[e].name = k /\ e \in 1 .. n
    BY <1>4, <1>7, <1>8
  <2>2. PICK x : Tells(w, n, k, x)
    BY <2>1, SilentOrTells DEF Silent
  <2>3. PICK i \in 1 .. n : w[i].name = k /\ w[i].value = x
    BY <2>2 DEF Tells
  <2>4. w[i] = l
    <3>1. Assigns(w[i], k)
      BY <2>3, <1>10 DEF AllPlain
    <3> QED BY <3>1, <1>7
  <2> QED BY <2>2, <2>3, <2>4, <1>6, <1>8, FiledTells
<1> QED BY <1>3, <1>6, <1>9, <1>10 DEF Rewrites

LEMMA WrittenRewrites ==
  ASSUME NEW S, NEW entries \in Seq(S), NEW k, NEW v
  PROVE  Rewrites(entries, Written(entries, k, v), k, IF v = "" THEN None ELSE Reread(v))
<1>1. CASE v = ""
  BY <1>1, DroppedFiles DEF Written
<1>2. CASE v # "" /\ \A i \in DOMAIN entries : ~Assigns(entries[i], k)
  <2>1. Written(entries, k, v) = Append(entries, Line(k, Reread(v)))
    BY <1>2 DEF Written, Quoted
  <2>2. \A x : Rewrites(entries, Append(entries, Line(k, x)), k, x)
    BY AddedFiles
  <2> QED BY <1>2, <2>1, <2>2
<1>3. CASE v # "" /\ \E i \in DOMAIN entries : Assigns(entries[i], k)
  <2>1. PICK e \in DOMAIN entries : Assigns(entries[e], k)
    BY <1>3
  <2>2. Written(entries, k, v)
          = [i \in DOMAIN entries |-> IF Assigns(entries[i], k) THEN Line(k, Reread(v)) ELSE entries[i]]
    BY <1>3 DEF Written, Quoted
  <2>3. \A x : Rewrites(entries, [i \in DOMAIN entries |-> IF Assigns(entries[i], k) THEN Line(k, x)
                                                         ELSE entries[i]], k, x)
    BY <2>1, RewrittenFiles
  <2> QED BY <1>3, <2>2, <2>3
<1> QED BY <1>1, <1>2, <1>3

\* What the next process reads of k, if nothing but this one wrote it.
Outlives(k) == IF kept[k] = "saved" /\ env[k] # None THEN Reread(env[k]) ELSE env[k]

EnvInv ==
  /\ DOMAIN env = Bound /\ DOMAIN kept = Bound
  /\ \E S : file \in Seq(S)
  /\ \A k \in Bound :
       shell[k] = None /\ kept[k] # "unsaved" /\ AllPlain(file, Len(file), k) => Filed(file, k) = Outlives(k)

LEMMA SaveKeepsEnv ==
  ASSUME EnvInv, NEW k \in Secrets, NEW v, v # None, SaveEnv(k, v)
  PROVE  EnvInv'
<1>1. /\ file' = Written(file, k, v)
      /\ env' = [env EXCEPT ![k] = IF v = "" THEN None ELSE v]
      /\ kept' = [kept EXCEPT ![k] = "saved"]
      /\ shell' = shell
  BY DEF SaveEnv
<1>2. Rewrites(file, file', k, IF v = "" THEN None ELSE Reread(v))
  BY <1>1, WrittenRewrites DEF EnvInv
<1>3. k \in Bound
  BY DEF Secrets
<1>4. DOMAIN env' = Bound /\ DOMAIN kept' = Bound
  BY <1>1 DEF EnvInv
<1>5. ASSUME NEW n \in Bound, shell'[n] = None, kept'[n] # "unsaved", AllPlain(file', Len(file'), n)
      PROVE  Filed(file', n) = Outlives(n)'
  <2>1. CASE n = k
    <3>1. env'[k] = (IF v = "" THEN None ELSE v) /\ kept'[k] = "saved"
      BY <1>1, <1>3 DEF EnvInv
    <3>2. Filed(file', k) = IF v = "" THEN None ELSE Reread(v)
      BY <2>1, <1>2, <1>5 DEF Rewrites
    <3> QED BY <2>1, <3>1, <3>2 DEF Outlives
  <2>2. CASE n # k
    <3>1. Filed(file', n) = Filed(file, n) /\ AllPlain(file, Len(file), n)
      BY <2>2, <1>2, <1>5 DEF Rewrites
    <3>2. env'[n] = env[n] /\ kept'[n] = kept[n]
      BY <1>1, <2>2 DEF EnvInv
    <3>3. Filed(file, n) = Outlives(n)
      BY <3>1, <3>2, <1>1, <1>5 DEF EnvInv
    <3> QED BY <3>1, <3>2, <3>3 DEF Outlives
  <2> QED BY <2>1, <2>2
<1>6. \E S : file' \in Seq(S)
  BY <1>2 DEF Rewrites
<1> QED BY <1>4, <1>5, <1>6 DEF EnvInv

\* A write that fails: the names it should have kept are not kept.
LEMMA FailureKeepsEnv ==
  ASSUME EnvInv, NEW k \in Secrets, NEW v, SaveEnvFails(k, v)
  PROVE  EnvInv'
<1>1. env' = [env EXCEPT ![k] = IF v = "" THEN None ELSE v] /\ shell' = shell
  BY DEF SaveEnvFails
<1>2. DOMAIN env' = Bound
  BY <1>1 DEF EnvInv
<1>3. CASE kept' = [kept EXCEPT ![k] = "unsaved"] /\ file' = file
  <2>1. DOMAIN kept' = Bound
    BY <1>3 DEF EnvInv
  <2>2. ASSUME NEW n \in Bound, shell'[n] = None, kept'[n] # "unsaved", AllPlain(file', Len(file'), n)
        PROVE  Filed(file', n) = Outlives(n)'
    <3>1. n # k
      BY <1>3, <2>2 DEF EnvInv
    <3>2. env'[n] = env[n] /\ kept'[n] = kept[n]
      BY <1>1, <1>3, <3>1 DEF EnvInv
    <3>3. Filed(file, n) = Outlives(n)
      BY <3>2, <1>1, <1>3, <2>2 DEF EnvInv
    <3> QED BY <3>2, <3>3, <1>3 DEF Outlives
  <2> QED BY <1>2, <1>3, <2>1, <2>2 DEF EnvInv
<1>4. ASSUME NEW n \in 0 .. Len(Written(file, k, v)),
             kept' = [name \in DOMAIN kept |-> "unsaved"], file' = SubSeq(Written(file, k, v), 1, n)
      PROVE  EnvInv'
  <2>1. DOMAIN kept' = Bound /\ \A name \in Bound : kept'[name] = "unsaved"
    BY <1>4 DEF EnvInv
  <2>2. PICK w, T : w = Written(file, k, v) /\ w \in Seq(T)
    <3>1. PICK S : file \in Seq(S)
      BY DEF EnvInv
    <3>2. Rewrites(file, Written(file, k, v), k, IF v = "" THEN None ELSE Reread(v))
      BY <3>1, WrittenRewrites
    <3> QED BY <3>2 DEF Rewrites
  <2>3. SubSeq(w, 1, n) \in Seq(T)
    BY <2>2, <1>4
  <2>4. \E S : file' \in Seq(S)
    BY <2>2, <2>3, <1>4
  <2> QED BY <1>2, <2>1, <2>4 DEF EnvInv
<1> QED BY <1>3, <1>4 DEF SaveEnvFails

LEMMA StartKeepsEnv ==
  ASSUME EnvInv, NEW sh, Started(sh)
  PROVE  EnvInv'
<1>1. shell' = sh /\ env' = Booted(sh, file) /\ file' = file /\ kept' = [k \in DOMAIN kept |-> "read"]
  BY DEF Started
<1>2. /\ DOMAIN env' = Bound /\ DOMAIN kept' = Bound
      /\ \A k \in Bound : sh[k] = None => env'[k] = Filed(file, k)
      /\ \A k \in Bound : kept'[k] = "read"
  BY <1>1 DEF Booted, EnvInv
<1>3. \A k \in Bound : Outlives(k)' = env'[k]
  BY <1>2 DEF Outlives
<1>4. \E S : file' \in Seq(S)
  BY <1>1 DEF EnvInv
<1> QED BY <1>1, <1>2, <1>3, <1>4 DEF EnvInv

LEMMA EnvKept == EnvInv /\ [ChoiceNext]_vars => EnvInv'
<1> SUFFICES ASSUME EnvInv, [ChoiceNext]_vars PROVE EnvInv'
  OBVIOUS
<1>1. CASE UNCHANGED <<shell, file, env, kept>>
  BY <1>1 DEF EnvInv, Outlives
<1>2. ASSUME NEW t, NEW k, NEW raw, OpenForm(t) \/ SaveForm(t) \/ ResetRow(t, k) \/ Type(t, k, raw)
      PROVE  UNCHANGED <<shell, file, env, kept>>
  BY <1>2 DEF OpenForm, SaveForm, ResetRow, Type
<1>3. CASE Pages
  BY <1>3, <1>1, <1>2, SaveKeepsEnv, FailureKeepsEnv DEF Pages
<1>4. CASE Session
  <2>1. ASSUME NEW sh, Serve(sh) PROVE Started(sh)
    BY <2>1 DEF Serve
  <2>2. ASSUME NEW sh, NEW m, Launch(sh, m) PROVE Started(sh)
    BY <2>2 DEF Launch
  <2>3. ASSUME NEW up, Detect(up) \/ NewAgentPage(up) PROVE UNCHANGED <<shell, file, env, kept>>
    BY <2>3 DEF Detect, NewAgentPage, settingsVars
  <2>4. ASSUME NEW m, AgentSaves(m) PROVE UNCHANGED <<shell, file, env, kept>>
    BY <2>4 DEF AgentSaves
  <2>5. ASSUME NEW err \in BOOLEAN, TurnEnds(err) PROVE UNCHANGED <<shell, file, env, kept>>
    BY <2>5 DEF TurnEnds
  <2>6. BeginsTurn \/ CreateAgent \/ Exit => UNCHANGED <<shell, file, env, kept>>
    BY DEF BeginsTurn, CreateAgent, Exit, settingsVars
  <2> QED BY <1>4, <1>1, StartKeepsEnv, <2>1, <2>2, <2>3, <2>4, <2>5, <2>6 DEF Session
<1>5. UNCHANGED vars => UNCHANGED <<shell, file, env, kept>>
  BY DEF vars, settingsVars
<1> QED BY <1>1, <1>3, <1>4, <1>5 DEF ChoiceNext

\* What was saved into .env outlives the process: of every name that neither the shell nor
\* a line with `export` gives, a restart reads what the running process read, or what its
\* parser makes of the text it saved last, whatever was saved, dropped and repeated in the
\* file before, as long as no write has failed: saveEnv() and startRuntime().
THEOREM SavedKeysOutliveRestart == ChoiceSpec => []KeysOutliveRestart
<1>1. ChoiceInit => EnvInv
  <2> SUFFICES ASSUME ChoiceInit PROVE EnvInv
    OBVIOUS
  <2>1. file \in Seq(Range(file))
    BY TextAssumption DEF ChoiceInit, SettingsInit
  <2>2. env = [k \in Bound |-> IF shell[k] # None THEN shell[k] ELSE Filed(file, k)]
    BY DEF ChoiceInit, SettingsInit
  <2>3. kept = [k \in Bound |-> "read"]
    BY DEF ChoiceInit, SettingsInit
  <2> QED BY <2>1, <2>2, <2>3 DEF EnvInv, Outlives
<1>2. EnvInv => KeysOutliveRestart
  <2> SUFFICES ASSUME EnvInv, NEW k \in DOMAIN env, shell[k] = None, kept[k] # "unsaved",
                      \A i \in DOMAIN file : file[i].name = k => file[i].plain
               PROVE  Booted(shell, file)[k] = Outlives(k)
    BY DEF KeysOutliveRestart, Outlives
  <2>1. DOMAIN file = 1 .. Len(file)
    BY DEF EnvInv
  <2>2. AllPlain(file, Len(file), k)
    BY <2>1 DEF AllPlain, Assigns
  <2>3. Filed(file, k) = Outlives(k)
    BY <2>2 DEF EnvInv
  <2> QED BY <2>3 DEF Booted
<1> QED BY <1>1, <1>2, EnvKept, PTL DEF ChoiceSpec

-----------------------------------------------------------------------------
(***************************************************************************)
(* The request of a model call.                                            *)
(***************************************************************************)

\* A set of sequences that holds the empty one, and with a sequence its extensions by one
\* element, holds them all.
LEMMA ByAppending ==
  ASSUME NEW S, NEW Good, <<>> \in Good,
         \A t \in Seq(S), e \in S : t \in Good => Append(t, e) \in Good
  PROVE  Seq(S) \subseteq Good
<1> SUFFICES ASSUME NEW s \in Seq(S) PROVE s \in Good
  OBVIOUS
<1> DEFINE Holds(n) == SubSeq(s, 1, n) \in Good
           Upto == {n \in 0 .. Len(s) : Holds(n)}
<1>1. 0 \in Upto
  <2>1. PICK none : none = <<>>
    OBVIOUS
  <2>2. SubSeq(s, 1, 0) = none /\ none \in Good /\ Len(s) \in Nat
    BY <2>1
  <2>3. Holds(0)
    BY <2>2
  <2> HIDE DEF Holds
  <2> QED BY <2>2, <2>3
<1>2. ASSUME NEW n \in 1 .. Len(s), n - 1 \in Upto PROVE n \in Upto
  <2>1. PICK t : t = SubSeq(s, 1, n - 1)
    OBVIOUS
  <2>2. t \in Seq(S) /\ s[n] \in S
    BY <2>1
  <2>3. SubSeq(s, 1, n) = Append(t, s[n])
    BY <2>1
  <2>4. Append(t, s[n]) \in Good
    BY <1>2, <2>1, <2>2
  <2>5. Holds(n)
    BY <2>3, <2>4
  <2> HIDE DEF Holds
  <2> QED BY <2>5
<1>3. Len(s) \in Nat
  OBVIOUS
<1>4. Len(s) \in Upto
  <2> HIDE DEF Upto
  <2>1. 0 .. Len(s) \subseteq Upto
    BY <1>1, <1>2, <1>3, Upwards
  <2> QED BY <2>1, <1>3
<1>5. SubSeq(s, 1, Len(s)) = s
  OBVIOUS
<1> QED BY <1>4, <1>5

LEMMA AppendJoin ==
  ASSUME NEW S, NEW x \in Seq(S), NEW y \in Seq(S), NEW e \in S
  PROVE  x \o Append(y, e) = Append(x \o y, e)
<1>1. PICK one : one = <<e>>
  OBVIOUS
<1>2. one \in Seq(S) /\ x \o y \in Seq(S)
  BY <1>1
<1>3. Append(y, e) = y \o one /\ Append(x \o y, e) = (x \o y) \o one
  BY <1>1, <1>2, AppendIsConcat
<1> QED BY <1>2, <1>3, ConcatAssociative

LEMMA EmptySeqOnly == \A s \in Seq({}) : s = <<>>
<1> SUFFICES ASSUME NEW s \in Seq({}) PROVE s = <<>>
  OBVIOUS
<1>1. Len(s) \in Nat /\ \A i \in 1 .. Len(s) : s[i] \in {}
  OBVIOUS
<1>2. Len(s) = 0
  <2>1. Len(s) # 0 => 1 \in 1 .. Len(s)
    BY <1>1
  <2> QED BY <1>1, <2>1
<1> QED BY <1>2

LEMMA ChosenNone == \A at : Chosen(<<>>, at) = <<>>
<1>1. PICK none : none = <<>>
  OBVIOUS
<1>2. none \in Seq({}) /\ \A i \in 1 .. Len(none) : none[i] \in {}
  BY <1>1
<1> QED BY <1>1, <1>2, ChosenTyped

\* Everything is chosen if no position is left out.
LEMMA ChosenAll ==
  ASSUME NEW S, NEW s \in Seq(S), NEW at, 1 .. Len(s) \subseteq at
  PROVE  Chosen(s, at) = s
<1> DEFINE Whole(t) == 1 .. Len(t) \subseteq at => Chosen(t, at) = t
           Good == {t \in Seq(S) : Whole(t)}
<1>1. <<>> \in Good
  BY ChosenNone
<1>2. ASSUME NEW t \in Seq(S), NEW e \in S, t \in Good PROVE Append(t, e) \in Good
  <2>1. ASSUME 1 .. Len(Append(t, e)) \subseteq at PROVE Chosen(Append(t, e), at) = Append(t, e)
    <3>1. Len(Append(t, e)) = Len(t) + 1 /\ Len(t) \in Nat
      OBVIOUS
    <3>2. Len(t) + 1 \in at /\ 1 .. Len(t) \subseteq at
      BY <2>1, <3>1
    <3>3. Chosen(t, at) = t
      BY <1>2, <3>2
    <3>4. SameAt(Len(t), at, at)
      BY DEF SameAt
    <3> QED BY <3>2, <3>3, <3>4, ChosenGrows
  <2>2. Append(t, e) \in Seq(S)
    OBVIOUS
  <2> QED BY <2>1, <2>2
<1>3. s \in Good
  <2> HIDE DEF Good
  <2>1. Seq(S) \subseteq Good
    BY <1>1, <1>2, ByAppending
  <2> QED BY <2>1
<1> QED BY <1>3

\* The lines that are not blank.
LEMMA FilledTyped ==
  ASSUME NEW S, NEW t \in Seq(S)
  PROVE  Filled(t) \in Seq(S) /\ (IsBlank(t) => Filled(t) = <<>>)
<1> DEFINE at == {i \in DOMAIN t : t[i] # Blank}
<1>1. Filled(t) = Chosen(t, at)
  BY DEF Filled
<1>2. \A i \in 1 .. Len(t) : t[i] \in S
  OBVIOUS
<1>3. Chosen(t, at) \in Seq(S)
  <2> HIDE DEF at
  <2> QED BY <1>2, ChosenTyped
<1>4. ASSUME IsBlank(t) PROVE Chosen(t, at) = <<>>
  <2>1. \A i \in 1 .. Len(t) : i \in at => t[i] \in {}
    BY <1>4 DEF IsBlank
  <2>2. Chosen(t, at) \in Seq({})
    <3> HIDE DEF at
    <3> QED BY <2>1, ChosenTyped
  <2> HIDE DEF at
  <2> QED BY <2>2, EmptySeqOnly
<1> QED BY <1>1, <1>3, <1>4

LEMMA FilledGrows ==
  ASSUME NEW S, NEW t \in Seq(S), NEW e \in S
  PROVE  Filled(Append(t, e)) = IF e # Blank THEN Append(Filled(t), e) ELSE Filled(t)
<1> DEFINE at == {i \in DOMAIN t : t[i] # Blank}
           others == {i \in DOMAIN Append(t, e) : Append(t, e)[i] # Blank}
<1>1. Filled(t) = Chosen(t, at) /\ Filled(Append(t, e)) = Chosen(Append(t, e), others)
  BY DEF Filled
<1>2. DOMAIN Append(t, e) = 1 .. Len(t) + 1 /\ DOMAIN t = 1 .. Len(t) /\ Len(t) \in Nat
  OBVIOUS
<1>3. SameAt(Len(t), at, others)
  <2>1. \A i \in 1 .. Len(t) : i \in 1 .. Len(t) + 1 /\ Append(t, e)[i] = t[i]
    OBVIOUS
  <2> QED BY <2>1, <1>2 DEF SameAt
<1>4. Len(t) + 1 \in others <=> e # Blank
  <2>1. Append(t, e)[Len(t) + 1] = e /\ Len(t) + 1 \in 1 .. Len(t) + 1
    OBVIOUS
  <2> QED BY <2>1, <1>2
<1> HIDE DEF at, others
<1> QED BY <1>1, <1>3, <1>4, ChosenGrows

LEMMA FilledNone == Filled(<<>>) = <<>>
  BY ChosenNone DEF Filled

LEMMA FilledJoin ==
  ASSUME NEW S, NEW a \in Seq(S), NEW b \in Seq(S)
  PROVE  Filled(a \o b) = Filled(a) \o Filled(b)
<1> DEFINE Joins(t) == Filled(a \o t) = Filled(a) \o Filled(t)
           Good == {t \in Seq(S) : Joins(t)}
<1>1. <<>> \in Good
  <2>1. a \o <<>> = a
    OBVIOUS
  <2>2. Filled(a) \o <<>> = Filled(a)
    BY FilledTyped
  <2>3. Joins(<<>>)
    BY <2>1, <2>2, FilledNone
  <2> QED BY <2>3
<1>2. ASSUME NEW t \in Seq(S), NEW e \in S, t \in Good PROVE Append(t, e) \in Good
  <2>1. Filled(a \o t) = Filled(a) \o Filled(t)
    BY <1>2
  <2>2. a \o Append(t, e) = Append(a \o t, e) /\ a \o t \in Seq(S) /\ Append(t, e) \in Seq(S)
    BY AppendJoin
  <2>3. /\ Filled(Append(a \o t, e)) = IF e # Blank THEN Append(Filled(a \o t), e) ELSE Filled(a \o t)
        /\ Filled(Append(t, e)) = IF e # Blank THEN Append(Filled(t), e) ELSE Filled(t)
    BY <2>2, FilledGrows
  <2>4. Append(Filled(a) \o Filled(t), e) = Filled(a) \o Append(Filled(t), e)
    <3>1. Filled(a) \in Seq(S) /\ Filled(t) \in Seq(S)
      BY FilledTyped
    <3>2. PICK x \in Seq(S), y \in Seq(S) : x = Filled(a) /\ y = Filled(t)
      BY <3>1
    <3>3. x \o Append(y, e) = Append(x \o y, e)
      BY AppendJoin
    <3> QED BY <3>2, <3>3
  <2>5. Joins(Append(t, e))
    BY <2>1, <2>2, <2>3, <2>4
  <2> HIDE DEF Joins
  <2> QED BY <2>2, <2>5
<1>3. b \in Good
  <2> HIDE DEF Good
  <2>1. Seq(S) \subseteq Good
    BY <1>1, <1>2, ByAppending
  <2> QED BY <2>1
<1> QED BY <1>3

-----------------------------------------------------------------------------
\* Messages whose lines are in L, and what is said with them.
Roles == {"user", "assistant"}
Messages(L) == [role : Roles, text : Seq(L)]
Utterances(L) == Roles \X L

Voiced(role, text) == [j \in DOMAIN text |-> <<role, text[j]>>]

LEMMA VoicedAs ==
  ASSUME NEW L, NEW role \in Roles, NEW t \in Seq(L)
  PROVE  /\ Voiced(role, t) \in Seq(Utterances(L)) /\ Len(Voiced(role, t)) = Len(t)
         /\ \A j \in 1 .. Len(t) : Voiced(role, t)[j] = <<role, t[j]>>
<1>1. DOMAIN t = 1 .. Len(t) /\ \A j \in 1 .. Len(t) : t[j] \in L
  OBVIOUS
<1>2. \A j \in 1 .. Len(t) : <<role, t[j]>> \in Utterances(L)
  BY <1>1 DEF Utterances
<1>3. Voiced(role, t) = [j \in 1 .. Len(t) |-> <<role, t[j]>>]
  BY <1>1 DEF Voiced
<1> QED BY <1>2, <1>3

LEMMA VoicedNone == \A role : Voiced(role, <<>>) = <<>>
  BY DEF Voiced

LEMMA VoicedJoin ==
  ASSUME NEW L, NEW role \in Roles, NEW a \in Seq(L), NEW b \in Seq(L)
  PROVE  Voiced(role, a \o b) = Voiced(role, a) \o Voiced(role, b)
<1>1. PICK W : W = Utterances(L)
  OBVIOUS
<1>2. PICK t : t = a \o b
  OBVIOUS
<1>3. /\ t \in Seq(L) /\ Len(t) = Len(a) + Len(b)
      /\ \A i \in 1 .. Len(a) + Len(b) : t[i] = IF i <= Len(a) THEN a[i] ELSE b[i - Len(a)]
  BY <1>2, ConcatProperties
<1>4. PICK v : v = Voiced(role, t)
  OBVIOUS
<1>5. PICK x : x = Voiced(role, a)
  OBVIOUS
<1>6. PICK y : y = Voiced(role, b)
  OBVIOUS
<1>7. /\ v \in Seq(W) /\ Len(v) = Len(t) /\ \A j \in 1 .. Len(t) : v[j] = <<role, t[j]>>
      /\ x \in Seq(W) /\ Len(x) = Len(a) /\ \A j \in 1 .. Len(a) : x[j] = <<role, a[j]>>
      /\ y \in Seq(W) /\ Len(y) = Len(b) /\ \A j \in 1 .. Len(b) : y[j] = <<role, b[j]>>
  BY <1>1, <1>3, <1>4, <1>5, <1>6, VoicedAs
<1>8. PICK w : w = x \o y
  OBVIOUS
<1>9. x \in Seq(W) /\ y \in Seq(W)
  BY <1>7
<1>10. /\ w \in Seq(W) /\ Len(w) = Len(x) + Len(y)
      /\ \A i \in 1 .. Len(x) + Len(y) : w[i] = IF i <= Len(x) THEN x[i] ELSE y[i - Len(x)]
  BY <1>8, <1>9, ConcatProperties
<1>11. Len(a) \in Nat /\ Len(b) \in Nat
  OBVIOUS
<1>12. ASSUME NEW j \in 1 .. Len(v) PROVE v[j] = w[j]
  <2>1. j \in 1 .. Len(a) + Len(b)
    BY <1>3, <1>7
  <2>2. CASE j <= Len(a)
    <3>1. j \in 1 .. Len(a)
      BY <2>1, <2>2, <1>11
    <3>2. v[j] = <<role, t[j]>> /\ t[j] = a[j]
      BY <2>1, <2>2, <1>3, <1>7
    <3>3. w[j] = x[j] /\ x[j] = <<role, a[j]>>
      BY <2>1, <2>2, <3>1, <1>7, <1>10
    <3> QED BY <3>2, <3>3
  <2>3. CASE ~(j <= Len(a))
    <3>1. PICK k : k = j - Len(a)
      OBVIOUS
    <3>2. k \in 1 .. Len(b)
      BY <2>1, <2>3, <3>1, <1>11
    <3>3. v[j] = <<role, t[j]>> /\ t[j] = b[k]
      BY <2>1, <2>3, <3>1, <1>3, <1>7
    <3>4. w[j] = y[k] /\ y[k] = <<role, b[k]>>
      BY <2>1, <2>3, <3>1, <3>2, <1>7, <1>10
    <3> QED BY <3>3, <3>4
  <2> QED BY <2>2, <2>3
<1>13. v = w
  BY <1>3, <1>7, <1>10, <1>12, SeqEqual
<1> QED BY <1>2, <1>4, <1>5, <1>6, <1>8, <1>13

LEMMA ByTyped ==
  ASSUME NEW L, NEW m \in Messages(L)
  PROVE  By(m) \in Seq(Utterances(L)) /\ (IsBlank(m.text) => By(m) = <<>>)
<1>1. m.role \in Roles /\ m.text \in Seq(L)
  BY DEF Messages
<1>2. By(m) = Voiced(m.role, Filled(m.text))
  BY DEF By, Voiced
<1>3. Filled(m.text) \in Seq(L) /\ (IsBlank(m.text) => Filled(m.text) = <<>>)
  BY <1>1, FilledTyped
<1> QED BY <1>1, <1>2, <1>3, VoicedAs, VoicedNone

\* Two messages of one role say what they say as one, the blank line between them aside.
LEMMA ByJoin ==
  ASSUME NEW L, Blank \in L, NEW m \in Messages(L), NEW o \in Messages(L), m.role = o.role
  PROVE  By(Said(m.role, m.text \o <<Blank>> \o o.text)) = By(m) \o By(o)
<1>1. PICK role \in Roles : role = m.role /\ role = o.role
  BY DEF Messages
<1>2. PICK a \in Seq(L) : a = m.text
  BY DEF Messages
<1>3. PICK b \in Seq(L) : b = o.text
  BY DEF Messages
<1>4. PICK gap : gap = <<Blank>>
  OBVIOUS
<1>5. gap \in Seq(L) /\ Filled(gap) = <<>>
  <2>1. gap \in Seq(L)
    BY <1>4
  <2>2. IsBlank(gap)
    BY <1>4 DEF IsBlank
  <2> QED BY <2>1, <2>2, FilledTyped
<1>6. PICK x \in Seq(L) : x = Filled(a)
  BY FilledTyped
<1>7. PICK y \in Seq(L) : y = Filled(b)
  BY FilledTyped
<1>8. PICK c : c = a \o gap
  OBVIOUS
<1>9. c \in Seq(L)
  BY <1>5, <1>8, ConcatProperties
<1>10. Filled(c) = x
  <2>1. Filled(c) = x \o <<>>
    BY <1>5, <1>6, <1>8, FilledJoin
  <2> QED BY <2>1
<1>11. Filled(c \o b) = x \o y
  BY <1>7, <1>9, <1>10, FilledJoin
<1>12. Voiced(role, x \o y) = Voiced(role, x) \o Voiced(role, y)
  BY VoicedJoin
<1>13. By(m) = Voiced(role, x) /\ By(o) = Voiced(role, y)
  BY <1>1, <1>2, <1>3, <1>6, <1>7 DEF By, Voiced
<1>14. By(Said(role, c \o b)) = Voiced(role, Filled(c \o b))
  BY DEF By, Voiced, Said
<1> QED BY <1>1, <1>2, <1>3, <1>4, <1>8, <1>11, <1>12, <1>13, <1>14

-----------------------------------------------------------------------------
\* What is said up to the n-th message, for every n up to m.
Telling(messages, m, g) ==
  g = [n \in 0 .. m |-> IF n = 0 THEN <<>> ELSE g[n - 1] \o By(messages[n])]

LEMMA TellingEnds ==
  ASSUME NEW L, NEW messages \in Seq(Messages(L)), NEW m \in Nat, m = Len(messages)
  PROVE  \E g : Telling(messages, m, g) /\ g \in [0 .. m -> Seq(Utterances(L))]
<1>1. PICK U : U = Seq(Utterances(L))
  OBVIOUS
<1> DEFINE turn == [i \in 1 .. m |-> [s \in U |-> s \o By(messages[i])]]
<1>2. \A i \in 1 .. m : By(messages[i]) \in U
  <2>1. \A i \in 1 .. m : messages[i] \in Messages(L)
    OBVIOUS
  <2> QED BY <1>1, <2>1, ByTyped
<1>3. Turns(m, U, turn)
  <2>1. ASSUME NEW i \in 1 .. m, NEW s \in U PROVE s \o By(messages[i]) \in U
    <3>1. PICK b \in U : b = By(messages[i])
      BY <1>2
    <3>2. s \o b \in U
      BY <1>1, ConcatProperties
    <3> QED BY <3>1, <3>2
  <2> QED BY <2>1 DEF Turns
<1>4. PICK g : Walks(m, U, <<>>, turn, g)
  <2>1. <<>> \in U
    BY <1>1
  <2> HIDE DEF turn
  <2> QED BY <1>3, <2>1, Stepwise
<1>5. g \in [0 .. m -> U] /\ g[0] = <<>> /\ \A i \in 1 .. m : g[i] = turn[i][g[i - 1]]
  <2> HIDE DEF turn
  <2> QED BY <1>4 DEF Walks
<1>6. ASSUME NEW n \in 0 .. m
      PROVE  g[n] = IF n = 0 THEN <<>> ELSE g[n - 1] \o By(messages[n])
  <2>1. CASE n = 0
    BY <2>1, <1>5
  <2>2. CASE n # 0
    <3>1. n \in 1 .. m /\ g[n - 1] \in U
      BY <2>2, <1>5
    <3> QED BY <3>1, <2>2, <1>5
  <2> QED BY <2>1, <2>2
<1>7. g = [n \in 0 .. m |-> g[n]]
  BY <1>5
<1>8. Telling(messages, m, g)
  BY <1>6, <1>7 DEF Telling
<1> QED BY <1>1, <1>5, <1>8

LEMMA SameTelling ==
  ASSUME NEW n \in Nat, NEW m \in Nat, n <= m, NEW seq, NEW longer, Continues(n, seq, longer),
         NEW g, Telling(seq, n, g), NEW h, Telling(longer, m, h)
  PROVE  \A i \in 0 .. n : g[i] = h[i]
<1> DEFINE S == {i \in 0 .. n : g[i] = h[i]}
<1>1. 0 \in S
  BY DEF Telling
<1>2. ASSUME NEW i \in 1 .. n, i - 1 \in S PROVE i \in S
  <2>1. i \in 0 .. n /\ i \in 0 .. m /\ i # 0 /\ longer[i] = seq[i]
    BY DEF Continues
  <2>2. g[i] = g[i - 1] \o By(seq[i])
    BY <2>1 DEF Telling
  <2>3. h[i] = h[i - 1] \o By(longer[i])
    BY <2>1 DEF Telling
  <2> QED BY <1>2, <2>1, <2>2, <2>3
<1>3. 0 .. n \subseteq S
  <2> HIDE DEF S
  <2> QED BY <1>1, <1>2, Upwards
<1> QED BY <1>3

LEMMA LinesTyped ==
  ASSUME NEW L, NEW messages \in Seq(Messages(L))
  PROVE  Lines(messages) \in Seq(Utterances(L)) /\ (messages = <<>> => Lines(messages) = <<>>)
<1>1. PICK m \in Nat : m = Len(messages)
  OBVIOUS
<1>2. PICK g : g = CHOOSE f : Telling(messages, m, f)
  OBVIOUS
<1>3. Lines(messages) = g[m]
  BY <1>1, <1>2 DEF Lines, Telling
<1>4. PICK h : Telling(messages, m, h) /\ h \in [0 .. m -> Seq(Utterances(L))]
  BY <1>1, TellingEnds
<1>5. Telling(messages, m, g)
  BY <1>2, <1>4
<1>6. g[m] = h[m]
  <2>1. Continues(m, messages, messages) /\ m \in 0 .. m
    BY DEF Continues
  <2>2. \A i \in 0 .. m : g[i] = h[i]
    BY <2>1, <1>4, <1>5, SameTelling
  <2> QED BY <2>1, <2>2
<1>7. m = 0 => h[m] = <<>>
  BY <1>4 DEF Telling
<1> QED BY <1>1, <1>3, <1>4, <1>6, <1>7

LEMMA LinesGrows ==
  ASSUME NEW L, NEW messages \in Seq(Messages(L)), NEW e \in Messages(L)
  PROVE  Lines(Append(messages, e)) = Lines(messages) \o By(e)
<1>1. PICK n \in Nat : n = Len(messages)
  OBVIOUS
<1>2. PICK m \in Nat : m = n + 1
  OBVIOUS
<1>3. PICK longer : longer = Append(messages, e)
  OBVIOUS
<1>4. longer \in Seq(Messages(L)) /\ Len(longer) = m /\ longer[m] = e
  BY <1>1, <1>2, <1>3
<1>5. Continues(n, messages, longer)
  BY <1>1, <1>3 DEF Continues
<1>6. PICK g : g = CHOOSE f : Telling(messages, n, f)
  OBVIOUS
<1>7. PICK h : h = CHOOSE f : Telling(longer, m, f)
  OBVIOUS
<1>8. Telling(messages, n, g)
  BY <1>1, <1>6, TellingEnds
<1>9. Telling(longer, m, h)
  BY <1>4, <1>7, TellingEnds
<1>10. g[n] = h[n]
  <2>1. n <= m /\ n \in 0 .. n
    BY <1>2
  <2>2. \A i \in 0 .. n : g[i] = h[i]
    BY <2>1, <1>5, <1>8, <1>9, SameTelling
  <2> QED BY <2>1, <2>2
<1>11. h[m] = h[n] \o By(e)
  <2>1. m \in 0 .. m /\ m # 0 /\ m - 1 = n
    BY <1>2
  <2> QED BY <2>1, <1>4, <1>9 DEF Telling
<1>12. Lines(messages) = g[n] /\ Lines(longer) = h[m]
  BY <1>1, <1>4, <1>6, <1>7 DEF Lines, Telling
<1> QED BY <1>3, <1>10, <1>11, <1>12

\* Nothing that is said is lost with blank messages.
LEMMA LinesChosen ==
  ASSUME NEW L, NEW messages \in Seq(Messages(L)), NEW at,
         \A i \in 1 .. Len(messages) : i \notin at => IsBlank(messages[i].text)
  PROVE  Chosen(messages, at) \in Seq(Messages(L)) /\ Lines(Chosen(messages, at)) = Lines(messages)
<1>1. ASSUME NEW t \in Seq(Messages(L)) PROVE Chosen(t, at) \in Seq(Messages(L))
  <2>1. \A i \in 1 .. Len(t) : t[i] \in Messages(L)
    OBVIOUS
  <2> QED BY <2>1, ChosenTyped
<1> DEFINE OnlyBlanks(t) == \A i \in 1 .. Len(t) : i \notin at => IsBlank(t[i].text)
           Heeded(t) == OnlyBlanks(t) => Lines(Chosen(t, at)) = Lines(t)
           Good == {t \in Seq(Messages(L)) : Heeded(t)}
<1>2. <<>> \in Good
  <2>1. Heeded(<<>>)
    BY ChosenNone
  <2> HIDE DEF Heeded
  <2> QED BY <2>1
<1>3. ASSUME NEW t \in Seq(Messages(L)), NEW e \in Messages(L), t \in Good
      PROVE  Append(t, e) \in Good
  <2>1. PICK longer : longer = Append(t, e)
    OBVIOUS
  <2>2. /\ longer \in Seq(Messages(L)) /\ Len(longer) = Len(t) + 1 /\ longer[Len(t) + 1] = e
        /\ Len(t) \in Nat
    BY <2>1
  <2>3. ASSUME OnlyBlanks(longer) PROVE Lines(Chosen(longer, at)) = Lines(longer)
    <3>1. OnlyBlanks(t)
      <4>1. \A i \in 1 .. Len(t) : i \in 1 .. Len(longer) /\ longer[i] = t[i]
        BY <2>1, <2>2
      <4> QED BY <4>1, <2>3
    <3>2. Lines(Chosen(t, at)) = Lines(t)
      BY <1>3, <3>1
    <3>3. Lines(longer) = Lines(t) \o By(e)
      BY <2>1, LinesGrows
    <3>4. Chosen(longer, at) = IF Len(t) + 1 \in at THEN Append(Chosen(t, at), e) ELSE Chosen(t, at)
      <4>1. SameAt(Len(t), at, at)
        BY DEF SameAt
      <4> QED BY <2>1, <4>1, ChosenGrows
    <3>5. CASE Len(t) + 1 \in at
      <4>1. PICK c \in Seq(Messages(L)) : c = Chosen(t, at)
        BY <1>1
      <4>2. Lines(Append(c, e)) = Lines(c) \o By(e)
        BY LinesGrows
      <4> QED BY <3>2, <3>3, <3>4, <3>5, <4>1, <4>2
    <3>6. CASE Len(t) + 1 \notin at
      <4>1. IsBlank(e.text)
        BY <2>2, <2>3, <3>6
      <4>2. By(e) = <<>>
        BY <4>1, ByTyped
      <4>3. PICK s \in Seq(Utterances(L)) : s = Lines(t)
        BY LinesTyped
      <4>4. s \o <<>> = s
        OBVIOUS
      <4> QED BY <3>2, <3>3, <3>4, <3>6, <4>2, <4>3, <4>4
    <3> QED BY <3>5, <3>6
  <2>4. Heeded(longer)
    BY <2>3
  <2> HIDE DEF Heeded
  <2> QED BY <2>1, <2>2, <2>4
<1>4. messages \in Good
  <2>1. Seq(Messages(L)) \subseteq Good
    <3> HIDE DEF Good
    <3> QED BY <1>2, <1>3, ByAppending
  <2> HIDE DEF Good
  <2> QED BY <2>1
<1>5. Heeded(messages)
  <2> HIDE DEF Heeded
  <2> QED BY <1>4
<1> QED BY <1>1, <1>5

-----------------------------------------------------------------------------
\* Blocks that the Messages protocol takes.
Sound(L, out) ==
  /\ out \in Seq(Messages(L))
  /\ \A i \in 1 .. Len(out) : ~IsBlank(out[i].text)
  /\ \A i \in 1 .. Len(out) - 1 : out[i].role # out[i + 1].role

LEMMA FrontLast ==
  ASSUME NEW S, NEW out \in Seq(S), out # <<>>
  PROVE  /\ Front(out) \in Seq(S) /\ Last(out) \in S /\ Last(out) = out[Len(out)]
         /\ Len(out) \in Nat \ {0} /\ Len(Front(out)) = Len(out) - 1
         /\ \A i \in 1 .. Len(out) - 1 : Front(out)[i] = out[i]
         /\ out = Append(Front(out), Last(out))
<1>1. Len(out) \in Nat \ {0}
  BY EmptySeq
<1>2. Front(out) = SubSeq(out, 1, Len(out) - 1) /\ Last(out) = out[Len(out)]
  BY DEF Front, Last
<1>3. PICK n : n = Len(out)
  OBVIOUS
<1>4. PICK f : f = SubSeq(out, 1, n - 1)
  OBVIOUS
<1>5. f \in Seq(S) /\ Len(f) = n - 1 /\ \A i \in 1 .. n - 1 : f[i] = out[i]
  BY <1>1, <1>3, <1>4
<1>6. out[n] \in S
  BY <1>1, <1>3
<1>7. out = Append(f, out[n])
  BY <1>1, <1>3, <1>4
<1> QED BY <1>1, <1>2, <1>3, <1>4, <1>5, <1>6, <1>7

LEMMA JoinedText ==
  ASSUME NEW L, Blank \in L, NEW a \in Seq(L), NEW b \in Seq(L)
  PROVE  a \o <<Blank>> \o b \in Seq(L) /\ (~IsBlank(a) => ~IsBlank(a \o <<Blank>> \o b))
<1>1. PICK gap : gap = <<Blank>>
  OBVIOUS
<1>2. gap \in Seq(L)
  BY <1>1
<1>3. PICK c : c = a \o gap
  OBVIOUS
<1>4. c \in Seq(L) /\ Len(c) = Len(a) + Len(gap) /\ \A i \in 1 .. Len(a) : c[i] = a[i]
  <2>1. /\ c \in Seq(L) /\ Len(c) = Len(a) + Len(gap)
        /\ \A i \in 1 .. Len(a) + Len(gap) : c[i] = IF i <= Len(a) THEN a[i] ELSE gap[i - Len(a)]
    BY <1>2, <1>3, ConcatProperties
  <2> QED BY <2>1, <1>2
<1>5. PICK d : d = c \o b
  OBVIOUS
<1>6. d \in Seq(L) /\ Len(d) = Len(c) + Len(b) /\ \A i \in 1 .. Len(a) : d[i] = a[i]
  <2>1. /\ d \in Seq(L) /\ Len(d) = Len(c) + Len(b)
        /\ \A i \in 1 .. Len(c) + Len(b) : d[i] = IF i <= Len(c) THEN c[i] ELSE b[i - Len(c)]
    <3>1. c \in Seq(L)
      BY <1>4
    <3> QED BY <3>1, <1>5, ConcatProperties
  <2>2. Len(a) \in Nat /\ Len(b) \in Nat /\ Len(gap) \in Nat
    BY <1>2
  <2> QED BY <2>1, <2>2, <1>4
<1>7. ASSUME ~IsBlank(a) PROVE ~IsBlank(d)
  <2>1. DOMAIN a = 1 .. Len(a) /\ DOMAIN d = 1 .. Len(d) /\ Len(d) \in Nat /\ Len(a) \in Nat
    BY <1>6
  <2>2. Len(a) <= Len(d)
    BY <1>2, <1>4, <1>6, <2>1
  <2>3. PICK i \in 1 .. Len(a) : a[i] # Blank
    BY <1>7, <2>1 DEF IsBlank
  <2>4. i \in 1 .. Len(d) /\ d[i] # Blank
    BY <1>6, <2>1, <2>2, <2>3
  <2> QED BY <2>1, <2>4 DEF IsBlank
<1> QED BY <1>1, <1>3, <1>5, <1>6, <1>7

\* A block that is joined to blocks the protocol takes, or put behind them, leaves blocks
\* that it takes, and they say one message more.
LEMMA JoinedKeeps ==
  ASSUME NEW L, Blank \in L, NEW out, Sound(L, out), NEW m \in Messages(L)
  PROVE  /\ Sound(L, Joined(out, m))
         /\ Lines(Joined(out, m)) = Lines(out) \o By(m)
         /\ out # <<>> => Joined(out, m) # <<>> /\ Joined(out, m)[1].role = out[1].role
<1>1. out \in Seq(Messages(L)) /\ m.role \in Roles /\ m.text \in Seq(L)
  BY DEF Sound, Messages
<1>2. CASE IsBlank(m.text)
  <2>1. Joined(out, m) = out
    BY <1>2 DEF Joined
  <2>2. By(m) = <<>>
    BY <1>2, ByTyped
  <2>3. PICK s \in Seq(Utterances(L)) : s = Lines(out)
    BY <1>1, LinesTyped
  <2>4. s \o <<>> = s
    OBVIOUS
  <2> QED BY <2>1, <2>2, <2>3, <2>4
<1>3. CASE ~IsBlank(m.text) /\ ~(out # <<>> /\ Last(out).role = m.role)
  <2>1. PICK new : new = Append(out, m)
    OBVIOUS
  <2>2. Joined(out, m) = new
    BY <1>3, <2>1 DEF Joined
  <2>3. /\ new \in Seq(Messages(L)) /\ Len(new) = Len(out) + 1 /\ new[Len(out) + 1] = m
        /\ Len(out) \in Nat /\ \A i \in 1 .. Len(out) : new[i] = out[i]
    BY <1>1, <2>1
  <2>4. ASSUME NEW i \in 1 .. Len(new) PROVE ~IsBlank(new[i].text)
    <3>1. CASE i \in 1 .. Len(out)
      BY <2>3, <3>1 DEF Sound
    <3>2. CASE i = Len(out) + 1
      BY <2>3, <3>2, <1>3
    <3> QED BY <2>3, <3>1, <3>2
  <2>5. ASSUME NEW i \in 1 .. Len(new) - 1 PROVE new[i].role # new[i + 1].role
    <3>1. PICK n : n = Len(out)
      OBVIOUS
    <3>2. i \in 1 .. n /\ n \in Nat
      BY <2>3, <3>1
    <3>3. CASE i = n
      <4>1. out # <<>> /\ Last(out) = out[n]
        BY <3>1, <3>2, <3>3, <1>1 DEF Last
      <4>2. new[i] = out[n] /\ new[i + 1] = m
        BY <2>3, <3>1, <3>2, <3>3
      <4> QED BY <4>1, <4>2, <1>3
    <3>4. CASE i # n
      <4>1. i \in 1 .. n - 1 /\ i + 1 \in 1 .. n
        BY <3>2, <3>4
      <4>2. new[i] = out[i] /\ new[i + 1] = out[i + 1]
        BY <2>3, <3>1, <3>2, <4>1
      <4>3. out[i].role # out[i + 1].role
        BY <3>1, <4>1 DEF Sound
      <4> QED BY <4>2, <4>3
    <3> QED BY <3>3, <3>4
  <2>6. out # <<>> => new # <<>> /\ new[1].role = out[1].role
    <3>1. out # <<>> => 1 \in 1 .. Len(out)
      BY <1>1, EmptySeq
    <3> QED BY <2>3, <3>1
  <2>7. Lines(new) = Lines(out) \o By(m)
    BY <1>1, <2>1, LinesGrows
  <2>8. Sound(L, new)
    BY <2>3, <2>4, <2>5 DEF Sound
  <2> QED BY <2>2, <2>6, <2>7, <2>8
<1>4. CASE ~IsBlank(m.text) /\ out # <<>> /\ Last(out).role = m.role
  <2>1. PICK n : n = Len(out)
    OBVIOUS
  <2>2. PICK f : f = Front(out)
    OBVIOUS
  <2>3. PICK l : l = Last(out)
    OBVIOUS
  <2>4. /\ f \in Seq(Messages(L)) /\ l \in Messages(L) /\ l = out[n] /\ n \in Nat \ {0}
        /\ Len(f) = n - 1 /\ (\A i \in 1 .. n - 1 : f[i] = out[i]) /\ out = Append(f, l)
    BY <1>1, <1>4, <2>1, <2>2, <2>3, FrontLast
  <2>5. l.role = m.role /\ l.role \in Roles /\ l.text \in Seq(L)
    BY <1>4, <2>3, <2>4 DEF Messages
  <2>6. PICK text : text = l.text \o <<Blank>> \o m.text
    OBVIOUS
  <2>7. ~IsBlank(l.text)
    <3>1. n \in 1 .. Len(out)
      BY <2>1, <2>4
    <3> QED BY <3>1, <2>4 DEF Sound
  <2>8. text \in Seq(L) /\ ~IsBlank(text)
    BY <2>5, <2>6, <2>7, <1>1, JoinedText
  <2>9. PICK o : o = Said(m.role, text)
    OBVIOUS
  <2>10. o \in Messages(L) /\ o.role = l.role /\ o.text = text
    BY <2>5, <2>8, <2>9 DEF Said, Messages
  <2>11. PICK new : new = Append(f, o)
    OBVIOUS
  <2>12. Joined(out, m) = new
    BY <1>4, <2>2, <2>3, <2>6, <2>9, <2>11 DEF Joined
  <2>13. /\ new \in Seq(Messages(L)) /\ Len(new) = n /\ new[n] = o
         /\ \A i \in 1 .. n - 1 : new[i] = f[i]
    BY <2>4, <2>10, <2>11
  <2>14. ASSUME NEW i \in 1 .. n
         PROVE  new[i].role = out[i].role /\ ~IsBlank(new[i].text)
    <3>1. CASE i = n
      BY <3>1, <2>4, <2>8, <2>10, <2>13
    <3>2. CASE i # n
      <4>1. i \in 1 .. n - 1 /\ i \in 1 .. Len(out)
        BY <3>2, <2>1, <2>4
      <4>2. new[i] = out[i]
        BY <4>1, <2>4, <2>13
      <4>3. ~IsBlank(out[i].text)
        BY <4>1 DEF Sound
      <4> QED BY <4>2, <4>3
    <3> QED BY <3>1, <3>2
  <2>15. ASSUME NEW i \in 1 .. Len(new) - 1 PROVE new[i].role # new[i + 1].role
    <3>1. PICK j : j = i + 1
      OBVIOUS
    <3>2. Len(new) = n /\ Len(out) = n /\ n \in Nat
      BY <2>1, <2>4, <2>13
    <3>3. i \in 1 .. n /\ j \in 1 .. n /\ i \in 1 .. Len(out) - 1
      BY <3>1, <3>2
    <3>4. out[i].role # out[j].role
      BY <3>1, <3>3 DEF Sound
    <3> QED BY <3>1, <3>3, <3>4, <2>14
  <2>16. Sound(L, new)
    BY <2>13, <2>14, <2>15 DEF Sound
  <2>17. new # <<>> /\ new[1].role = out[1].role
    <3>1. 1 \in 1 .. n
      BY <2>4
    <3> QED BY <3>1, <2>4, <2>13, <2>14
  <2>18. Lines(new) = Lines(out) \o By(m)
    <3>1. Lines(new) = Lines(f) \o By(o)
      BY <2>4, <2>10, <2>11, LinesGrows
    <3>2. Lines(out) = Lines(f) \o By(l)
      BY <2>4, LinesGrows
    <3>3. By(o) = By(l) \o By(m)
      BY <2>4, <2>5, <2>6, <2>9, ByJoin
    <3>4. PICK x \in Seq(Utterances(L)) : x = Lines(f)
      BY <2>4, LinesTyped
    <3>5. PICK y \in Seq(Utterances(L)) : y = By(l)
      BY <2>4, ByTyped
    <3>6. PICK z \in Seq(Utterances(L)) : z = By(m)
      BY ByTyped
    <3>7. (x \o y) \o z = x \o (y \o z)
      BY ConcatAssociative
    <3> QED BY <3>1, <3>2, <3>3, <3>4, <3>5, <3>6, <3>7
  <2> QED BY <2>12, <2>16, <2>17, <2>18
<1> QED BY <1>2, <1>3, <1>4

\* The blocks made of the first n messages, for every n up to m.
Joining(messages, m, g) ==
  g = [n \in 0 .. m |-> IF n = 0 THEN <<>> ELSE Joined(g[n - 1], messages[n])]

LEMMA JoiningEnds ==
  ASSUME NEW L, Blank \in L, NEW messages \in Seq(Messages(L)), NEW m \in Nat, m = Len(messages)
  PROVE  \E g : Joining(messages, m, g)
<1> DEFINE U == {out \in Seq(Messages(L)) : Sound(L, out)}
           turn == [i \in 1 .. m |-> [s \in U |-> Joined(s, messages[i])]]
<1>1. <<>> \in U
  BY DEF Sound
<1>2. Turns(m, U, turn)
  <2>1. ASSUME NEW i \in 1 .. m, NEW s \in U PROVE Joined(s, messages[i]) \in U
    <3>1. messages[i] \in Messages(L)
      OBVIOUS
    <3>2. Sound(L, Joined(s, messages[i]))
      BY <3>1, JoinedKeeps
    <3> QED BY <3>2 DEF Sound
  <2> HIDE DEF U
  <2> QED BY <2>1 DEF Turns
<1>3. PICK g : Walks(m, U, <<>>, turn, g)
  <2> HIDE DEF U, turn
  <2> QED BY <1>1, <1>2, Stepwise
<1>4. g \in [0 .. m -> U] /\ g[0] = <<>> /\ \A i \in 1 .. m : g[i] = turn[i][g[i - 1]]
  <2> HIDE DEF U, turn
  <2> QED BY <1>3 DEF Walks
<1>5. ASSUME NEW n \in 0 .. m
      PROVE  g[n] = IF n = 0 THEN <<>> ELSE Joined(g[n - 1], messages[n])
  <2> HIDE DEF U
  <2>1. CASE n = 0
    BY <2>1, <1>4
  <2>2. CASE n # 0
    <3>1. n \in 1 .. m /\ g[n - 1] \in U
      BY <2>2, <1>4
    <3> QED BY <3>1, <2>2, <1>4
  <2> QED BY <2>1, <2>2
<1>6. g = [n \in 0 .. m |-> g[n]]
  <2> HIDE DEF U
  <2> QED BY <1>4
<1>7. Joining(messages, m, g)
  BY <1>5, <1>6 DEF Joining
<1> QED BY <1>7

LEMMA SameJoining ==
  ASSUME NEW n \in Nat, NEW m \in Nat, n <= m, NEW seq, NEW longer, Continues(n, seq, longer),
         NEW g, Joining(seq, n, g), NEW h, Joining(longer, m, h)
  PROVE  \A i \in 0 .. n : g[i] = h[i]
<1> DEFINE S == {i \in 0 .. n : g[i] = h[i]}
<1>1. 0 \in S
  BY DEF Joining
<1>2. ASSUME NEW i \in 1 .. n, i - 1 \in S PROVE i \in S
  <2>1. i \in 0 .. n /\ i \in 0 .. m /\ i # 0 /\ longer[i] = seq[i]
    BY DEF Continues
  <2>2. g[i] = Joined(g[i - 1], seq[i])
    BY <2>1 DEF Joining
  <2>3. h[i] = Joined(h[i - 1], longer[i])
    BY <2>1 DEF Joining
  <2> QED BY <1>2, <2>1, <2>2, <2>3
<1>3. 0 .. n \subseteq S
  <2> HIDE DEF S
  <2> QED BY <1>1, <1>2, Upwards
<1> QED BY <1>3

LEMMA ToAnthropicNone == ToAnthropic(<<>>) = <<>>
<1>1. PICK none : none = <<>>
  OBVIOUS
<1>2. PICK L : L = {Blank}
  OBVIOUS
<1>3. PICK m \in Nat : m = 0
  OBVIOUS
<1>4. none \in Seq(Messages(L)) /\ m = Len(none) /\ Blank \in L
  BY <1>1, <1>2, <1>3
<1>5. PICK g : g = CHOOSE f : Joining(none, m, f)
  OBVIOUS
<1>6. Joining(none, m, g)
  <2>1. \E f : Joining(none, m, f)
    BY <1>4, JoiningEnds
  <2> QED BY <2>1, <1>5
<1>7. ToAnthropic(none) = g[m]
  BY <1>4, <1>5 DEF ToAnthropic, Joining
<1>8. g[m] = <<>>
  BY <1>3, <1>6 DEF Joining
<1> QED BY <1>1, <1>7, <1>8

LEMMA ToAnthropicGrows ==
  ASSUME NEW L, Blank \in L, NEW messages \in Seq(Messages(L)), NEW e \in Messages(L)
  PROVE  ToAnthropic(Append(messages, e)) = Joined(ToAnthropic(messages), e)
<1>1. PICK n \in Nat : n = Len(messages)
  OBVIOUS
<1>2. PICK m \in Nat : m = n + 1
  OBVIOUS
<1>3. PICK longer : longer = Append(messages, e)
  OBVIOUS
<1>4. longer \in Seq(Messages(L)) /\ Len(longer) = m /\ longer[m] = e
  BY <1>1, <1>2, <1>3
<1>5. Continues(n, messages, longer)
  BY <1>1, <1>3 DEF Continues
<1>6. PICK g : g = CHOOSE f : Joining(messages, n, f)
  OBVIOUS
<1>7. PICK h : h = CHOOSE f : Joining(longer, m, f)
  OBVIOUS
<1>8. Joining(messages, n, g)
  BY <1>1, <1>6, JoiningEnds
<1>9. Joining(longer, m, h)
  BY <1>4, <1>7, JoiningEnds
<1>10. g[n] = h[n]
  <2>1. n <= m /\ n \in 0 .. n
    BY <1>2
  <2>2. \A i \in 0 .. n : g[i] = h[i]
    BY <2>1, <1>5, <1>8, <1>9, SameJoining
  <2> QED BY <2>1, <2>2
<1>11. h[m] = Joined(h[n], e)
  <2>1. m \in 0 .. m /\ m # 0 /\ m - 1 = n
    BY <1>2
  <2> QED BY <2>1, <1>4, <1>9 DEF Joining
<1>12. ToAnthropic(messages) = g[n] /\ ToAnthropic(longer) = h[m]
  BY <1>1, <1>4, <1>6, <1>7 DEF ToAnthropic, Joining
<1> QED BY <1>3, <1>10, <1>11, <1>12

\* Blocks that the protocol takes and that say what the messages say, the first of them by
\* the one who says the first of the messages, if that is not blank.
Delivered(L, messages) ==
  /\ Sound(L, ToAnthropic(messages))
  /\ Lines(ToAnthropic(messages)) = Lines(messages)
  /\ messages # <<>> /\ ~IsBlank(messages[1].text) =>
       /\ ToAnthropic(messages) # <<>>
       /\ ToAnthropic(messages)[1].role = messages[1].role

LEMMA AllDelivered ==
  ASSUME NEW L, Blank \in L, NEW messages \in Seq(Messages(L))
  PROVE  Delivered(L, messages)
<1> DEFINE Good == {t \in Seq(Messages(L)) : Delivered(L, t)}
<1>1. <<>> \in Good
  <2>1. Sound(L, <<>>)
    BY DEF Sound
  <2> QED BY <2>1, ToAnthropicNone DEF Delivered
<1>2. ASSUME NEW t \in Seq(Messages(L)), NEW e \in Messages(L), t \in Good
      PROVE  Append(t, e) \in Good
  <2>1. PICK longer : longer = Append(t, e)
    OBVIOUS
  <2>2. /\ longer \in Seq(Messages(L)) /\ Len(longer) = Len(t) + 1
        /\ longer[Len(t) + 1] = e /\ Len(t) \in Nat
        /\ \A i \in 1 .. Len(t) : longer[i] = t[i]
    BY <2>1
  <2>3. PICK out : out = ToAnthropic(t)
    OBVIOUS
  <2>4. Sound(L, out) /\ Lines(out) = Lines(t)
    BY <1>2, <2>3 DEF Delivered
  <2>5. ToAnthropic(longer) = Joined(out, e)
    BY <2>1, <2>3, ToAnthropicGrows
  <2>6. /\ Sound(L, Joined(out, e)) /\ Lines(Joined(out, e)) = Lines(out) \o By(e)
        /\ out # <<>> => Joined(out, e) # <<>> /\ Joined(out, e)[1].role = out[1].role
    BY <2>4, JoinedKeeps
  <2>7. Lines(longer) = Lines(t) \o By(e)
    BY <2>1, LinesGrows
  <2>8. ASSUME ~IsBlank(longer[1].text)
        PROVE  Joined(out, e) # <<>> /\ Joined(out, e)[1].role = longer[1].role
    <3>1. CASE t = <<>>
      <4>1. longer[1] = e /\ out = <<>>
        BY <2>2, <2>3, <3>1, ToAnthropicNone
      <4>2. Joined(out, e) = <<e>>
        BY <2>8, <4>1 DEF Joined
      <4> QED BY <4>1, <4>2
    <3>2. CASE t # <<>>
      <4>1. longer[1] = t[1]
        <5>1. 1 \in 1 .. Len(t)
          BY <3>2, EmptySeq
        <5> QED BY <5>1, <2>2
      <4>2. out # <<>> /\ out[1].role = t[1].role
        BY <1>2, <2>3, <2>8, <3>2, <4>1 DEF Delivered
      <4> QED BY <2>6, <4>1, <4>2
    <3> QED BY <3>1, <3>2
  <2>9. Delivered(L, longer)
    BY <2>4, <2>5, <2>6, <2>7, <2>8 DEF Delivered
  <2> QED BY <2>1, <2>2, <2>9
<1>3. Seq(Messages(L)) \subseteq Good
  <2> HIDE DEF Good
  <2> QED BY <1>1, <1>2, ByAppending
<1> QED BY <1>3

-----------------------------------------------------------------------------
\* What an answer is taken apart into are texts.
LEMMA Leftmost ==
  ASSUME NEW n \in Nat, NEW I, I \subseteq 1 .. n, I # {}
  PROVE  Min(I) \in I /\ \A y \in I : Min(I) <= y
<1>1. I \subseteq Nat
  OBVIOUS
<1>2. \E x \in I : \A y \in I : x <= y
  BY <1>1, LeastOfNaturals
<1> QED BY <1>2 DEF Min

LEMMA Rightmost ==
  ASSUME NEW n \in Nat, NEW I, I \subseteq 1 .. n, I # {}
  PROVE  Max(I) \in I /\ \A y \in I : y <= Max(I)
<1>1. PICK m : m = Max(I)
  OBVIOUS
<1> DEFINE J == {k \in Nat : \A i \in I : i <= k}
<1>2. n \in J /\ J \subseteq Nat
  OBVIOUS
<1>3. PICK k \in J : \A j \in J : k <= j
  <2> HIDE DEF J
  <2> QED BY <1>2, LeastOfNaturals
<1>4. k \in I
  <2>1. SUFFICES ASSUME k \notin I PROVE FALSE
    OBVIOUS
  <2>2. \A j \in I : j # k /\ j <= k /\ j \in 1 .. n
    BY <2>1
  <2>3. k # 0
    <3>1. PICK i \in I : TRUE
      OBVIOUS
    <3> QED BY <2>2, <3>1
  <2>4. k - 1 \in J /\ ~(k <= k - 1)
    BY <2>2, <2>3
  <2> QED BY <1>3, <2>4
<1>5. \A i \in I : k >= i
  OBVIOUS
<1>6. \E x \in I : \A y \in I : x >= y
  BY <1>4, <1>5
<1>7. m \in I /\ \A y \in I : m >= y
  BY <1>1, <1>6 DEF Max
<1>8. \A y \in I : y <= m
  BY <1>7
<1> QED BY <1>1, <1>7, <1>8

LEMMA RightTrimTyped ==
  ASSUME NEW S, NEW t \in Seq(S)
  PROVE  /\ RightTrim(t) \in Seq(S)
         /\ RightTrim(t) # <<>> => RightTrim(t)[Len(RightTrim(t))] # Blank
<1> DEFINE I == {i \in 1 .. Len(t) : t[i] # Blank}
<1>1. PICK n : n = IF I # {} THEN Max(I) ELSE 0
  OBVIOUS
<1>2. RightTrim(t) = SubSeq(t, 1, n)
  BY <1>1 DEF RightTrim, SelectLastInSeq
<1>3. n = 0 \/ n \in I
  <2>1. I \subseteq 1 .. Len(t) /\ Len(t) \in Nat
    OBVIOUS
  <2> HIDE DEF I
  <2> QED BY <1>1, <2>1, Rightmost
<1>4. n \in 0 .. Len(t)
  BY <1>3
<1>5. SubSeq(t, 1, n) \in Seq(S) /\ Len(SubSeq(t, 1, n)) = n
  BY <1>4
<1>6. ASSUME n # 0 PROVE SubSeq(t, 1, n)[n] # Blank
  <2>1. SubSeq(t, 1, n)[n] = t[n]
    BY <1>4, <1>6
  <2> QED BY <1>3, <1>6, <2>1
<1>7. n = 0 => SubSeq(t, 1, n) = <<>>
  BY <1>5
<1> QED BY <1>2, <1>5, <1>6, <1>7

LEMMA TrimTyped == ASSUME NEW S, NEW t \in Seq(S) PROVE Trim(t) \in Seq(S)
<1>1. PICK r : r = RightTrim(t)
  OBVIOUS
<1>2. r \in Seq(S) /\ (r # <<>> => r[Len(r)] # Blank)
  BY <1>1, RightTrimTyped
<1> DEFINE I == {i \in 1 .. Len(r) : r[i] # Blank}
<1>3. PICK k : k = IF I # {} THEN Min(I) ELSE 0
  OBVIOUS
<1>4. Trim(t) = IF r = <<>> THEN r ELSE SubSeq(r, k, Len(r))
  BY <1>1, <1>3 DEF Trim, SelectInSeq
<1>5. ASSUME r # <<>> PROVE SubSeq(r, k, Len(r)) \in Seq(S)
  <2>1. Len(r) \in I
    <3>1. Len(r) \in 1 .. Len(r)
      BY <1>2, <1>5, EmptySeq
    <3> QED BY <3>1, <1>2, <1>5
  <2>2. I \subseteq 1 .. Len(r) /\ I # {} /\ Len(r) \in Nat
    BY <2>1, <1>2
  <2>3. k \in I
    <3> HIDE DEF I
    <3> QED BY <1>3, <2>2, Leftmost
  <2>4. k \in 1 .. Len(r) /\ \A i \in k .. Len(r) : r[i] \in S
    BY <2>3, <1>2
  <2> QED BY <2>4, <2>2, SubSeqProperties
<1> QED BY <1>2, <1>4, <1>5

LEMMA UnescapeTyped ==
  ASSUME NEW t \in Seq(Vocabulary) PROVE Unescape(t) \in Seq(Unescaped) /\ t \in Seq(Unescaped)
<1>1. \A l \in Vocabulary : l \in Unescaped /\ (l.is = "escaped" => l.line \in Unescaped)
  BY DEF Unescaped
<1>2. DOMAIN t = 1 .. Len(t) /\ \A i \in 1 .. Len(t) : t[i] \in Vocabulary
  OBVIOUS
<1>3. Unescape(t) = [i \in 1 .. Len(t) |-> IF t[i].is = "escaped" THEN t[i].line ELSE t[i]]
  BY <1>2 DEF Unescape
<1>4. \A i \in 1 .. Len(t) : (IF t[i].is = "escaped" THEN t[i].line ELSE t[i]) \in Unescaped
  BY <1>1, <1>2
<1>5. t \in Seq(Unescaped)
  BY <1>1, SeqMonotonic
<1> QED BY <1>3, <1>4, <1>5

LEMMA HitsTyped == ASSUME NEW S, NEW t \in Seq(S) PROVE Hits(t) \in Seq(1 .. Len(t))
<1>1. PICK N : N = 1 .. Len(t)
  OBVIOUS
<1>2. PICK places : places = [i \in DOMAIN t |-> i]
  OBVIOUS
<1>3. places \in Seq(N) /\ \A i \in 1 .. Len(places) : places[i] \in N
  BY <1>1, <1>2
<1>4. Hits(t) = Chosen(places, {i \in DOMAIN t : t[i].is = "mark"})
  BY <1>2 DEF Hits
<1>5. ASSUME NEW at PROVE Chosen(places, at) \in Seq(N)
  BY <1>3, ChosenTyped
<1> QED BY <1>1, <1>4, <1>5

LEMMA ProseTyped == ASSUME NEW S, NEW t \in Seq(S) PROVE Prose(t) \in Seq(S)
<1>1. PICK hits : hits = Hits(t)
  OBVIOUS
<1>2. hits \in Seq(1 .. Len(t))
  BY <1>1, HitsTyped
<1>3. ASSUME hits # <<>> PROVE SubSeq(t, 1, hits[1] - 1) \in Seq(S)
  <2>1. 1 \in 1 .. Len(hits)
    BY <1>2, <1>3, EmptySeq
  <2>2. hits[1] \in 1 .. Len(t)
    BY <1>2, <2>1
  <2>3. \A i \in 1 .. hits[1] - 1 : t[i] \in S
    BY <2>2
  <2> QED BY <2>2, <2>3, SubSeqProperties
<1> QED BY <1>1, <1>3, RightTrimTyped DEF Prose

LEMMA ErrorsTyped == ASSUME NEW S, NEW t \in Seq(S) PROVE Errors(t) \in Seq(S)
<1>1. PICK prose : prose = Prose(t)
  OBVIOUS
<1>2. prose \in Seq(S) /\ \A i \in 1 .. Len(prose) : prose[i] \in S
  <2>1. prose \in Seq(S)
    BY <1>1, ProseTyped
  <2> QED BY <2>1
<1>3. ASSUME NEW at PROVE Chosen(prose, at) \in Seq(S)
  BY <1>2, ChosenTyped
<1> QED BY <1>1, <1>3 DEF Errors

LEMMA RawTyped ==
  ASSUME NEW S, NEW t \in Seq(S), NEW n \in 1 .. Len(Hits(t)) PROVE Raw(t, n) \in Seq(S)
<1>1. PICK hit : hit = Hits(t)
  OBVIOUS
<1>2. hit \in Seq(1 .. Len(t)) /\ n \in 1 .. Len(hit)
  BY <1>1, HitsTyped
<1>3. PICK end : end = IF n < Len(hit) THEN hit[n + 1] - 1 ELSE Len(t)
  OBVIOUS
<1>4. PICK rest : rest = SubSeq(t, hit[n] + 1, end)
  OBVIOUS
<1>5. hit[n] \in 1 .. Len(t) /\ end \in Int /\ end <= Len(t)
  <2>1. hit[n] \in 1 .. Len(t) /\ (n < Len(hit) => hit[n + 1] \in 1 .. Len(t))
    BY <1>2
  <2> QED BY <1>3, <2>1
<1>6. rest \in Seq(S)
  <2>1. PICK a : a = hit[n] + 1
    OBVIOUS
  <2>2. a \in Int /\ \A i \in a .. end : t[i] \in S
    BY <2>1, <1>5
  <2> QED BY <1>4, <1>5, <2>1, <2>2, SubSeqProperties
<1>7. rest # <<>> => Front(rest) \in Seq(S)
  BY <1>6, FrontLast
<1>8. Raw(t, n) = IF n = Len(hit) /\ rest # <<>> /\ Last(rest) = Blank THEN Front(rest) ELSE rest
  BY <1>1, <1>3, <1>4 DEF Raw
<1> QED BY <1>6, <1>7, <1>8

LEMMA ContentTyped == ASSUME NEW S, NEW raw \in Seq(S) PROVE Content(raw) \in Seq(S)
<1> DEFINE I == {i \in 1 .. Len(raw) : raw[i] = Close}
<1>1. PICK c : c = IF I # {} THEN Min(I) ELSE 0
  OBVIOUS
<1>2. Closed(raw) = IF c = 0 THEN raw ELSE SubSeq(raw, 1, c - 1)
  BY <1>1 DEF Closed, SelectInSeq
<1>3. c \in 0 .. Len(raw)
  <2>1. I \subseteq 1 .. Len(raw) /\ Len(raw) \in Nat
    OBVIOUS
  <2>2. I # {} => Min(I) \in I
    <3> HIDE DEF I
    <3> QED BY <2>1, Leftmost
  <2>3. I # {} => Min(I) \in 1 .. Len(raw)
    BY <2>1, <2>2
  <2> HIDE DEF I
  <2> QED BY <1>1, <2>1, <2>3
<1>4. SubSeq(raw, 1, c - 1) \in Seq(S)
  <2>1. \A i \in 1 .. c - 1 : raw[i] \in S
    BY <1>3
  <2> QED BY <1>3, <2>1, SubSeqProperties
<1>5. PICK closed \in Seq(S) : closed = Closed(raw)
  BY <1>2, <1>4
<1>6. PICK t \in Seq(S) : t = RightTrim(closed)
  BY RightTrimTyped
<1>7. Len(t) > 1 => Front(t) \in Seq(S)
  <2>1. Len(t) > 1 => t # <<>>
    OBVIOUS
  <2> QED BY <2>1, FrontLast
<1>8. Content(raw) = IF Len(t) > 1 /\ Last(t) = Ragged THEN Front(t) ELSE closed
  BY <1>5, <1>6 DEF Content
<1> QED BY <1>7, <1>8

LEMMA CallTyped ==
  ASSUME NEW t \in Seq(Vocabulary), NEW n \in 1 .. Len(Hits(t))
  PROVE  CallAt(t, n).body \in Seq(Unescaped)
<1>1. Content(Raw(t, n)) \in Seq(Vocabulary)
  BY RawTyped, ContentTyped
<1>2. PICK body \in Seq(Unescaped) : body = Unescape(Content(Raw(t, n)))
  BY <1>1, UnescapeTyped
<1>3. Trim(body) \in Seq(Unescaped)
  BY TrimTyped
<1>4. \E isRead : CallAt(t, n).body = IF isRead THEN Trim(body) ELSE body
  BY <1>2 DEF CallAt
<1> QED BY <1>3, <1>4

\* Calls whose bodies are texts.
Bodied(calls) == \E X : calls \in Seq(X) /\ \A c \in X : c.body \in Seq(Unescaped)

LEMMA CallsTyped == ASSUME NEW t \in Seq(Vocabulary) PROVE Bodied(Calls(t))
<1>1. PICK hits : hits = Hits(t)
  OBVIOUS
<1>2. hits \in Seq(1 .. Len(t)) /\ DOMAIN hits = 1 .. Len(hits) /\ Len(hits) \in Nat
  <2>1. hits \in Seq(1 .. Len(t))
    BY <1>1, HitsTyped
  <2> QED BY <2>1
<1>3. PICK X : X = {CallAt(t, n) : n \in 1 .. Len(hits)}
  OBVIOUS
<1>4. \A c \in X : c.body \in Seq(Unescaped)
  BY <1>1, <1>3, CallTyped
<1>5. PICK calls : calls = [n \in 1 .. Len(hits) |-> CallAt(t, n)]
  OBVIOUS
<1>6. calls \in Seq(X) /\ \A i \in 1 .. Len(calls) : calls[i] \in X
  BY <1>2, <1>3, <1>5
<1>7. ASSUME NEW at PROVE Chosen(calls, at) \in Seq(X)
  BY <1>6, ChosenTyped
<1>8. Calls(t) = Chosen(calls, {n \in DOMAIN calls : Filled(calls[n].body) # <<>>})
  BY <1>1, <1>2, <1>5 DEF Calls
<1>9. Calls(t) \in Seq(X)
  BY <1>7, <1>8
<1> QED BY <1>4, <1>9 DEF Bodied

\* The numbers of a read that is understood are numbers.
LEMMA ReadIsNumbered ==
  ASSUME NEW body \in Seq(Unescaped), ReadRequest(body).ok
  PROVE  /\ ReadRequest(body).startLine \in Int
         /\ ReadRequest(body).endLine \in Int
         /\ ReadRequest(body).maxLines \in Int
<1>1. PICK filled : filled = Filled(body)
  OBVIOUS
<1>2. filled \in Seq(Unescaped) /\ \A i \in 1 .. Len(filled) : filled[i] \in Unescaped
  <2>1. filled \in Seq(Unescaped)
    BY <1>1, FilledTyped
  <2> QED BY <2>1
<1> DEFINE Of(key) == Chosen(filled, {i \in DOMAIN filled : Keyed(filled[i]) /\ filled[i].key = key})
           Given(key, default) == IF Of(key) = <<>> THEN default ELSE Of(key)[1].value
<1>3. ASSUME NEW key \in {"startLine", "endLine", "maxLines"}, NEW default \in Int
      PROVE  Given(key, default) \in Int
  <2>1. PICK at : at = {i \in DOMAIN filled : Keyed(filled[i]) /\ filled[i].key = key}
    OBVIOUS
  <2>2. PICK T : T = {l \in Unescaped : Keyed(l) /\ l.key = key}
    OBVIOUS
  <2>3. \A i \in 1 .. Len(filled) : i \in at => filled[i] \in T
    BY <1>2, <2>1, <2>2
  <2>4. PICK s : s = Chosen(filled, at)
    OBVIOUS
  <2>5. s \in Seq(T)
    BY <1>2, <2>3, <2>4, ChosenTyped
  <2>6. ASSUME s # <<>> PROVE s[1].value \in Int
    <3>1. 1 \in 1 .. Len(s)
      BY <2>5, <2>6, EmptySeq
    <3>2. s[1] \in T
      BY <2>5, <3>1
    <3>3. s[1] \in Unescaped /\ s[1].is = "pair" /\ s[1].key # "path"
      BY <2>2, <3>2 DEF Keyed
    <3> QED BY <3>3, ExchangeAssumption
  <2>7. Of(key) = s
    BY <2>1, <2>4
  <2> HIDE DEF Of
  <2> QED BY <2>6, <2>7
<1>4. PICK whole : whole = [ok |-> TRUE, startLine |-> 1, endLine |-> Unset, maxLines |-> Unset]
  OBVIOUS
<1>5. PICK given : given = [ok |-> TRUE, startLine |-> Given("startLine", 1),
                             endLine |-> Given("endLine", Unset), maxLines |-> Given("maxLines", Unset)]
  OBVIOUS
<1>6. \E path, bad : ReadRequest(body) = IF path THEN whole ELSE IF bad THEN Bad ELSE given
  BY <1>1, <1>4, <1>5 DEF ReadRequest
<1>7. ~Bad.ok
  BY DEF Bad
<1>8. ReadRequest(body) = whole \/ ReadRequest(body) = given
  BY <1>6, <1>7
<1>9. Unset \in Int
  BY DEF Unset
<1>10. whole.startLine \in Int /\ whole.endLine \in Int /\ whole.maxLines \in Int
  BY <1>4, <1>9
<1>11. given.startLine \in Int /\ given.endLine \in Int /\ given.maxLines \in Int
  <2>1. /\ Given("startLine", 1) \in Int /\ Given("endLine", Unset) \in Int
        /\ Given("maxLines", Unset) \in Int
    <3>1. PICK one \in Int : one = 1
      OBVIOUS
    <3>2. PICK unset \in Int : unset = Unset
      BY <1>9
    <3> HIDE DEF Given
    <3>3. Given("startLine", one) \in Int
      BY <1>3
    <3>4. Given("endLine", unset) \in Int
      BY <1>3
    <3>5. Given("maxLines", unset) \in Int
      BY <1>3
    <3> QED BY <3>1, <3>2, <3>3, <3>4, <3>5
  <2> HIDE DEF Given
  <2> QED BY <1>5, <2>1
<1> QED BY <1>8, <1>10, <1>11

LEMMA WindowTyped ==
  ASSUME NEW S, NEW t \in Seq(S), NEW request,
         request.startLine \in Int, request.endLine \in Int, request.maxLines \in Int
  PROVE  Window(request, t) \in Seq(S)
<1> DEFINE Larger(a, b) == IF a > b THEN a ELSE b
           Smaller(a, b) == IF a < b THEN a ELSE b
<1>1. PICK first : first = Larger(1, request.startLine)
  OBVIOUS
<1>2. PICK end : end = Larger(first, IF request.endLine = Unset THEN Len(t) ELSE request.endLine)
  OBVIOUS
<1>3. PICK last : last = IF request.maxLines = Unset THEN end
                         ELSE Smaller(end, first + Larger(0, request.maxLines - 1))
  OBVIOUS
<1>4. Window(request, t) = SubSeq(t, first, Smaller(last, Len(t)))
  BY <1>1, <1>2, <1>3 DEF Window
<1>5. Len(t) \in Nat
  OBVIOUS
<1>6. first \in Int /\ first >= 1
  BY <1>1
<1>7. end \in Int
  BY <1>2, <1>5, <1>6
<1>8. last \in Int
  BY <1>3, <1>6, <1>7
<1>9. PICK to : to = Smaller(last, Len(t))
  OBVIOUS
<1>10. to \in Int /\ to <= Len(t)
  BY <1>5, <1>8, <1>9
<1>11. \A i \in first .. to : t[i] \in S
  BY <1>5, <1>6, <1>10
<1> QED BY <1>4, <1>6, <1>9, <1>10, <1>11, SubSeqProperties

-----------------------------------------------------------------------------
IsText(text) == \E K : text \in Seq(K)
Transcribed(messages) == \E L : Blank \in L /\ messages \in Seq(Messages(L))

LEMMA OneMoreSaid ==
  ASSUME NEW messages, Transcribed(messages), NEW role \in Roles, NEW text, IsText(text)
  PROVE  Transcribed(Append(messages, Said(role, text)))
<1>1. PICK L : Blank \in L /\ messages \in Seq(Messages(L))
  BY DEF Transcribed
<1>2. PICK K : text \in Seq(K)
  BY DEF IsText
<1>3. PICK M : M = L \cup K
  OBVIOUS
<1>4. Seq(L) \subseteq Seq(M) /\ text \in Seq(M)
  <2>1. \A t \in Seq(L) : t \in Seq(M)
    BY <1>3, SeqMonotonic
  <2>2. text \in Seq(M)
    BY <1>2, <1>3, SeqMonotonic
  <2> QED BY <2>1, <2>2
<1>5. Messages(L) \subseteq Messages(M)
  BY <1>4 DEF Messages
<1>6. messages \in Seq(Messages(M))
  BY <1>1, <1>5, SeqMonotonic
<1>7. Said(role, text) \in Messages(M)
  BY <1>4 DEF Said, Messages
<1>8. Append(messages, Said(role, text)) \in Seq(Messages(M))
  BY <1>6, <1>7
<1> QED BY <1>1, <1>3, <1>8 DEF Transcribed

LEMMA TwoTexts ==
  ASSUME NEW a, NEW b, IsText(a), IsText(b) PROVE IsText(a \o b)
<1>1. PICK K : a \in Seq(K)
  BY DEF IsText
<1>2. PICK L : b \in Seq(L)
  BY DEF IsText
<1>3. PICK M : M = K \cup L
  OBVIOUS
<1>4. a \in Seq(M)
  BY <1>1, <1>3, SeqMonotonic
<1>5. b \in Seq(M)
  BY <1>2, <1>3, SeqMonotonic
<1>6. a \o b \in Seq(M)
  BY <1>4, <1>5, ConcatProperties
<1> QED BY <1>6 DEF IsText

LEMMA OneLine == \A l : IsText(<<l>>)
<1> SUFFICES ASSUME NEW l PROVE IsText(<<l>>)
  OBVIOUS
<1>1. PICK K : K = {l}
  OBVIOUS
<1>2. <<l>> \in Seq(K)
  BY <1>1
<1> QED BY <1>2 DEF IsText

TextInv ==
  /\ Transcribed(rows) /\ reply \in Seq(Vocabulary)
  /\ Bodied(todo) /\ IsText(errors)
  /\ begun => phase = "storing" /\ todo # <<>>

LEMMA NoCalls == Bodied(<<>>) /\ IsText(<<>>)
<1>1. PICK none : none = <<>>
  OBVIOUS
<1>2. PICK X : X = {}
  OBVIOUS
<1>3. none \in Seq(X)
  BY <1>1
<1> QED BY <1>1, <1>2, <1>3 DEF Bodied, IsText

LEMMA FirstCall ==
  ASSUME NEW calls, Bodied(calls), calls # <<>>
  PROVE  Head(calls).body \in Seq(Unescaped) /\ Bodied(Tail(calls))
<1>1. PICK X : calls \in Seq(X) /\ \A c \in X : c.body \in Seq(Unescaped)
  BY DEF Bodied
<1>2. Head(calls) \in X /\ Tail(calls) \in Seq(X)
  BY <1>1, HeadTailProperties
<1> QED BY <1>1, <1>2 DEF Bodied

LEMMA StoredIsTranscribed ==
  ASSUME TextInv, NEW role \in Roles, NEW text, IsText(text), Store(role, text)
  PROVE  Transcribed(rows')
  BY OneMoreSaid DEF Store, TextInv

LEMMA ReplyHolds ==
  ASSUME TextInv
  PROVE  /\ IsText(reply) /\ IsText(Unescape(Prose(reply))) /\ IsText(Errors(reply))
         /\ Bodied(Calls(reply))
<1>1. reply \in Seq(Vocabulary)
  BY DEF TextInv
<1>2. Prose(reply) \in Seq(Vocabulary) /\ Errors(reply) \in Seq(Vocabulary)
  BY <1>1, ProseTyped, ErrorsTyped
<1>3. Unescape(Prose(reply)) \in Seq(Unescaped)
  BY <1>2, UnescapeTyped
<1> QED BY <1>1, <1>2, <1>3, CallsTyped DEF IsText

LEMMA OutputIsText ==
  ASSUME NEW call, call.body \in Seq(Unescaped), NEW fails \in BOOLEAN,
         (call.kind = "read" /\ ~ReadRequest(call.body).ok) => fails
  PROVE  IsText(ResultOf(call, fails, Output(call, fails)))
<1>1. IsText(Output(call, fails))
  <2>1. CASE fails
    BY <2>1, OneLine DEF Output
  <2>2. CASE ~fails /\ call.kind = "read"
    <3>1. PICK request : request = ReadRequest(call.body)
      OBVIOUS
    <3>2. request.startLine \in Int /\ request.endLine \in Int /\ request.maxLines \in Int
      BY <2>2, <3>1, ReadIsNumbered
    <3>3. File \in Seq(Range(File))
      BY ExchangeAssumption
    <3>4. Window(request, File) \in Seq(Range(File))
      BY <3>2, <3>3, WindowTyped
    <3>5. Output(call, fails) = Window(request, File)
      BY <2>2, <3>1 DEF Output
    <3> QED BY <3>4, <3>5 DEF IsText
  <2>3. CASE ~fails /\ call.kind # "read"
    BY <2>3, OneLine DEF Output
  <2> QED BY <2>1, <2>2, <2>3
<1>2. PICK head : head = <<Header("result", call.kind, WireArg(call), fails)>>
  OBVIOUS
<1>3. IsText(head)
  BY <1>2, OneLine
<1> QED BY <1>1, <1>2, <1>3, TwoTexts DEF ResultOf

LEMMA ErrorTextIsText == ASSUME NEW list, IsText(list) PROVE IsText(ErrorText(list))
<1>1. PICK K : list \in Seq(K)
  BY DEF IsText
<1>2. PICK h : h = Header("error", "marker", "unescaped", TRUE)
  OBVIOUS
<1>3. PICK H : H = {h}
  OBVIOUS
<1>4. DOMAIN list = 1 .. Len(list) /\ Len(list) \in Nat
  BY <1>1
<1>5. ErrorText(list) = [i \in 1 .. Len(list) |-> h]
  BY <1>2, <1>4 DEF ErrorText
<1>6. ErrorText(list) \in Seq(H)
  BY <1>3, <1>4, <1>5
<1> QED BY <1>6 DEF IsText

LEMMA TextKept == TextInv /\ [ExchangesNext]_exchangeVars => TextInv'
<1> SUFFICES ASSUME TextInv, [ExchangesNext]_exchangeVars PROVE TextInv'
  OBVIOUS
<1>0. "user" \in Roles /\ "assistant" \in Roles
  BY DEF Roles
<1>1. ASSUME NEW text \in Told, Operator(text) PROVE TextInv'
  <2>1. IsText(text)
    BY ExchangeAssumption DEF IsText
  <2>2. Transcribed(rows')
    BY <1>0, <1>1, <2>1, StoredIsTranscribed DEF Operator
  <2> QED BY <1>1, <2>2 DEF Operator, agentVars, TextInv
<1>2. ASSUME NEW line \in Vocabulary, Delta(line) PROVE TextInv'
  <2>1. reply' \in Seq(Vocabulary)
    BY <1>2 DEF Delta, TextInv
  <2> QED BY <1>2, <2>1 DEF Delta, TextInv
<1>3. CASE StreamEnds
  BY <1>3 DEF StreamEnds, TextInv
<1>4. ASSUME RunEnds, Transcribed(rows') PROVE TextInv'
  BY <1>4, NoCalls DEF RunEnds, TextInv
<1>5. CASE StreamThrows
  BY <1>4, <1>5 DEF StreamThrows, Fails, TextInv
<1>6. CASE Stops
  BY <1>4, <1>6 DEF Stops, Fails, TextInv
<1>7. CASE Answers
  <2>1. rows' = rows \/ Store("assistant", reply)
    BY <1>7 DEF Answers
  <2>2. Transcribed(rows')
    BY <1>0, <2>1, ReplyHolds, StoredIsTranscribed DEF TextInv
  <2> QED BY <1>4, <1>7, <2>2 DEF Answers
<1>8. CASE Splits
  <2>1. rows' = rows \/ Store("assistant", Unescape(Prose(reply)))
    BY <1>8 DEF Splits
  <2>2. Transcribed(rows')
    BY <1>0, <2>1, ReplyHolds, StoredIsTranscribed DEF TextInv
  <2>3. ~begun
    BY <1>8 DEF Splits, TextInv
  <2> QED BY <1>8, <2>2, <2>3, ReplyHolds DEF Splits, TextInv
<1>9. CASE Begins
  <2>1. todo # <<>> /\ Store("assistant", Serialize(Head(todo))) /\ phase = "storing"
    BY <1>9 DEF Begins
  <2>2. Head(todo).body \in Seq(Unescaped) /\ Bodied(Tail(todo))
    BY <2>1, FirstCall DEF TextInv
  <2>3. IsText(Serialize(Head(todo)))
    <3>1. PICK begins : begins = <<Mark(Head(todo).kind, WireArg(Head(todo)))>>
      OBVIOUS
    <3>2. IsText(begins) /\ IsText(Head(todo).body)
      BY <2>2, <3>1, OneLine DEF IsText
    <3> QED BY <3>1, <3>2, TwoTexts DEF Serialize
  <2>4. Transcribed(rows')
    BY <1>0, <2>1, <2>3, StoredIsTranscribed
  <2>5. (todo' = Tail(todo) /\ ~begun') \/ todo' = todo
    BY <1>9 DEF Begins
  <2>6. phase' = phase /\ reply' = reply /\ errors' = errors
    BY <1>9 DEF Begins
  <2>7. Bodied(todo') /\ (begun' => todo' # <<>>)
    BY <2>1, <2>2, <2>5 DEF TextInv
  <2>8. Transcribed(rows') /\ reply' \in Seq(Vocabulary) /\ IsText(errors')
    BY <2>4, <2>6 DEF TextInv
  <2> QED BY <2>1, <2>6, <2>7, <2>8 DEF TextInv
<1>10. ASSUME NEW fails \in BOOLEAN, Finishes(fails) PROVE TextInv'
  <2>1. todo # <<>> /\ ~begun'
    BY <1>10 DEF Finishes, TextInv
  <2>2. Head(todo).body \in Seq(Unescaped) /\ Bodied(Tail(todo))
    BY <2>1, FirstCall DEF TextInv
  <2>3. IsText(ResultOf(Head(todo), fails, Output(Head(todo), fails)))
    BY <1>10, <2>2, OutputIsText DEF Finishes
  <2>4. Transcribed(rows')
    BY <1>0, <1>10, <2>3, StoredIsTranscribed DEF Finishes
  <2> QED BY <1>10, <2>1, <2>2, <2>4 DEF Finishes, TextInv
<1>11. CASE Warns
  <2>1. IsText(ErrorText(errors))
    BY ErrorTextIsText DEF TextInv
  <2>2. Transcribed(rows')
    BY <1>0, <1>11, <2>1, StoredIsTranscribed DEF Warns
  <2> QED BY <1>11, <2>2, NoCalls DEF Warns, TextInv
<1>12. CASE AsksAgain
  BY <1>12 DEF AsksAgain, CallStarts, TextInv
<1>13. CASE UNCHANGED exchangeVars
  BY <1>13 DEF exchangeVars, TextInv
<1>14. ASSUME NEW i \in rendering, Accepted(i) PROVE TextInv'
  BY <1>14 DEF Accepted, TextInv
<1>15. CASE RunStarts
  BY <1>15 DEF RunStarts, CallStarts, TextInv
<1>16. CASE Restarts
  BY <1>4, <1>16 DEF Restarts, TextInv
<1> QED BY <1>1, <1>2, <1>3, <1>5, <1>6, <1>7, <1>8, <1>9, <1>10, <1>11, <1>12, <1>13, <1>14,
           <1>15, <1>16 DEF ExchangesNext

\* What a step does to the agent's messages.
Follows ==
  \/ cache' = rows'
  \/ rows' = rows /\ cache' = cache /\ rendering' = rendering
  \/ \E text \in Told : Operator(text)

LEMMA MessagesFollow == [ExchangesNext]_exchangeVars => Follows
<1> SUFFICES ASSUME [ExchangesNext]_exchangeVars PROVE Follows
  OBVIOUS
<1> USE DEF Follows, Synced, toldVars
<1>1. CASE (\E text \in Told : Operator(text)) \/ (\E i \in rendering : Accepted(i)) \/ RunStarts
  BY <1>1 DEF Accepted, RunStarts
<1>2. CASE (\E line \in Vocabulary : Delta(line)) \/ StreamEnds \/ AsksAgain
  BY <1>2 DEF Delta, StreamEnds, AsksAgain
<1>3. CASE StreamThrows \/ Stops \/ Restarts
  BY <1>3 DEF StreamThrows, Stops, Fails, Restarts
<1>4. CASE Answers \/ Splits
  BY <1>4 DEF Answers, Splits
<1>5. CASE Begins \/ (\E fails \in BOOLEAN : Finishes(fails)) \/ Warns
  BY <1>5 DEF Begins, Finishes, Warns
<1>6. CASE UNCHANGED exchangeVars
  BY <1>6 DEF exchangeVars
<1> QED BY <1>1, <1>2, <1>3, <1>4, <1>5, <1>6 DEF ExchangesNext

ExchangeInv == TextInv /\ Transcribed(cache)

LEMMA ExchangeKept == ExchangeInv /\ [ExchangesNext]_exchangeVars => ExchangeInv'
<1> SUFFICES ASSUME ExchangeInv, [ExchangesNext]_exchangeVars PROVE ExchangeInv'
  OBVIOUS
<1>1. TextInv'
  BY TextKept DEF ExchangeInv
<1>2. cache' = cache \/ cache' = rows'
  BY MessagesFollow DEF Follows, Operator
<1> QED BY <1>1, <1>2 DEF ExchangeInv, TextInv

\* The agent's messages are the rows but for the last ones, which await their rendering.
Lag == \E n \in 0 .. Len(rows) : cache = SubSeq(rows, 1, n) /\ n + 1 .. Len(rows) \subseteq rendering

LEMMA WholeIsAll == ASSUME NEW M, NEW s \in Seq(M) PROVE SubSeq(s, 1, Len(s)) = s /\ Len(s) \in 0 .. Len(s)
<1>1. PICK t : t = SubSeq(s, 1, Len(s))
  OBVIOUS
<1>2. t \in Seq(M) /\ Len(t) = Len(s) /\ \A i \in 1 .. Len(t) : t[i] = s[i]
  BY <1>1
<1>3. t = s
  BY <1>2, SeqEqual
<1> QED BY <1>1, <1>3

LEMMA LagKept == ExchangeInv /\ Lag /\ [ExchangesNext]_exchangeVars => Lag'
<1> SUFFICES ASSUME ExchangeInv, Lag, [ExchangesNext]_exchangeVars PROVE Lag'
  OBVIOUS
<1>1. ExchangeInv'
  BY ExchangeKept
<1>2. PICK L : rows \in Seq(Messages(L))
  BY DEF ExchangeInv, TextInv, Transcribed
<1>3. PICK K : rows' \in Seq(Messages(K))
  BY <1>1 DEF ExchangeInv, TextInv, Transcribed
<1>4. CASE cache' = rows'
  <2>1. cache' = SubSeq(rows', 1, Len(rows')) /\ Len(rows') \in 0 .. Len(rows') /\ Len(rows') \in Nat
    BY <1>3, <1>4, WholeIsAll
  <2>2. Len(rows') + 1 .. Len(rows') = {}
    BY <2>1
  <2> QED BY <2>1, <2>2 DEF Lag
<1>5. CASE rows' = rows /\ cache' = cache /\ rendering' = rendering
  BY <1>5 DEF Lag
<1>6. ASSUME NEW text \in Told, Operator(text) PROVE Lag'
  <2>1. PICK n \in 0 .. Len(rows) : cache = SubSeq(rows, 1, n) /\ n + 1 .. Len(rows) \subseteq rendering
    BY DEF Lag
  <2>2. PICK N \in Nat : N = Len(rows)
    BY <1>2
  <2>3. PICK m : m = Said("user", text)
    OBVIOUS
  <2>4. rows' = Append(rows, m) /\ cache' = cache /\ rendering' = rendering \cup {Len(rows')}
    BY <1>6, <2>3 DEF Operator, Store
  <2>5. PICK S : S = Messages(L) \cup {m}
    OBVIOUS
  <2>6. rows \in Seq(S)
    <3>1. Messages(L) \subseteq S
      BY <2>5
    <3> QED BY <1>2, <3>1, SeqMonotonic
  <2>7. Len(rows') = N + 1 /\ SubSeq(rows', 1, n) = SubSeq(rows, 1, n)
    <3>1. m \in S
      BY <2>5
    <3>2. PICK a : a = SubSeq(rows', 1, n)
      OBVIOUS
    <3>3. PICK b : b = SubSeq(rows, 1, n)
      OBVIOUS
    <3>4. n \in 0 .. N /\ Len(rows') = N + 1 /\ \A i \in 1 .. N : rows'[i] = rows[i]
      BY <2>1, <2>2, <2>4, <2>6, <3>1
    <3>5. rows' \in Seq(S)
      BY <2>4, <2>6, <3>1
    <3>6. a \in Seq(S) /\ Len(a) = n /\ \A i \in 1 .. n : a[i] = rows'[i]
      BY <3>2, <3>4, <3>5
    <3>7. b \in Seq(S) /\ Len(b) = n /\ \A i \in 1 .. n : b[i] = rows[i]
      BY <2>2, <2>6, <3>3, <3>4
    <3>8. \A i \in 1 .. n : a[i] = b[i]
      BY <3>4, <3>6, <3>7
    <3>9. a = b
      BY <3>6, <3>7, <3>8, SeqEqual
    <3> QED BY <3>2, <3>3, <3>4, <3>9
  <2>8. n \in 0 .. Len(rows') /\ n + 1 .. Len(rows') \subseteq rendering'
    <3>1. n + 1 .. N + 1 \subseteq (n + 1 .. N) \cup {N + 1}
      BY <2>1, <2>2
    <3> QED BY <2>1, <2>2, <2>4, <2>7, <3>1
  <2> QED BY <2>1, <2>4, <2>7, <2>8 DEF Lag
<1> QED BY <1>4, <1>5, <1>6, MessagesFollow DEF Follows

LEMMA ExchangeHolds == ExchangesInit /\ [][ExchangesNext]_exchangeVars => []ExchangeInv
<1>1. ExchangesInit => ExchangeInv
  <2> SUFFICES ASSUME ExchangesInit PROVE ExchangeInv
    OBVIOUS
  <2>1. rows = <<>> /\ cache = <<>> /\ reply = <<>> /\ todo = <<>> /\ errors = <<>> /\ begun = FALSE
    BY DEF ExchangesInit
  <2>2. Transcribed(rows) /\ Transcribed(cache)
    <3>1. PICK L : L = {Blank}
      OBVIOUS
    <3>2. rows \in Seq(Messages(L)) /\ Blank \in L /\ cache = rows
      BY <2>1, <3>1
    <3> QED BY <3>2 DEF Transcribed
  <2> QED BY <2>1, <2>2, NoCalls DEF ExchangeInv, TextInv
<1> QED BY <1>1, ExchangeKept, PTL

LEMMA LagHolds == ExchangesInit /\ [][ExchangesNext]_exchangeVars => []Lag
<1>1. ExchangesInit => Lag
  <2> SUFFICES ASSUME ExchangesInit PROVE Lag
    OBVIOUS
  <2>1. rows = <<>> /\ cache = <<>>
    BY DEF ExchangesInit
  <2>2. rows \in Seq({0}) /\ Len(rows) = 0
    BY <2>1
  <2>3. SubSeq(rows, 1, Len(rows)) = rows
    BY <2>2, WholeIsAll
  <2>4. 0 \in 0 .. Len(rows) /\ 0 + 1 .. Len(rows) = {} /\ cache = SubSeq(rows, 1, 0)
    BY <2>1, <2>2, <2>3
  <2> QED BY <2>4 DEF Lag
<1> QED BY <1>1, LagKept, ExchangeHolds, PTL

-----------------------------------------------------------------------------
LEMMA StaysFilled ==
  ASSUME NEW a, NEW b, IsText(a), IsText(b), ~IsBlank(a) PROVE ~IsBlank(a \o b)
<1>1. PICK K : a \in Seq(K)
  BY DEF IsText
<1>2. PICK L : b \in Seq(L)
  BY DEF IsText
<1>3. PICK M : M = K \cup L
  OBVIOUS
<1>4. a \in Seq(M)
  BY <1>1, <1>3, SeqMonotonic
<1>5. b \in Seq(M)
  BY <1>2, <1>3, SeqMonotonic
<1>6. PICK c : c = a \o b
  OBVIOUS
<1>7. /\ c \in Seq(M) /\ Len(c) = Len(a) + Len(b)
      /\ \A i \in 1 .. Len(a) + Len(b) : c[i] = IF i <= Len(a) THEN a[i] ELSE b[i - Len(a)]
  BY <1>4, <1>5, <1>6, ConcatProperties
<1>8. /\ DOMAIN a = 1 .. Len(a) /\ DOMAIN c = 1 .. Len(c)
      /\ Len(a) \in Nat /\ Len(b) \in Nat
  BY <1>4, <1>5, <1>7
<1>9. PICK i \in 1 .. Len(a) : a[i] # Blank
  BY <1>8 DEF IsBlank
<1>10. i \in 1 .. Len(a) + Len(b) /\ i <= Len(a)
  BY <1>8
<1>11. i \in DOMAIN c /\ c[i] # Blank
  BY <1>7, <1>8, <1>9, <1>10
<1> QED BY <1>6, <1>11 DEF IsBlank

LEMMA LayerIsText == \A name : IsText(Layer(name)) /\ ~IsBlank(Layer(name))
<1> SUFFICES ASSUME NEW name PROVE IsText(Layer(name)) /\ ~IsBlank(Layer(name))
  OBVIOUS
<1>1. Word(name) # Blank
  <2>1. Word(name).is = "word" /\ Blank.is = "blank"
    BY DEF Word, Blank
  <2> QED BY <2>1
<1>2. 1 \in DOMAIN Layer(name) /\ Layer(name)[1] = Word(name)
  BY DEF Layer
<1> QED BY <1>1, <1>2, OneLine DEF Layer, IsBlank

LEMMA PromptIsText == IsText(Prompt) /\ ~IsBlank(Prompt)
<1>1. PICK nothing : nothing = <<>>
  OBVIOUS
<1>2. PICK core : core = Layer("core") \o Layer("wire")
  OBVIOUS
<1>3. PICK own : own = core \o nothing
  OBVIOUS
<1>4. PICK paths : paths = own \o Layer("paths")
  OBVIOUS
<1>5. IsText(nothing)
  BY <1>1, NoCalls
<1>6. IsText(core) /\ ~IsBlank(core)
  BY <1>2, LayerIsText, TwoTexts, StaysFilled
<1>7. IsText(own) /\ ~IsBlank(own)
  BY <1>3, <1>5, <1>6, TwoTexts, StaysFilled
<1>8. IsText(paths) /\ ~IsBlank(paths)
  BY <1>4, <1>7, LayerIsText, TwoTexts, StaysFilled
<1>9. Prompt = paths \o Layer("runtime")
  BY <1>1, <1>2, <1>3, <1>4 DEF Prompt, FullSystemPrompt
<1> QED BY <1>8, <1>9, LayerIsText, TwoTexts, StaysFilled

Opening == <<Said("user", Prompt), Said("assistant", Layer("understood"))>>

\* The messages of a request are the prompt, its answer and what was said.
LEMMA RequestSays ==
  ASSUME NEW messages, Transcribed(messages)
  PROVE  \E L : /\ Blank \in L /\ Opening \o messages \in Seq(Messages(L))
                /\ Opening \o messages # <<>> /\ (Opening \o messages)[1] = Said("user", Prompt)
<1>1. Transcribed(<<>>)
  <2>1. PICK L : L = {Blank}
    OBVIOUS
  <2>2. PICK none : none = <<>>
    OBVIOUS
  <2>3. none \in Seq(Messages(L)) /\ Blank \in L
    BY <2>1, <2>2
  <2> QED BY <2>2, <2>3 DEF Transcribed
<1>2. PICK first : first = Append(<<>>, Said("user", Prompt))
  OBVIOUS
<1>3. PICK opening : opening = Append(first, Said("assistant", Layer("understood")))
  OBVIOUS
<1>4. "user" \in Roles /\ "assistant" \in Roles
  BY DEF Roles
<1>5. Transcribed(first)
  BY <1>1, <1>2, <1>4, PromptIsText, OneMoreSaid
<1>6. Transcribed(opening)
  BY <1>3, <1>4, <1>5, LayerIsText, OneMoreSaid
<1>7. PICK L : Blank \in L /\ opening \in Seq(Messages(L))
  BY <1>6 DEF Transcribed
<1>8. PICK K : Blank \in K /\ messages \in Seq(Messages(K))
  BY DEF Transcribed
<1>9. PICK M : M = L \cup K
  OBVIOUS
<1>10. Messages(L) \subseteq Messages(M)
  <2>1. \A t \in Seq(L) : t \in Seq(M)
    BY <1>9, SeqMonotonic
  <2> QED BY <2>1 DEF Messages
<1>11. Messages(K) \subseteq Messages(M)
  <2>1. \A t \in Seq(K) : t \in Seq(M)
    BY <1>9, SeqMonotonic
  <2> QED BY <2>1 DEF Messages
<1>12. opening \in Seq(Messages(M))
  BY <1>7, <1>10, SeqMonotonic
<1>13. messages \in Seq(Messages(M))
  BY <1>8, <1>11, SeqMonotonic
<1>14. opening = Opening
  <2>1. ASSUME NEW x, NEW y PROVE Append(Append(<<>>, x), y) = <<x, y>>
    <3>1. PICK S : S = {x, y}
      OBVIOUS
    <3>2. PICK s : s = Append(<<>>, x)
      OBVIOUS
    <3>3. s \in Seq(S) /\ Len(s) = 1 /\ s[1] = x
      BY <3>1, <3>2
    <3>4. PICK t : t = Append(s, y)
      OBVIOUS
    <3>5. t \in Seq(S) /\ Len(t) = 2 /\ t[1] = x /\ t[2] = y
      <4>1. y \in S /\ s \in Seq(S) /\ 1 \in 1 .. Len(s)
        BY <3>1, <3>3
      <4>2. /\ t \in Seq(S) /\ Len(t) = Len(s) + 1
            /\ t[Len(s) + 1] = y /\ t[1] = s[1]
        BY <3>4, <4>1
      <4> QED BY <3>3, <4>2
    <3>6. PICK u : u = <<x, y>>
      OBVIOUS
    <3>7. u \in Seq(S) /\ Len(u) = 2 /\ u[1] = x /\ u[2] = y
      BY <3>1, <3>6
    <3>8. \A i \in 1 .. Len(t) : t[i] = u[i]
      BY <3>5, <3>7
    <3>9. t = u
      BY <3>5, <3>7, <3>8, SeqEqual
    <3> QED BY <3>2, <3>4, <3>6, <3>9
  <2> QED BY <2>1, <1>2, <1>3 DEF Opening
<1>15. Len(opening) = 2 /\ opening[1] = Said("user", Prompt)
  BY <1>2, <1>3
<1>16. PICK all : all = opening \o messages
  OBVIOUS
<1>17. all \in Seq(Messages(M)) /\ Len(all) = Len(opening) + Len(messages) /\ all[1] = opening[1]
  <2>1. /\ all \in Seq(Messages(M)) /\ Len(all) = Len(opening) + Len(messages)
        /\ \A i \in 1 .. Len(opening) + Len(messages) :
             all[i] = IF i <= Len(opening) THEN opening[i] ELSE messages[i - Len(opening)]
    BY <1>12, <1>13, <1>16, ConcatProperties
  <2>2. Len(messages) \in Nat
    BY <1>13
  <2>3. 1 \in 1 .. Len(opening) + Len(messages) /\ 1 <= Len(opening)
    BY <1>15, <2>2
  <2> QED BY <2>1, <2>3
<1>18. all # <<>>
  <2>1. Len(messages) \in Nat /\ Len(all) >= 2
    BY <1>13, <1>15, <1>17
  <2> QED BY <2>1
<1>19. Blank \in M
  BY <1>7, <1>9
<1> QED BY <1>14, <1>15, <1>16, <1>17, <1>18, <1>19

\* The request of the claude-code protocol is one it takes: roles alternate, the user begins,
\* and no block is blank, whatever was stopped, dropped or answered with nothing but blanks
\* before: toAnthropicMessages() of what buildLlmRequest() puts together.
THEOREM RequestsAreAccepted ==
  ExchangesInit /\ [][ExchangesNext]_exchangeVars => []RequestIsAccepted
<1>1. ExchangeInv => RequestIsAccepted
  <2> SUFFICES ASSUME ExchangeInv, api = "anthropic" PROVE RequestIsAccepted
    BY DEF RequestIsAccepted
  <2>0. Transcribed(Base)
    BY DEF ExchangeInv, TextInv, Base
  <2>1. PICK all : all = Opening \o Base
    OBVIOUS
  <2>2. PICK L : /\ Blank \in L /\ all \in Seq(Messages(L))
                 /\ all # <<>> /\ all[1] = Said("user", Prompt)
    BY <2>0, <2>1, RequestSays
  <2>3. PICK body : body = Input(api, Request)
    OBVIOUS
  <2>4. body = ToAnthropic(all)
    BY <2>1, <2>3 DEF Input, Request, BuildLlmRequest, Opening
  <2>5. all[1].role = "user" /\ ~IsBlank(all[1].text)
    BY <2>2, PromptIsText DEF Said
  <2>6. Sound(L, body) /\ body # <<>> /\ body[1].role = "user"
    BY <2>2, <2>4, <2>5, AllDelivered DEF Delivered
  <2>7. DOMAIN body = 1 .. Len(body)
    BY <2>6 DEF Sound
  <2> QED BY <2>3, <2>6, <2>7 DEF RequestIsAccepted, Sound
<1> QED BY <1>1, ExchangeHolds, PTL

\* Whichever protocol carries a request, it tells the model the prompt and then everything
\* that was said, by whom and in order, and nothing else, but for messages of the operator
\* whose rendering is awaited: buildLlmRequest() reads agent.messages, which syncAgentState()
\* brings up to date, and toAnthropicMessages(), codexInput() or chat completions carries them.
THEOREM ConversationIsOne ==
  ExchangesInit /\ [][ExchangesNext]_exchangeVars => []SameConversation
<1>1. ExchangeInv /\ Lag => SameConversation
  <2> SUFFICES ASSUME ExchangeInv, Lag PROVE SameConversation
    OBVIOUS
  <2>0. Transcribed(Base)
    BY DEF ExchangeInv, TextInv, Base
  <2>1. PICK all : all = Opening \o Base
    OBVIOUS
  <2>2. PICK L : Blank \in L /\ all \in Seq(Messages(L))
    BY <2>0, <2>1, RequestSays
  <2>3. PICK body : body = Input(api, Request)
    OBVIOUS
  <2>4. body \in Seq(Messages(L)) /\ Lines(body) = Lines(all)
    <3>1. CASE api = "anthropic"
      <4>1. body = ToAnthropic(all)
        BY <2>1, <2>3, <3>1 DEF Input, Request, BuildLlmRequest, Opening
      <4> QED BY <2>2, <4>1, AllDelivered DEF Delivered, Sound
    <3>2. CASE api = "responses"
      <4>1. PICK at : at = {i \in DOMAIN all : all[i].role = "assistant" => ~Empty(all[i].text)}
        OBVIOUS
      <4>2. body = Chosen(all, at)
        BY <2>1, <2>3, <3>2, <4>1 DEF Input, ToCodex, Request, BuildLlmRequest, Opening
      <4>3. ASSUME NEW i \in 1 .. Len(all), i \notin at PROVE IsBlank(all[i].text)
        <5>1. DOMAIN all = 1 .. Len(all)
          BY <2>2
        <5>2. Empty(all[i].text)
          BY <4>1, <4>3, <5>1
        <5> QED BY <5>2 DEF Empty, IsBlank
      <4> QED BY <2>2, <4>2, <4>3, LinesChosen
    <3>3. CASE api # "anthropic" /\ api # "responses"
      <4>1. body = <<>> \o all \/ body = all
        BY <2>1, <2>3, <3>3 DEF Input, ToOpenAI, Request, BuildLlmRequest, Opening
      <4>2. <<>> \o all = all
        BY <2>2
      <4> QED BY <2>2, <4>1, <4>2
    <3> QED BY <3>1, <3>2, <3>3
  <2>5. PICK at : at = {i \in DOMAIN body : body[i].role # "system"}
    OBVIOUS
  <2>6. 1 .. Len(body) \subseteq at
    <3>1. \A i \in 1 .. Len(body) : i \in DOMAIN body /\ body[i] \in Messages(L)
      BY <2>4
    <3>2. \A m \in Messages(L) : m.role # "system"
      BY DEF Messages, Roles
    <3> QED BY <2>5, <3>1, <3>2
  <2>7. Chosen(body, at) = body
    BY <2>4, <2>6, ChosenAll
  <2>8. \E n \in 0 .. Len(rows) : n + 1 .. Len(rows) \subseteq rendering /\ Base = SubSeq(rows, 1, n)
    <3>1. CASE forked
      <4>1. PICK K : rows \in Seq(Messages(K))
        BY DEF ExchangeInv, TextInv, Transcribed
      <4>2. Len(rows) \in 0 .. Len(rows) /\ Base = SubSeq(rows, 1, Len(rows)) /\ Len(rows) \in Nat
        BY <3>1, <4>1, WholeIsAll DEF Base
      <4>3. Len(rows) + 1 .. Len(rows) = {}
        BY <4>2
      <4> QED BY <4>2, <4>3
    <3>2. CASE ~forked
      BY <3>2 DEF Base, Lag
    <3> QED BY <3>1, <3>2
  <2> QED BY <2>1, <2>3, <2>4, <2>5, <2>7, <2>8 DEF SameConversation, Opening
<1> QED BY <1>1, ExchangeHolds, LagHolds, PTL

-----------------------------------------------------------------------------
(***************************************************************************)
(* The answer that streams in: what is read of a text is the beginning of  *)
(* what is read of a longer one, function by function.                     *)
(***************************************************************************)

\* A text is what another one begins with.
Leads(p, q) == Len(p) <= Len(q) /\ \A i \in 1 .. Len(p) : q[i] = p[i]

LEMMA LeadsIsPrefix ==
  ASSUME NEW S, NEW p \in Seq(S), NEW q \in Seq(S), Leads(p, q) PROVE IsPrefix(p, q)
<1>1. PICK n \in Nat : n = Len(p)
  OBVIOUS
<1>2. n <= Len(q) /\ \A i \in 1 .. n : q[i] = p[i]
  BY <1>1 DEF Leads
<1>3. PICK a : a = SubSeq(p, 1, n)
  OBVIOUS
<1>4. a \in Seq(S) /\ Len(a) = n /\ \A i \in 1 .. n : a[i] = p[i]
  <2>1. \A i \in 1 .. n : p[i] \in S
    BY <1>1
  <2> QED BY <1>3, <2>1, SubSeqProperties
<1>5. PICK b : b = SubSeq(q, 1, n)
  OBVIOUS
<1>6. b \in Seq(S) /\ Len(b) = n /\ \A i \in 1 .. n : b[i] = q[i]
  <2>1. \A i \in 1 .. n : q[i] \in S
    BY <1>2
  <2> QED BY <1>5, <2>1, SubSeqProperties
<1>7. a = b
  BY <1>2, <1>4, <1>6, SeqEqual
<1> QED BY <1>1, <1>2, <1>3, <1>5, <1>7 DEF IsPrefix

\* Pieces cut at one place out of two texts that are the same up to the end of the first.
LEMMA PiecesLead ==
  ASSUME NEW S, NEW p \in Seq(S), NEW q \in Seq(S), NEW a \in Nat \ {0}, NEW n \in Nat, NEW m \in Nat,
         n <= m, n <= Len(p), m <= Len(q), Continues(n, p, q)
  PROVE  /\ Leads(SubSeq(p, a, n), SubSeq(q, a, m))
         /\ n = m => SubSeq(p, a, n) = SubSeq(q, a, m)
         /\ SubSeq(p, a, n) \in Seq(S) /\ SubSeq(q, a, m) \in Seq(S)
<1>1. PICK u : u = SubSeq(p, a, n)
  OBVIOUS
<1>2. PICK v : v = SubSeq(q, a, m)
  OBVIOUS
<1>3. /\ u \in Seq(S) /\ Len(u) = (IF a <= n THEN n - a + 1 ELSE 0)
      /\ \A i \in 1 .. n - a + 1 : u[i] = p[a + i - 1]
  <2>1. \A i \in a .. n : p[i] \in S
    OBVIOUS
  <2> QED BY <1>1, <2>1, SubSeqProperties
<1>4. /\ v \in Seq(S) /\ Len(v) = (IF a <= m THEN m - a + 1 ELSE 0)
      /\ \A i \in 1 .. m - a + 1 : v[i] = q[a + i - 1]
  <2>1. \A i \in a .. m : q[i] \in S
    OBVIOUS
  <2> QED BY <1>2, <2>1, SubSeqProperties
<1>5. Len(u) <= Len(v) /\ (n = m => Len(u) = Len(v))
  BY <1>3, <1>4
<1>6. ASSUME NEW i \in 1 .. Len(u) PROVE v[i] = u[i]
  <2>1. a <= n
    BY <1>3, <1>6
  <2>2. i \in 1 .. n - a + 1 /\ i \in 1 .. m - a + 1 /\ a + i - 1 \in 1 .. n
    BY <1>3, <1>6, <2>1
  <2>3. q[a + i - 1] = p[a + i - 1]
    BY <2>2 DEF Continues
  <2> QED BY <1>3, <1>4, <2>2, <2>3
<1>7. n = m => u = v
  BY <1>3, <1>4, <1>5, <1>6, SeqEqual
<1> QED BY <1>1, <1>2, <1>3, <1>4, <1>5, <1>6, <1>7 DEF Leads

\* Where the content of a body ends: before the first lone `§' or at the end, and before
\* the ragged one with nothing but blanks behind it.
ContentEnds(raw, n, m, e) ==
  /\ n \in 0 .. Len(raw) /\ m \in 0 .. n
  /\ n = Len(raw) \/ raw[n + 1] = Close
  /\ \A i \in 1 .. n : raw[i] # Close
  /\ m = 0 \/ raw[m] # Blank
  /\ \A i \in m + 1 .. n : raw[i] = Blank
  /\ e = IF m > 1 /\ raw[m] = Ragged THEN m - 1 ELSE n

LEMMA ClosedIs ==
  ASSUME NEW S, NEW t \in Seq(S)
  PROVE  \E n \in 0 .. Len(t) : /\ Closed(t) = SubSeq(t, 1, n)
                                /\ n = Len(t) \/ t[n + 1] = Close
                                /\ \A i \in 1 .. n : t[i] # Close
<1> DEFINE I == {i \in 1 .. Len(t) : t[i] = Close}
<1>1. PICK c : c = IF I # {} THEN Min(I) ELSE 0
  OBVIOUS
<1>2. Closed(t) = IF c = 0 THEN t ELSE SubSeq(t, 1, c - 1)
  BY <1>1 DEF Closed, SelectInSeq
<1>3. CASE I = {}
  <2>1. SubSeq(t, 1, Len(t)) = t /\ Len(t) \in 0 .. Len(t)
    OBVIOUS
  <2>2. Closed(t) = t
    BY <1>1, <1>2, <1>3
  <2>3. \A i \in 1 .. Len(t) : t[i] # Close
    BY <1>3
  <2> QED BY <2>1, <2>2, <2>3
<1>4. CASE I # {}
  <2>1. c \in I /\ \A y \in I : c <= y
    <3>1. I \subseteq 1 .. Len(t) /\ Len(t) \in Nat
      OBVIOUS
    <3> HIDE DEF I
    <3>2. Min(I) \in I /\ \A y \in I : Min(I) <= y
      BY <1>4, <3>1, Leftmost
    <3> QED BY <1>1, <1>4, <3>2
  <2>2. c \in 1 .. Len(t) /\ t[c] = Close /\ \A i \in 1 .. Len(t) : t[i] = Close => c <= i
    BY <2>1
  <2>3. PICK n : n = c - 1
    OBVIOUS
  <2>4. n \in 0 .. Len(t) /\ n + 1 = c /\ c # 0
    BY <2>2, <2>3
  <2>5. ASSUME NEW i \in 1 .. n PROVE t[i] # Close
    <3>1. i \in 1 .. Len(t) /\ ~(c <= i)
      BY <2>2, <2>3
    <3> QED BY <2>2, <3>1
  <2>6. Closed(t) = SubSeq(t, 1, n)
    BY <1>2, <2>3, <2>4
  <2> QED BY <2>2, <2>4, <2>5, <2>6
<1> QED BY <1>3, <1>4

LEMMA RightTrimIs ==
  ASSUME NEW S, NEW t \in Seq(S)
  PROVE  \E n \in 0 .. Len(t) : /\ RightTrim(t) = SubSeq(t, 1, n)
                                /\ n = 0 \/ t[n] # Blank
                                /\ \A i \in n + 1 .. Len(t) : t[i] = Blank
<1> DEFINE I == {i \in 1 .. Len(t) : t[i] # Blank}
<1>1. PICK n : n = IF I # {} THEN Max(I) ELSE 0
  OBVIOUS
<1>2. RightTrim(t) = SubSeq(t, 1, n)
  BY <1>1 DEF RightTrim, SelectLastInSeq
<1>3. CASE I = {}
  <2>1. n = 0 /\ 0 \in 0 .. Len(t)
    BY <1>1, <1>3
  <2>2. \A i \in 0 + 1 .. Len(t) : t[i] = Blank
    BY <1>3
  <2> QED BY <1>2, <2>1, <2>2
<1>4. CASE I # {}
  <2>1. n \in I /\ \A y \in I : y <= n
    <3>1. I \subseteq 1 .. Len(t) /\ Len(t) \in Nat
      OBVIOUS
    <3> HIDE DEF I
    <3>2. Max(I) \in I /\ \A y \in I : y <= Max(I)
      BY <1>4, <3>1, Rightmost
    <3> QED BY <1>1, <1>4, <3>2
  <2>2. n \in 1 .. Len(t) /\ t[n] # Blank /\ \A i \in 1 .. Len(t) : t[i] # Blank => i <= n
    BY <2>1
  <2>3. ASSUME NEW i \in n + 1 .. Len(t) PROVE t[i] = Blank
    <3>1. i \in 1 .. Len(t) /\ ~(i <= n)
      BY <2>2
    <3> QED BY <2>2, <3>1
  <2>4. n \in 0 .. Len(t)
    BY <2>2
  <2> QED BY <1>2, <2>2, <2>3, <2>4
<1> QED BY <1>3, <1>4

LEMMA ContentIs ==
  ASSUME NEW S, NEW raw \in Seq(S)
  PROVE  \E n, m, e : ContentEnds(raw, n, m, e) /\ Content(raw) = SubSeq(raw, 1, e)
<1>1. PICK n \in 0 .. Len(raw) : /\ Closed(raw) = SubSeq(raw, 1, n)
                                 /\ n = Len(raw) \/ raw[n + 1] = Close
                                 /\ \A i \in 1 .. n : raw[i] # Close
  BY ClosedIs
<1>2. PICK closed : closed = Closed(raw)
  OBVIOUS
<1>3. closed \in Seq(S) /\ Len(closed) = n /\ \A i \in 1 .. n : closed[i] = raw[i]
  <2>1. \A i \in 1 .. n : raw[i] \in S
    OBVIOUS
  <2> QED BY <1>1, <1>2, <2>1, SubSeqProperties
<1>4. PICK m \in 0 .. Len(closed) : /\ RightTrim(closed) = SubSeq(closed, 1, m)
                                    /\ m = 0 \/ closed[m] # Blank
                                    /\ \A i \in m + 1 .. Len(closed) : closed[i] = Blank
  BY <1>3, RightTrimIs
<1>5. PICK t : t = RightTrim(closed)
  OBVIOUS
<1>6. t \in Seq(S) /\ Len(t) = m /\ m \in 0 .. n /\ \A i \in 1 .. m : t[i] = raw[i]
  <2>1. m \in 0 .. n /\ \A i \in 1 .. m : closed[i] \in S /\ closed[i] = raw[i]
    BY <1>3
  <2>2. t \in Seq(S) /\ Len(t) = m /\ \A i \in 1 .. m : t[i] = closed[i]
    BY <1>4, <1>5, <2>1, SubSeqProperties
  <2> QED BY <2>1, <2>2
<1>7. PICK e : e = IF m > 1 /\ raw[m] = Ragged THEN m - 1 ELSE n
  OBVIOUS
<1>8. ContentEnds(raw, n, m, e)
  <2>1. m = 0 \/ raw[m] # Blank
    <3>1. m # 0 => m \in 1 .. n
      BY <1>6
    <3> QED BY <1>3, <1>4, <3>1
  <2>2. ASSUME NEW i \in m + 1 .. n PROVE raw[i] = Blank
    <3>1. i \in 1 .. n /\ i \in m + 1 .. Len(closed)
      BY <1>3, <1>6
    <3> QED BY <1>3, <1>4, <3>1
  <2> QED BY <1>1, <1>6, <1>7, <2>1, <2>2 DEF ContentEnds
<1>9. Content(raw) = IF Len(t) > 1 /\ Last(t) = Ragged THEN Front(t) ELSE closed
  BY <1>2, <1>5 DEF Content
<1>10. CASE m > 1 /\ raw[m] = Ragged
  <2>1. m \in 1 .. m /\ Len(t) > 1
    BY <1>6, <1>10
  <2>2. Last(t) = Ragged
    BY <1>6, <1>10, <2>1 DEF Last
  <2>3. Content(raw) = Front(t) /\ e = m - 1
    BY <1>7, <1>9, <1>10, <2>1, <2>2
  <2>4. PICK f : f = Front(t)
    OBVIOUS
  <2>5. f \in Seq(S) /\ Len(f) = m - 1 /\ \A i \in 1 .. m - 1 : f[i] = t[i]
    <3>1. t # <<>>
      BY <1>6, <2>1
    <3> QED BY <1>6, <2>4, <3>1, FrontLast
  <2>6. PICK u : u = SubSeq(raw, 1, m - 1)
    OBVIOUS
  <2>7. u \in Seq(S) /\ Len(u) = m - 1 /\ \A i \in 1 .. m - 1 : u[i] = raw[i]
    <3>1. m - 1 \in Nat /\ \A i \in 1 .. m - 1 : raw[i] \in S
      BY <1>6, <1>10
    <3> QED BY <2>6, <3>1, SubSeqProperties
  <2>8. ASSUME NEW i \in 1 .. m - 1 PROVE f[i] = u[i]
    <3>1. f[i] = t[i] /\ u[i] = raw[i]
      BY <2>5, <2>7
    <3>2. i \in 1 .. m
      BY <1>6
    <3> QED BY <1>6, <3>1, <3>2
  <2>9. f = u
    BY <2>5, <2>7, <2>8, SeqEqual
  <2> QED BY <1>8, <2>3, <2>4, <2>6, <2>9
<1>11. CASE ~(m > 1 /\ raw[m] = Ragged)
  <2>1. e = n
    BY <1>7, <1>11
  <2>2. ~(Len(t) > 1 /\ Last(t) = Ragged)
    <3>1. Len(t) > 1 => Last(t) = raw[m]
      <4>1. Len(t) > 1 => m \in 1 .. m
        BY <1>6
      <4> QED BY <1>6, <4>1 DEF Last
    <3> QED BY <1>6, <1>11, <3>1
  <2>3. Content(raw) = closed
    BY <1>9, <2>2
  <2> QED BY <1>1, <1>2, <1>8, <2>1, <2>3
<1> QED BY <1>10, <1>11

\* The content of a body that is still being written is the beginning of what it will be:
\* what a closing mark takes away later was not part of it.
LEMMA ContentLeads ==
  ASSUME NEW S, NEW p \in Seq(S), NEW q \in Seq(S), Leads(p, q)
  PROVE  /\ Leads(Content(p), Content(q))
         /\ Content(p) \in Seq(S) /\ Content(q) \in Seq(S)
<1>1. PICK n, m, e : ContentEnds(p, n, m, e) /\ Content(p) = SubSeq(p, 1, e)
  BY ContentIs
<1>2. PICK nq, mq, eq : ContentEnds(q, nq, mq, eq) /\ Content(q) = SubSeq(q, 1, eq)
  BY ContentIs
<1>3. /\ n \in 0 .. Len(p) /\ m \in 0 .. n
      /\ \A i \in 1 .. n : p[i] # Close
      /\ m = 0 \/ p[m] # Blank
      /\ \A i \in m + 1 .. n : p[i] = Blank
      /\ e = IF m > 1 /\ p[m] = Ragged THEN m - 1 ELSE n
  BY <1>1 DEF ContentEnds
<1>4. /\ nq \in 0 .. Len(q) /\ mq \in 0 .. nq
      /\ nq = Len(q) \/ q[nq + 1] = Close
      /\ mq = 0 \/ q[mq] # Blank
      /\ \A i \in mq + 1 .. nq : q[i] = Blank
      /\ eq = IF mq > 1 /\ q[mq] = Ragged THEN mq - 1 ELSE nq
  BY <1>2 DEF ContentEnds
<1>5. /\ Len(p) \in Nat /\ Len(q) \in Nat /\ Len(p) <= Len(q)
      /\ \A i \in 1 .. Len(p) : q[i] = p[i]
  BY DEF Leads
<1>6. n <= nq
  <2> SUFFICES ASSUME ~(n <= nq) PROVE FALSE
    OBVIOUS
  <2>1. nq + 1 \in 1 .. n /\ nq # Len(q) /\ nq + 1 \in 1 .. Len(p)
    BY <1>3, <1>4, <1>5
  <2>2. q[nq + 1] = Close /\ p[nq + 1] # Close /\ q[nq + 1] = p[nq + 1]
    BY <1>3, <1>4, <1>5, <2>1
  <2> QED BY <2>2
<1>7. m <= mq
  <2> SUFFICES ASSUME ~(m <= mq) PROVE FALSE
    OBVIOUS
  <2>1. m # 0 /\ m \in mq + 1 .. nq /\ m \in 1 .. Len(p)
    BY <1>3, <1>4, <1>5, <1>6
  <2>2. p[m] # Blank /\ q[m] = Blank /\ q[m] = p[m]
    BY <1>3, <1>4, <1>5, <2>1
  <2> QED BY <2>2
<1>8. e \in 0 .. n /\ eq \in 0 .. nq
  BY <1>3, <1>4
<1>9. e <= eq
  <2>1. CASE ~(mq > 1 /\ q[mq] = Ragged)
    <3>1. eq = nq
      BY <1>4, <2>1
    <3>2. n \in Nat /\ nq \in Nat
      BY <1>3, <1>4
    <3> QED BY <1>6, <1>8, <3>1, <3>2
  <2>2. CASE mq > 1 /\ q[mq] = Ragged
    <3>1. eq = mq - 1
      BY <1>4, <2>2
    <3>2. CASE m > 1 /\ p[m] = Ragged
      <4>1. e = m - 1 /\ m \in Nat /\ mq \in Nat
        BY <1>3, <1>4, <3>2
      <4> QED BY <1>7, <3>1, <4>1
    <3>3. CASE ~(m > 1 /\ p[m] = Ragged)
      <4>1. e = n
        BY <1>3, <3>3
      <4>2. n < mq
        <5> SUFFICES ASSUME ~(n < mq) PROVE FALSE
          OBVIOUS
        <5>1. mq \in 1 .. n /\ mq \in 1 .. Len(p) /\ m \in Nat /\ n \in Nat
          BY <1>3, <1>4, <1>5, <2>2
        <5>2. p[mq] = Ragged
          BY <1>5, <2>2, <5>1
        <5>3. Ragged # Blank
          BY DEF Ragged, Blank
        <5>4. ~(mq \in m + 1 .. n)
          BY <1>3, <5>2, <5>3
        <5>5. mq <= m
          BY <5>1, <5>4
        <5>6. m = mq
          BY <1>7, <5>1, <5>5
        <5> QED BY <2>2, <3>3, <5>2, <5>6
      <4>3. n \in Nat /\ mq \in Nat
        BY <1>3, <1>4
      <4> QED BY <3>1, <4>1, <4>2, <4>3
    <3> QED BY <3>2, <3>3
  <2> QED BY <2>1, <2>2
<1>10. e \in Nat /\ eq \in Nat /\ e <= Len(p) /\ eq <= Len(q)
  BY <1>3, <1>4, <1>5, <1>8
<1>11. Continues(e, p, q)
  BY <1>5, <1>10 DEF Continues
<1> QED BY <1>1, <1>2, <1>9, <1>10, <1>11, PiecesLead

\* From the first line that is not blank to the last one.
Trims(t, k, n) ==
  /\ n \in 0 .. Len(t) /\ k \in Nat \ {0}
  /\ n = 0 \/ t[n] # Blank
  /\ \A i \in n + 1 .. Len(t) : t[i] = Blank
  /\ n # 0 => k <= n /\ t[k] # Blank
  /\ \A i \in 1 .. k - 1 : t[i] = Blank

LEMMA TrimIs ==
  ASSUME NEW S, NEW t \in Seq(S)
  PROVE  \E k, n : Trims(t, k, n) /\ Trim(t) = SubSeq(t, k, n)
<1>1. PICK n \in 0 .. Len(t) : /\ RightTrim(t) = SubSeq(t, 1, n)
                               /\ n = 0 \/ t[n] # Blank
                               /\ \A i \in n + 1 .. Len(t) : t[i] = Blank
  BY RightTrimIs
<1>2. PICK r : r = RightTrim(t)
  OBVIOUS
<1>3. r \in Seq(S) /\ Len(r) = n /\ \A i \in 1 .. n : r[i] = t[i]
  <2>1. \A i \in 1 .. n : t[i] \in S
    OBVIOUS
  <2> QED BY <1>1, <1>2, <2>1, SubSeqProperties
<1> DEFINE I == {i \in 1 .. Len(r) : r[i] # Blank}
<1>4. PICK k : k = IF I # {} THEN Min(I) ELSE 0
  OBVIOUS
<1>5. Trim(t) = IF r = <<>> THEN r ELSE SubSeq(r, k, Len(r))
  BY <1>2, <1>4 DEF Trim, SelectInSeq
<1>6. CASE n = 0
  <2>1. Trim(t) = r
    BY <1>3, <1>5, <1>6
  <2>2. Trim(t) = SubSeq(t, 1, 0)
    BY <1>1, <1>2, <1>6, <2>1
  <2>3. Trims(t, 1, 0)
    BY <1>1, <1>6 DEF Trims
  <2> QED BY <2>2, <2>3
<1>7. CASE n # 0
  <2>1. r # <<>> /\ n \in 1 .. n /\ n \in I
    BY <1>1, <1>3, <1>7
  <2>2. k \in I /\ \A y \in I : k <= y
    <3>1. I \subseteq 1 .. Len(r) /\ I # {} /\ Len(r) \in Nat
      BY <1>3, <2>1
    <3> HIDE DEF I
    <3>2. Min(I) \in I /\ \A y \in I : Min(I) <= y
      BY <3>1, Leftmost
    <3> QED BY <1>4, <3>1, <3>2
  <2>3. k \in 1 .. n /\ t[k] # Blank /\ \A i \in 1 .. n : t[i] # Blank => k <= i
    BY <1>3, <2>2
  <2>4. ASSUME NEW i \in 1 .. k - 1 PROVE t[i] = Blank
    <3>1. i \in 1 .. n /\ ~(k <= i)
      BY <2>3
    <3> QED BY <2>3, <3>1
  <2>5. Trims(t, k, n)
    <3>1. n \in 0 .. Len(t) /\ k \in Nat \ {0} /\ k <= n
      BY <2>3
    <3> QED BY <1>1, <2>3, <2>4, <3>1 DEF Trims
  <2>6. SubSeq(r, k, n) = SubSeq(t, k, n)
    <3>1. Continues(n, r, t) /\ n <= Len(r) /\ n <= Len(t)
      BY <1>3 DEF Continues
    <3>2. k \in Nat \ {0} /\ n \in Nat /\ n <= n
      BY <2>3
    <3>3. r \in Seq(S)
      BY <1>3
    <3>4. n = n => SubSeq(r, k, n) = SubSeq(t, k, n)
      BY <3>1, <3>2, <3>3, PiecesLead
    <3> QED BY <3>4
  <2>7. Trim(t) = SubSeq(t, k, n)
    BY <1>3, <1>5, <2>1, <2>6
  <2> QED BY <2>5, <2>7
<1> QED BY <1>6, <1>7

LEMMA TrimLeads ==
  ASSUME NEW S, NEW p \in Seq(S), NEW q \in Seq(S), Leads(p, q)
  PROVE  Leads(Trim(p), Trim(q))
<1>1. PICK k, n : Trims(p, k, n) /\ Trim(p) = SubSeq(p, k, n)
  BY TrimIs
<1>2. PICK kq, nq : Trims(q, kq, nq) /\ Trim(q) = SubSeq(q, kq, nq)
  BY TrimIs
<1>3. /\ Len(p) \in Nat /\ Len(q) \in Nat /\ Len(p) <= Len(q)
      /\ \A i \in 1 .. Len(p) : q[i] = p[i]
  BY DEF Leads
<1>4. n \in 0 .. Len(p) /\ k \in Nat \ {0} /\ nq \in 0 .. Len(q) /\ kq \in Nat \ {0}
  BY <1>1, <1>2 DEF Trims
<1>5. CASE n = 0
  <2>1. Trim(p) = <<>>
    <3>1. k > n /\ k \in Int /\ n \in Int
      BY <1>4, <1>5
    <3> QED BY <1>1, <3>1, SubSeqEmpty
  <2>2. Trim(q) \in Seq(S)
    BY TrimTyped
  <2> QED BY <2>1, <2>2 DEF Leads
<1>6. CASE n # 0
  <2>1. n \in 1 .. Len(p) /\ k \in 1 .. n /\ k \in 1 .. Len(p)
    BY <1>1, <1>4, <1>6 DEF Trims
  <2>2. p[n] # Blank /\ p[k] # Blank /\ \A i \in 1 .. k - 1 : p[i] = Blank
    BY <1>1, <1>6 DEF Trims
  <2>3. n <= nq
    <3>1. q[n] # Blank
      BY <1>3, <2>1, <2>2
    <3>2. ~(n \in nq + 1 .. Len(q))
      BY <1>2, <3>1 DEF Trims
    <3> QED BY <1>3, <1>4, <2>1, <3>2
  <2>4. nq # 0 /\ kq <= nq /\ q[kq] # Blank /\ \A i \in 1 .. kq - 1 : q[i] = Blank
    <3>1. nq # 0
      BY <1>4, <2>1, <2>3
    <3> QED BY <1>2, <3>1 DEF Trims
  <2>5. kq <= k
    <3>1. q[k] # Blank
      BY <1>3, <2>1, <2>2
    <3>2. ~(k \in 1 .. kq - 1)
      BY <2>4, <3>1
    <3> QED BY <1>4, <2>1, <3>2
  <2>6. k <= kq
    <3> SUFFICES ASSUME ~(k <= kq) PROVE FALSE
      OBVIOUS
    <3>1. kq \in 1 .. k - 1 /\ kq \in 1 .. Len(p)
      BY <1>4, <2>1
    <3>2. p[kq] = Blank /\ q[kq] = p[kq]
      BY <1>3, <2>2, <3>1
    <3> QED BY <2>4, <3>2
  <2>7. k = kq
    BY <1>4, <2>5, <2>6
  <2>8. Continues(n, p, q) /\ n <= Len(p) /\ nq <= Len(q) /\ n \in Nat /\ nq \in Nat
    BY <1>3, <1>4, <2>1 DEF Continues
  <2>9. Leads(SubSeq(p, k, n), SubSeq(q, k, nq))
    BY <1>4, <2>3, <2>8, PiecesLead
  <2> QED BY <1>1, <1>2, <2>7, <2>9
<1> QED BY <1>5, <1>6

LEMMA UnescapeLeads ==
  ASSUME NEW p \in Seq(Vocabulary), NEW q \in Seq(Vocabulary), Leads(p, q)
  PROVE  Leads(Unescape(p), Unescape(q))
<1>1. ASSUME NEW t \in Seq(Vocabulary)
      PROVE  /\ Len(Unescape(t)) = Len(t)
             /\ \A i \in 1 .. Len(t) : Unescape(t)[i] = IF t[i].is = "escaped" THEN t[i].line ELSE t[i]
  <2>1. DOMAIN t = 1 .. Len(t) /\ Len(t) \in Nat
    OBVIOUS
  <2>2. Unescape(t) = [i \in 1 .. Len(t) |-> IF t[i].is = "escaped" THEN t[i].line ELSE t[i]]
    BY <2>1 DEF Unescape
  <2> QED BY <2>1, <2>2
<1>2. Len(p) \in Nat /\ Len(p) <= Len(q) /\ \A i \in 1 .. Len(p) : q[i] = p[i]
  BY DEF Leads
<1>3. Len(Unescape(p)) <= Len(Unescape(q))
  BY <1>1, <1>2
<1>4. ASSUME NEW i \in 1 .. Len(p) PROVE Unescape(q)[i] = Unescape(p)[i]
  <2>1. i \in 1 .. Len(q) /\ q[i] = p[i]
    BY <1>2
  <2>2. Unescape(p)[i] = IF p[i].is = "escaped" THEN p[i].line ELSE p[i]
    BY <1>1
  <2>3. Unescape(q)[i] = IF q[i].is = "escaped" THEN q[i].line ELSE q[i]
    BY <1>1, <2>1
  <2> QED BY <2>1, <2>2, <2>3
<1>5. Len(Unescape(p)) = Len(p)
  BY <1>1
<1> QED BY <1>3, <1>4, <1>5 DEF Leads

\* One more line is one more hit, or none.
LEMMA HitsGrow ==
  ASSUME NEW S, NEW t \in Seq(S), NEW l \in S
  PROVE  Hits(Append(t, l)) = IF l.is = "mark" THEN Append(Hits(t), Len(t) + 1) ELSE Hits(t)
<1>1. PICK n \in Nat : n = Len(t)
  OBVIOUS
<1>2. PICK T : T = Append(t, l)
  OBVIOUS
<1>3. T \in Seq(S) /\ Len(T) = n + 1 /\ T[n + 1] = l /\ \A i \in 1 .. n : T[i] = t[i]
  BY <1>1, <1>2, AppendProperties
<1>4. PICK places : places = [i \in 1 .. n |-> i]
  OBVIOUS
<1>5. PICK longer : longer = [i \in 1 .. n + 1 |-> i]
  OBVIOUS
<1>6. PICK e : e = n + 1
  OBVIOUS
<1>7. PICK N : N = 1 .. e
  OBVIOUS
<1>8. places \in Seq(N) /\ longer \in Seq(N) /\ e \in N /\ Len(places) = n /\ Len(longer) = e
  BY <1>4, <1>5, <1>6, <1>7
<1>9. longer = Append(places, e)
  <2>1. PICK a : a = Append(places, e)
    OBVIOUS
  <2>2. a \in Seq(N) /\ Len(a) = n + 1 /\ a[n + 1] = e /\ \A i \in 1 .. n : a[i] = places[i]
    BY <1>8, <2>1, AppendProperties
  <2>3. \A i \in 1 .. Len(longer) : longer[i] = a[i]
    BY <1>4, <1>5, <1>6, <1>8, <2>2
  <2>4. Len(longer) = Len(a)
    BY <1>6, <1>8, <2>2
  <2> QED BY <1>8, <2>1, <2>2, <2>3, <2>4, SeqEqual
<1> DEFINE at == {i \in DOMAIN t : t[i].is = "mark"}
           others == {i \in DOMAIN T : T[i].is = "mark"}
<1>10. DOMAIN t = 1 .. n /\ DOMAIN T = 1 .. n + 1
  BY <1>1, <1>3
<1>11. Hits(t) = Chosen(places, at) /\ Hits(T) = Chosen(longer, others)
  BY <1>4, <1>5, <1>10 DEF Hits
<1>12. SameAt(Len(places), at, others)
  <2>1. \A i \in 1 .. n : i \in 1 .. n + 1 /\ T[i] = t[i]
    BY <1>3
  <2> QED BY <1>8, <1>10, <2>1 DEF SameAt
<1>13. Len(places) + 1 \in others <=> l.is = "mark"
  <2>1. n + 1 \in 1 .. n + 1
    OBVIOUS
  <2> QED BY <1>3, <1>8, <1>10, <2>1
<1> HIDE DEF at, others
<1>14. Chosen(Append(places, e), others)
         = IF Len(places) + 1 \in others THEN Append(Chosen(places, at), e) ELSE Chosen(places, at)
  BY <1>8, <1>12, ChosenGrows
<1> QED BY <1>1, <1>2, <1>6, <1>9, <1>11, <1>13, <1>14

\* Where the body of a call ends.
RawEnds(t, hit, n, e) ==
  /\ Raw(t, n) = SubSeq(t, hit[n] + 1, e)
  /\ e <= Len(t)
  /\ n < Len(hit) => e = hit[n + 1] - 1
  /\ n = Len(hit) => e = Len(t) - 1 \/ e = Len(t)

LEMMA RawIs ==
  ASSUME NEW S, NEW t \in Seq(S), NEW hit, hit = Hits(t), NEW n \in 1 .. Len(hit)
  PROVE  \E e \in Nat : RawEnds(t, hit, n, e)
<1>1. hit \in Seq(1 .. Len(t)) /\ Len(t) \in Nat
  BY HitsTyped
<1>2. PICK end : end = IF n < Len(hit) THEN hit[n + 1] - 1 ELSE Len(t)
  OBVIOUS
<1>3. PICK h : h = hit[n]
  OBVIOUS
<1>4. h \in 1 .. Len(t) /\ end \in Nat /\ end <= Len(t)
  <2>1. hit[n] \in 1 .. Len(t) /\ (n < Len(hit) => hit[n + 1] \in 1 .. Len(t))
    BY <1>1
  <2> QED BY <1>1, <1>2, <1>3, <2>1
<1>5. PICK a : a = h + 1
  OBVIOUS
<1>6. PICK rest : rest = SubSeq(t, a, end)
  OBVIOUS
<1>7. /\ rest \in Seq(S) /\ Len(rest) = (IF a <= end THEN end - a + 1 ELSE 0)
      /\ \A i \in 1 .. end - a + 1 : rest[i] = t[a + i - 1]
  <2>1. a \in Int /\ end \in Int /\ \A i \in a .. end : t[i] \in S
    BY <1>4, <1>5
  <2> QED BY <1>6, <2>1, SubSeqProperties
<1>8. Raw(t, n) = IF n = Len(hit) /\ rest # <<>> /\ Last(rest) = Blank THEN Front(rest) ELSE rest
  BY <1>2, <1>3, <1>5, <1>6 DEF Raw
<1>9. n \in Nat /\ Len(hit) \in Nat /\ n <= Len(hit)
  BY <1>1
<1>10. CASE n = Len(hit) /\ rest # <<>> /\ Last(rest) = Blank
  <2>1. end = Len(t) /\ Raw(t, n) = Front(rest)
    BY <1>2, <1>8, <1>9, <1>10
  <2>2. a <= end /\ Len(rest) = end - a + 1
    <3>1. Len(rest) # 0
      BY <1>7, <1>10
    <3> QED BY <1>7, <3>1
  <2>3. PICK f : f = Front(rest)
    OBVIOUS
  <2>4. f \in Seq(S) /\ Len(f) = Len(rest) - 1 /\ \A i \in 1 .. Len(rest) - 1 : f[i] = rest[i]
    BY <1>7, <1>10, <2>3, FrontLast
  <2>5. PICK e : e = end - 1
    OBVIOUS
  <2>6. e \in Nat /\ e <= Len(t) /\ a \in Nat
    BY <1>4, <1>5, <2>2, <2>5
  <2>7. PICK u : u = SubSeq(t, a, e)
    OBVIOUS
  <2>8. /\ u \in Seq(S) /\ Len(u) = (IF a <= e THEN e - a + 1 ELSE 0)
        /\ \A i \in 1 .. e - a + 1 : u[i] = t[a + i - 1]
    <3>1. a \in Int /\ e \in Int /\ \A i \in a .. e : t[i] \in S
      BY <1>4, <1>5, <2>6
    <3> QED BY <2>7, <3>1, SubSeqProperties
  <2>9. Len(f) = Len(u)
    <3>1. Len(rest) - 1 = end - a /\ Len(f) = end - a
      BY <1>4, <2>2, <2>4, <2>6
    <3>2. Len(u) = end - a
      BY <1>4, <2>2, <2>5, <2>6, <2>8
    <3> QED BY <3>1, <3>2
  <2>10. ASSUME NEW i \in 1 .. Len(f) PROVE f[i] = u[i]
    <3>1. i \in 1 .. Len(rest) - 1 /\ i \in 1 .. end - a + 1 /\ i \in 1 .. e - a + 1
      BY <1>4, <2>2, <2>4, <2>5, <2>6
    <3>2. f[i] = rest[i]
      BY <2>4, <3>1
    <3>3. rest[i] = t[a + i - 1]
      BY <1>7, <3>1
    <3>4. u[i] = t[a + i - 1]
      BY <2>8, <3>1
    <3> QED BY <3>2, <3>3, <3>4
  <2>11. f = u
    BY <2>4, <2>8, <2>9, <2>10, SeqEqual
  <2>12. Raw(t, n) = SubSeq(t, hit[n] + 1, e)
    BY <1>3, <1>5, <2>1, <2>3, <2>7, <2>11
  <2>13. ~(n < Len(hit)) /\ e = Len(t) - 1
    BY <1>9, <1>10, <2>1, <2>5
  <2> QED BY <2>6, <2>12, <2>13 DEF RawEnds
<1>11. CASE ~(n = Len(hit) /\ rest # <<>> /\ Last(rest) = Blank)
  <2>1. Raw(t, n) = SubSeq(t, hit[n] + 1, end)
    BY <1>3, <1>5, <1>6, <1>8, <1>11
  <2>2. (n < Len(hit) => end = hit[n + 1] - 1) /\ (n = Len(hit) => end = Len(t))
    BY <1>2, <1>9
  <2> QED BY <1>4, <2>1, <2>2 DEF RawEnds
<1> QED BY <1>10, <1>11

\* A line more: the last body goes on or is closed by a hit, and the others stand.
RawStands(t, T, n) ==
  /\ n \in 1 .. Len(Hits(T)) /\ T[Hits(T)[n]] = t[Hits(t)[n]]
  /\ Leads(Raw(t, n), Raw(T, n)) /\ (n < Len(Hits(t)) => Raw(T, n) = Raw(t, n))

LEMMA RawLeads ==
  ASSUME NEW S, NEW t \in Seq(S), NEW l \in S, NEW T, T = Append(t, l), NEW n \in 1 .. Len(Hits(t))
  PROVE  RawStands(t, T, n)
<1>1. T \in Seq(S) /\ Len(T) = Len(t) + 1 /\ \A i \in 1 .. Len(t) : T[i] = t[i]
  BY AppendProperties
<1>2. PICK hit : hit = Hits(t)
  OBVIOUS
<1>3. PICK hits : hits = Hits(T)
  OBVIOUS
<1>4. hit \in Seq(1 .. Len(t)) /\ hits \in Seq(1 .. Len(T)) /\ Len(t) \in Nat
  <2>1. hit \in Seq(1 .. Len(t))
    BY <1>2, HitsTyped
  <2>2. hits \in Seq(1 .. Len(T))
    BY <1>1, <1>3, HitsTyped
  <2> QED BY <2>1, <2>2
<1>5. PICK N \in Nat : N = Len(hit) /\ n \in 1 .. N
  BY <1>2, <1>4
<1>6. /\ Len(hits) = N \/ (Len(hits) = N + 1 /\ hits[N + 1] = Len(t) + 1)
      /\ \A i \in 1 .. N : hits[i] = hit[i]
  <2>1. hits = IF l.is = "mark" THEN Append(hit, Len(t) + 1) ELSE hit
    BY <1>2, <1>3, HitsGrow
  <2>2. PICK e : e = Len(t) + 1
    OBVIOUS
  <2>3. PICK M : M = 1 .. e
    OBVIOUS
  <2>4. e \in M /\ hit \in Seq(M)
    <3>1. e \in M /\ 1 .. Len(t) \subseteq M
      BY <1>4, <2>2, <2>3
    <3> QED BY <1>4, <3>1, SeqMonotonic
  <2>5. /\ Len(Append(hit, e)) = Len(hit) + 1 /\ Append(hit, e)[Len(hit) + 1] = e
        /\ \A i \in 1 .. Len(hit) : Append(hit, e)[i] = hit[i]
    BY <2>4, AppendProperties
  <2> QED BY <1>5, <2>1, <2>2, <2>5
<1>7. n \in 1 .. Len(hits) /\ hits[n] = hit[n] /\ hit[n] \in 1 .. Len(t)
  <2>1. hit[n] \in 1 .. Len(t)
    BY <1>4, <1>5
  <2>2. n \in 1 .. Len(hits)
    <3>1. Len(hits) = N \/ Len(hits) = N + 1
      BY <1>6
    <3> QED BY <1>5, <3>1
  <2> QED BY <1>5, <1>6, <2>1, <2>2
<1>8. PICK e \in Nat : RawEnds(t, hit, n, e)
  <2>1. n \in 1 .. Len(hit)
    BY <1>5
  <2> QED BY <1>2, <2>1, RawIs
<1>9. PICK eT \in Nat : RawEnds(T, hits, n, eT)
  <2>1. T \in Seq(S) /\ n \in 1 .. Len(hits)
    BY <1>1, <1>7
  <2> QED BY <1>3, <2>1, RawIs
<1>10. e <= eT /\ (n < N => e = eT)
  <2>1. CASE n < N
    <3>1. n + 1 \in 1 .. N /\ n < Len(hits)
      BY <1>5, <1>6, <2>1
    <3>2. hits[n + 1] = hit[n + 1]
      BY <1>6, <3>1
    <3>3. e = hit[n + 1] - 1
      BY <1>5, <1>8, <2>1 DEF RawEnds
    <3>4. eT = hits[n + 1] - 1
      BY <1>9, <3>1 DEF RawEnds
    <3> QED BY <3>2, <3>3, <3>4
  <2>2. CASE n = N
    <3>1. e <= Len(t)
      BY <1>8 DEF RawEnds
    <3>2. eT = Len(t) \/ eT = Len(t) + 1
      <4>1. CASE Len(hits) = N
        <5>1. eT = Len(T) - 1 \/ eT = Len(T)
          BY <1>9, <2>2, <4>1 DEF RawEnds
        <5> QED BY <1>1, <1>4, <5>1
      <4>2. CASE Len(hits) = N + 1 /\ hits[N + 1] = Len(t) + 1
        <5>1. eT = hits[n + 1] - 1 /\ n + 1 = N + 1
          BY <1>5, <1>9, <2>2, <4>2 DEF RawEnds
        <5> QED BY <1>4, <2>2, <4>2, <5>1
      <4> QED BY <1>6, <4>1, <4>2
    <3> QED BY <1>4, <2>2, <3>1, <3>2
  <2> QED BY <1>5, <2>1, <2>2
<1>11. PICK a : a = hit[n] + 1
  OBVIOUS
<1>12. e <= Len(t) /\ eT <= Len(T)
  BY <1>8, <1>9 DEF RawEnds
<1>13. Continues(e, t, T)
  <2>1. \A i \in 1 .. e : i \in 1 .. Len(t)
    BY <1>4, <1>12
  <2> QED BY <1>1, <2>1 DEF Continues
<1>14. a \in Nat \ {0}
  BY <1>7, <1>11
<1>15. /\ Leads(SubSeq(t, a, e), SubSeq(T, a, eT))
       /\ e = eT => SubSeq(t, a, e) = SubSeq(T, a, eT)
  <2>1. T \in Seq(S)
    BY <1>1
  <2>2. e <= eT
    BY <1>10
  <2>3. PICK q \in Seq(S) : q = T
    BY <2>1
  <2>4. Continues(e, t, q) /\ eT <= Len(q) /\ e <= Len(t)
    BY <1>12, <1>13, <2>3
  <2>5. /\ Leads(SubSeq(t, a, e), SubSeq(q, a, eT))
        /\ e = eT => SubSeq(t, a, e) = SubSeq(q, a, eT)
    BY <1>14, <2>2, <2>4, PiecesLead
  <2> QED BY <2>3, <2>5
<1>16. Raw(t, n) = SubSeq(t, a, e) /\ Raw(T, n) = SubSeq(T, a, eT)
  BY <1>7, <1>8, <1>9, <1>11 DEF RawEnds
<1>17. T[hits[n]] = t[hit[n]]
  BY <1>1, <1>7
<1> QED BY <1>2, <1>3, <1>5, <1>7, <1>10, <1>15, <1>16, <1>17 DEF RawStands

LEMMA CallLeads ==
  ASSUME NEW t \in Seq(Vocabulary), NEW l \in Vocabulary, NEW T, T = Append(t, l),
         NEW n \in 1 .. Len(Hits(t))
  PROVE  /\ CallAt(T, n).kind = CallAt(t, n).kind /\ CallAt(T, n).arg = CallAt(t, n).arg
         /\ Leads(CallAt(t, n).body, CallAt(T, n).body)
         /\ n < Len(Hits(t)) => CallAt(T, n) = CallAt(t, n)
<1>1. T \in Seq(Vocabulary)
  BY AppendProperties
<1>2. /\ n \in 1 .. Len(Hits(T)) /\ T[Hits(T)[n]] = t[Hits(t)[n]]
      /\ Leads(Raw(t, n), Raw(T, n)) /\ (n < Len(Hits(t)) => Raw(T, n) = Raw(t, n))
  <2>1. RawStands(t, T, n)
    BY RawLeads
  <2> QED BY <2>1 DEF RawStands
<1>3. PICK p : p = Raw(t, n)
  OBVIOUS
<1>4. PICK q : q = Raw(T, n)
  OBVIOUS
<1>5. p \in Seq(Vocabulary) /\ q \in Seq(Vocabulary) /\ Leads(p, q)
  BY <1>1, <1>2, <1>3, <1>4, RawTyped
<1>6. PICK c : c = Content(p)
  OBVIOUS
<1>7. PICK d : d = Content(q)
  OBVIOUS
<1>8. c \in Seq(Vocabulary) /\ d \in Seq(Vocabulary) /\ Leads(c, d)
  BY <1>5, <1>6, <1>7, ContentLeads
<1>9. PICK x : x = Unescape(c)
  OBVIOUS
<1>10. PICK y : y = Unescape(d)
  OBVIOUS
<1>11. x \in Seq(Unescaped) /\ y \in Seq(Unescaped) /\ Leads(x, y)
  BY <1>8, <1>9, <1>10, UnescapeTyped, UnescapeLeads
<1>12. Leads(Trim(x), Trim(y))
  BY <1>11, TrimLeads
<1>13. PICK m : m = t[Hits(t)[n]]
  OBVIOUS
<1>14. CallAt(t, n) = [kind |-> m.kind, arg |-> Format(m.kind, m.arg),
                       body |-> IF m.kind = "read" THEN Trim(x) ELSE x]
  BY <1>3, <1>6, <1>9, <1>13 DEF CallAt
<1>15. CallAt(T, n) = [kind |-> m.kind, arg |-> Format(m.kind, m.arg),
                       body |-> IF m.kind = "read" THEN Trim(y) ELSE y]
  BY <1>2, <1>4, <1>7, <1>10, <1>13 DEF CallAt
<1>16. ASSUME n < Len(Hits(t)) PROVE x = y
  BY <1>2, <1>3, <1>4, <1>6, <1>7, <1>9, <1>10, <1>16
<1>17. Leads(CallAt(t, n).body, CallAt(T, n).body)
  <2>1. CASE m.kind = "read"
    BY <1>12, <1>14, <1>15, <2>1
  <2>2. CASE m.kind # "read"
    BY <1>11, <1>14, <1>15, <2>2
  <2> QED BY <2>1, <2>2
<1> QED BY <1>14, <1>15, <1>16, <1>17

\* What begins with words has words.
LEMMA FilledStays ==
  ASSUME NEW S, NEW p \in Seq(S), NEW q \in Seq(S), Leads(p, q), Filled(p) # <<>>
  PROVE  Filled(q) # <<>>
<1>1. PICK n \in Nat : n = Len(p)
  OBVIOUS
<1>2. n <= Len(q) /\ Len(q) \in Nat /\ \A i \in 1 .. n : q[i] = p[i]
  BY <1>1 DEF Leads
<1>3. PICK rest : rest = SubSeq(q, n + 1, Len(q))
  OBVIOUS
<1>4. rest \in Seq(S) /\ Len(rest) = Len(q) - n /\ \A i \in 1 .. Len(q) - n : rest[i] = q[n + i]
  <2>1. PICK a : a = n + 1
    OBVIOUS
  <2>2. PICK e : e = Len(q)
    OBVIOUS
  <2>3. a \in Int /\ e \in Int /\ \A i \in a .. e : q[i] \in S
    BY <1>2, <2>1, <2>2
  <2>4. /\ rest \in Seq(S) /\ Len(rest) = (IF a <= e THEN e - a + 1 ELSE 0)
        /\ \A i \in 1 .. e - a + 1 : rest[i] = q[a + i - 1]
    BY <1>3, <2>1, <2>2, <2>3, SubSeqProperties
  <2>5. Len(rest) = Len(q) - n
    BY <1>2, <2>1, <2>2, <2>4
  <2>6. ASSUME NEW i \in 1 .. Len(q) - n PROVE rest[i] = q[n + i]
    <3>1. i \in 1 .. e - a + 1 /\ a + i - 1 = n + i
      BY <1>2, <2>1, <2>2
    <3>2. rest[i] = q[a + i - 1]
      BY <2>4, <3>1
    <3> QED BY <3>1, <3>2
  <2> QED BY <2>4, <2>5, <2>6
<1>5. PICK w : w = p \o rest
  OBVIOUS
<1>6. /\ w \in Seq(S) /\ Len(w) = Len(p) + Len(rest)
      /\ \A i \in 1 .. Len(p) + Len(rest) : w[i] = IF i <= Len(p) THEN p[i] ELSE rest[i - Len(p)]
  BY <1>4, <1>5, ConcatProperties
<1>7. Len(w) = Len(q)
  BY <1>1, <1>2, <1>4, <1>6
<1>8. ASSUME NEW i \in 1 .. Len(w) PROVE w[i] = q[i]
  <2>1. i \in 1 .. Len(p) + Len(rest) /\ i \in 1 .. Len(q)
    BY <1>6, <1>7
  <2>2. CASE i <= n
    <3>1. i \in 1 .. n /\ w[i] = p[i]
      BY <1>1, <1>6, <2>1, <2>2
    <3> QED BY <1>2, <3>1
  <2>3. CASE ~(i <= n)
    <3>1. w[i] = rest[i - n]
      BY <1>1, <1>6, <2>1, <2>3
    <3>2. i - n \in 1 .. Len(q) - n /\ n + (i - n) = i
      BY <1>2, <2>1, <2>3
    <3>3. rest[i - n] = q[n + (i - n)]
      BY <1>4, <3>2
    <3> QED BY <3>1, <3>2, <3>3
  <2> QED BY <2>2, <2>3
<1>9. w = q
  BY <1>6, <1>7, <1>8, SeqEqual
<1>10. Filled(q) = Filled(p) \o Filled(rest)
  BY <1>4, <1>5, <1>9, FilledJoin
<1>11. PICK a \in Seq(S), b \in Seq(S) : a = Filled(p) /\ b = Filled(rest)
  BY <1>4, FilledTyped
<1>12. Len(a \o b) = Len(a) + Len(b) /\ a # <<>> /\ a \o b \in Seq(S)
  BY <1>11, ConcatProperties
<1>13. Len(a) # 0 /\ Len(a) \in Nat /\ Len(b) \in Nat
  BY <1>12, EmptySeq
<1>14. a \o b # <<>>
  BY <1>12, <1>13
<1> QED BY <1>10, <1>11, <1>14

\* Two lists that differ in the last element of the first, and in what the second has beyond
\* it: what is chosen of them differs in that.
LEMMA ChosenLeads ==
  ASSUME NEW S, NEW a \in Seq(S), NEW b \in Seq(S), NEW n \in Nat \ {0}, Len(a) = n,
         Len(b) = n \/ Len(b) = n + 1, Continues(n - 1, a, b),
         NEW at, NEW others, SameAt(n - 1, at, others), n \in at => n \in others
  PROVE  /\ Chosen(a, at) \in Seq(S) /\ Chosen(b, others) \in Seq(S)
         /\ Len(Chosen(a, at)) <= Len(Chosen(b, others))
         /\ \A i \in 1 .. Len(Chosen(a, at)) :
              \/ Chosen(b, others)[i] = Chosen(a, at)[i]
              \/ i = Len(Chosen(a, at)) /\ Chosen(a, at)[i] = a[n] /\ Chosen(b, others)[i] = b[n]
<1>1. PICK k : k = n - 1
  OBVIOUS
<1>2. k \in Nat /\ n = k + 1
  BY <1>1
<1>3. PICK f : f = SubSeq(a, 1, k)
  OBVIOUS
<1>4. f \in Seq(S) /\ Len(f) = k /\ \A i \in 1 .. k : f[i] = a[i]
  <2>1. \A i \in 1 .. k : a[i] \in S
    BY <1>2
  <2> QED BY <1>2, <1>3, <2>1, SubSeqProperties
<1>5. a[n] \in S /\ b[n] \in S /\ \A i \in 1 .. k : b[i] = f[i]
  <2>1. a[n] \in S /\ b[n] \in S
    OBVIOUS
  <2> QED BY <1>1, <1>4, <2>1 DEF Continues
<1>6. a = Append(f, a[n])
  <2>1. PICK x : x = Append(f, a[n])
    OBVIOUS
  <2>2. x \in Seq(S) /\ Len(x) = k + 1 /\ x[k + 1] = a[n] /\ \A i \in 1 .. k : x[i] = f[i]
    BY <1>4, <1>5, <2>1, AppendProperties
  <2>3. Len(a) = Len(x)
    BY <1>2, <2>2
  <2>4. ASSUME NEW i \in 1 .. Len(a) PROVE a[i] = x[i]
    <3>1. i \in 1 .. k \/ i = n
      BY <1>2
    <3> QED BY <1>2, <1>4, <2>2, <3>1
  <2> QED BY <2>1, <2>2, <2>3, <2>4, SeqEqual
<1>7. PICK g : g = Append(f, b[n])
  OBVIOUS
<1>8. g \in Seq(S) /\ Len(g) = n /\ \A i \in 1 .. n : g[i] = b[i]
  <2>1. g \in Seq(S) /\ Len(g) = k + 1 /\ g[k + 1] = b[n] /\ \A i \in 1 .. k : g[i] = f[i]
    BY <1>4, <1>5, <1>7, AppendProperties
  <2>2. ASSUME NEW i \in 1 .. n PROVE g[i] = b[i]
    <3>1. i \in 1 .. k \/ i = n
      BY <1>2
    <3> QED BY <1>2, <1>5, <2>1, <3>1
  <2> QED BY <1>2, <2>1, <2>2
<1>9. PICK U : U = Chosen(f, at)
  OBVIOUS
<1>10. U \in Seq(S)
  <2>1. \A i \in 1 .. Len(f) : i \in at => f[i] \in S
    BY <1>4
  <2> QED BY <1>4, <1>9, <2>1, ChosenTyped
<1>11. PICK now : now = Chosen(a, at)
  OBVIOUS
<1>12. now = IF n \in at THEN Append(U, a[n]) ELSE U
  <2>1. SameAt(Len(f), at, at)
    BY DEF SameAt
  <2>2. f \in Seq(S)
    BY <1>4
  <2>3. PICK e \in S : e = a[n]
    BY <1>5
  <2>4. Chosen(Append(f, e), at) = IF Len(f) + 1 \in at THEN Append(Chosen(f, at), e) ELSE Chosen(f, at)
    BY <2>1, <2>2, ChosenGrows
  <2>5. Len(f) + 1 = n
    BY <1>2, <1>4
  <2> QED BY <1>6, <1>9, <1>11, <2>3, <2>4, <2>5
<1>13. PICK V : V = Chosen(g, others)
  OBVIOUS
<1>14. V = IF n \in others THEN Append(U, b[n]) ELSE U
  <2>1. SameAt(Len(f), at, others)
    BY <1>1, <1>4
  <2>2. f \in Seq(S)
    BY <1>4
  <2>3. PICK e \in S : e = b[n]
    BY <1>5
  <2>4. Chosen(Append(f, e), others)
          = IF Len(f) + 1 \in others THEN Append(Chosen(f, at), e) ELSE Chosen(f, at)
    BY <2>1, <2>2, ChosenGrows
  <2>5. Len(f) + 1 = n
    BY <1>2, <1>4
  <2> QED BY <1>7, <1>9, <1>13, <2>3, <2>4, <2>5
<1>15. PICK then : then = Chosen(b, others)
  OBVIOUS
<1>16. then = V \/ \E e \in S : then = Append(V, e)
  <2>1. CASE Len(b) = n
    <3>1. g = b
      BY <1>8, <2>1, SeqEqual
    <3> QED BY <1>13, <1>15, <3>1
  <2>2. CASE Len(b) = n + 1
    <3>1. PICK e \in S : e = b[n + 1]
      BY <2>2
    <3>2. b = Append(g, e)
      <4>1. PICK x : x = Append(g, e)
        OBVIOUS
      <4>2. x \in Seq(S) /\ Len(x) = n + 1 /\ x[n + 1] = e /\ \A i \in 1 .. n : x[i] = g[i]
        BY <1>8, <4>1, AppendProperties
      <4>3. ASSUME NEW i \in 1 .. Len(b) PROVE b[i] = x[i]
        <5>1. i \in 1 .. n \/ i = n + 1
          BY <2>2
        <5> QED BY <1>8, <3>1, <4>2, <5>1
      <4>4. Len(b) = Len(x)
        BY <2>2, <4>2
      <4> QED BY <4>1, <4>2, <4>3, <4>4, SeqEqual
    <3>3. SameAt(Len(g), others, others)
      BY DEF SameAt
    <3>4. Chosen(Append(g, e), others)
            = IF Len(g) + 1 \in others THEN Append(Chosen(g, others), e) ELSE Chosen(g, others)
      BY <1>8, <3>3, ChosenGrows
    <3>5. then = Append(V, e) \/ then = V
      BY <1>13, <1>15, <3>2, <3>4
    <3> QED BY <3>5
  <2> QED BY <2>1, <2>2
<1>17. PICK u \in Nat : u = Len(U)
  BY <1>10
<1>18. /\ Append(U, a[n]) \in Seq(S) /\ Len(Append(U, a[n])) = u + 1 /\ Append(U, a[n])[u + 1] = a[n]
       /\ \A i \in 1 .. u : Append(U, a[n])[i] = U[i]
  BY <1>5, <1>10, <1>17, AppendProperties
<1>19. /\ Append(U, b[n]) \in Seq(S) /\ Len(Append(U, b[n])) = u + 1 /\ Append(U, b[n])[u + 1] = b[n]
       /\ \A i \in 1 .. u : Append(U, b[n])[i] = U[i]
  BY <1>5, <1>10, <1>17, AppendProperties
<1>20. V \in Seq(S)
  BY <1>10, <1>14, <1>19
<1>21. then \in Seq(S) /\ Leads(V, then)
  <2>1. ASSUME NEW e \in S, then = Append(V, e) PROVE then \in Seq(S) /\ Leads(V, then)
    <3>1. /\ then \in Seq(S) /\ Len(then) = Len(V) + 1
          /\ \A i \in 1 .. Len(V) : then[i] = V[i]
      BY <1>20, <2>1, AppendProperties
    <3>2. Len(V) \in Nat
      BY <1>20
    <3> QED BY <3>1, <3>2 DEF Leads
  <2>2. ASSUME then = V PROVE then \in Seq(S) /\ Leads(V, then)
    <3>1. Len(V) \in Nat
      BY <1>20
    <3> QED BY <1>20, <2>2, <3>1 DEF Leads
  <2> QED BY <1>16, <2>1, <2>2
<1>22. now \in Seq(S)
  BY <1>10, <1>12, <1>18
<1>23. Len(now) <= Len(V)
       /\ \A i \in 1 .. Len(now) : V[i] = now[i] \/ (i = Len(now) /\ now[i] = a[n] /\ V[i] = b[n])
  <2>1. CASE n \in at
    <3>1. now = Append(U, a[n]) /\ V = Append(U, b[n])
      BY <1>12, <1>14, <2>1
    <3>2. Len(now) = u + 1 /\ Len(V) = u + 1 /\ now[u + 1] = a[n] /\ V[u + 1] = b[n]
      BY <1>18, <1>19, <3>1
    <3>3. ASSUME NEW i \in 1 .. u PROVE V[i] = now[i]
      BY <1>18, <1>19, <3>1
    <3>4. ASSUME NEW i \in 1 .. u + 1 PROVE i \in 1 .. u \/ i = u + 1
      OBVIOUS
    <3> QED BY <3>2, <3>3, <3>4
  <2>2. CASE n \notin at
    <3>1. now = U /\ (V = U \/ V = Append(U, b[n]))
      BY <1>12, <1>14, <2>2
    <3>2. Len(now) = u /\ u <= Len(V)
      BY <1>17, <1>19, <3>1
    <3>3. ASSUME NEW i \in 1 .. u PROVE V[i] = now[i]
      BY <1>19, <3>1
    <3> QED BY <3>2, <3>3
  <2> QED BY <2>1, <2>2
<1>24. Len(now) \in Nat /\ Len(V) \in Nat /\ Len(then) \in Nat
  BY <1>20, <1>21, <1>22
<1>25. Len(now) <= Len(then)
       /\ \A i \in 1 .. Len(now) : then[i] = now[i] \/ (i = Len(now) /\ now[i] = a[n] /\ then[i] = b[n])
  <2>1. Len(V) <= Len(then) /\ \A i \in 1 .. Len(V) : then[i] = V[i]
    BY <1>21 DEF Leads
  <2>2. \A i \in 1 .. Len(now) : i \in 1 .. Len(V)
    BY <1>23, <1>24
  <2> QED BY <1>23, <1>24, <2>1, <2>2
<1> QED BY <1>11, <1>15, <1>21, <1>22, <1>25

\* Of two lists of calls: the first is the beginning of the second, but for the end of
\* its last one.
CallsStandIn(now, then) ==
  /\ Len(now) <= Len(then)
  /\ \A i \in DOMAIN now :
       /\ now[i].kind = then[i].kind /\ now[i].arg = then[i].arg
       /\ IsPrefix(now[i].body, then[i].body)
       /\ i < Len(now) => now[i] = then[i]

\* One line more.
LEMMA CallsLead ==
  ASSUME NEW t \in Seq(Vocabulary), NEW l \in Vocabulary
  PROVE  CallsStandIn(Calls(t), Calls(Append(t, l)))
<1>1. PICK T : T = Append(t, l)
  OBVIOUS
<1>2. T \in Seq(Vocabulary) /\ Len(T) = Len(t) + 1
  BY <1>1, AppendProperties
<1>3. PICK hit : hit = Hits(t)
  OBVIOUS
<1>4. PICK hits : hits = Hits(T)
  OBVIOUS
<1>5. hit \in Seq(1 .. Len(t)) /\ hits \in Seq(1 .. Len(T))
  <2>1. hit \in Seq(1 .. Len(t))
    BY <1>3, HitsTyped
  <2>2. hits \in Seq(1 .. Len(T))
    BY <1>2, <1>4, HitsTyped
  <2> QED BY <2>1, <2>2
<1>6. PICK n \in Nat : n = Len(hit)
  BY <1>5
<1>7. PICK N \in Nat : N = Len(hits)
  BY <1>5
<1>8. N = n \/ N = n + 1
  <2>1. hits = IF l.is = "mark" THEN Append(hit, Len(t) + 1) ELSE hit
    BY <1>1, <1>3, <1>4, HitsGrow
  <2>2. PICK e : e = Len(t) + 1
    OBVIOUS
  <2>3. PICK M : M = 1 .. Len(t) \cup {e}
    OBVIOUS
  <2>4. hit \in Seq(M) /\ e \in M
    BY <1>5, <2>3, SeqMonotonic
  <2>5. Len(Append(hit, e)) = Len(hit) + 1
    BY <2>4, AppendProperties
  <2> QED BY <1>6, <1>7, <2>1, <2>2, <2>5
<1>9. PICK calls : calls = [i \in 1 .. n |-> CallAt(t, i)]
  OBVIOUS
<1>10. PICK longer : longer = [i \in 1 .. N |-> CallAt(T, i)]
  OBVIOUS
<1>11. PICK X : X = {CallAt(t, i) : i \in 1 .. n} \cup {CallAt(T, i) : i \in 1 .. N}
  OBVIOUS
<1>12. calls \in Seq(X) /\ longer \in Seq(X) /\ Len(calls) = n /\ Len(longer) = N
  <2>1. calls \in [1 .. n -> X] /\ longer \in [1 .. N -> X]
    BY <1>9, <1>10, <1>11
  <2> QED BY <1>9, <1>10, <2>1
<1>13. \A c \in X : c.body \in Seq(Unescaped)
  <2>1. \A i \in 1 .. n : CallAt(t, i).body \in Seq(Unescaped)
    BY <1>3, <1>6, CallTyped
  <2>2. \A i \in 1 .. N : CallAt(T, i).body \in Seq(Unescaped)
    BY <1>2, <1>4, <1>7, CallTyped
  <2> QED BY <1>11, <2>1, <2>2
<1> DEFINE at == {i \in 1 .. n : Filled(calls[i].body) # <<>>}
           others == {i \in 1 .. N : Filled(longer[i].body) # <<>>}
<1>14. Calls(t) = Chosen(calls, at) /\ Calls(T) = Chosen(longer, others)
  <2>1. DOMAIN hit = 1 .. n /\ DOMAIN hits = 1 .. N
    BY <1>5, <1>6, <1>7
  <2>2. DOMAIN calls = 1 .. n /\ DOMAIN longer = 1 .. N
    BY <1>9, <1>10
  <2>3. Calls(t) = Chosen(calls, {i \in DOMAIN calls : Filled(calls[i].body) # <<>>})
    BY <1>3, <1>9, <2>1 DEF Calls
  <2>4. Calls(T) = Chosen(longer, {i \in DOMAIN longer : Filled(longer[i].body) # <<>>})
    BY <1>4, <1>10, <2>1 DEF Calls
  <2> QED BY <2>2, <2>3, <2>4
<1>15. ASSUME NEW i \in 1 .. n
       PROVE  /\ i \in 1 .. N
              /\ longer[i].kind = calls[i].kind /\ longer[i].arg = calls[i].arg
              /\ Leads(calls[i].body, longer[i].body)
              /\ i < n => longer[i] = calls[i]
  <2>1. i \in 1 .. Len(Hits(t)) /\ i \in 1 .. N
    BY <1>3, <1>6, <1>8
  <2>2. /\ CallAt(T, i).kind = CallAt(t, i).kind /\ CallAt(T, i).arg = CallAt(t, i).arg
        /\ Leads(CallAt(t, i).body, CallAt(T, i).body)
        /\ i < Len(Hits(t)) => CallAt(T, i) = CallAt(t, i)
    BY <1>1, <2>1, CallLeads
  <2>3. calls[i] = CallAt(t, i) /\ longer[i] = CallAt(T, i)
    BY <1>9, <1>10, <2>1
  <2> QED BY <1>3, <1>6, <2>1, <2>2, <2>3
<1>16. PICK now : now = Calls(t)
  OBVIOUS
<1>17. PICK then : then = Calls(T)
  OBVIOUS
<1>18. now \in Seq(X) /\ then \in Seq(X)
  <2>1. \A i \in 1 .. Len(calls) : calls[i] \in X
    BY <1>12
  <2>2. \A i \in 1 .. Len(longer) : longer[i] \in X
    BY <1>12
  <2> HIDE DEF at, others
  <2>3. Chosen(calls, at) \in Seq(X)
    BY <1>12, <2>1, ChosenTyped
  <2>4. Chosen(longer, others) \in Seq(X)
    BY <1>12, <2>2, ChosenTyped
  <2> QED BY <1>14, <1>16, <1>17, <2>3, <2>4
<1>19. CASE n = 0
  <2>1. calls = <<>>
    BY <1>12, <1>19
  <2>2. now = <<>>
    <3> HIDE DEF at
    <3> QED BY <1>14, <1>16, <2>1, ChosenNone
  <2>3. Len(now) = 0 /\ DOMAIN now = {} /\ Len(then) \in Nat
    BY <1>18, <2>2
  <2>4. CallsStandIn(now, then)
    BY <2>3 DEF CallsStandIn
  <2> QED BY <1>1, <1>16, <1>17, <2>4
<1>20. CASE n # 0
  <2>1. Continues(n - 1, calls, longer) /\ SameAt(n - 1, at, others)
    <3>1. ASSUME NEW i \in 1 .. n - 1
          PROVE  longer[i] = calls[i] /\ i \in 1 .. n /\ i \in 1 .. N
      <4>1. i \in 1 .. n /\ i < n
        BY <1>20
      <4> QED BY <1>15, <4>1
    <3>2. Continues(n - 1, calls, longer)
      BY <3>1 DEF Continues
    <3>3. SameAt(n - 1, at, others)
      BY <3>1 DEF SameAt
    <3> QED BY <3>2, <3>3
  <2>2. n \in at => n \in others
    <3> SUFFICES ASSUME n \in at PROVE n \in others
      OBVIOUS
    <3>1. n \in 1 .. n
      BY <1>20
    <3>2. n \in 1 .. N /\ Leads(calls[n].body, longer[n].body)
      BY <1>15, <3>1
    <3>3. calls[n].body \in Seq(Unescaped) /\ longer[n].body \in Seq(Unescaped)
      BY <1>12, <1>13, <3>1, <3>2
    <3>4. Filled(longer[n].body) # <<>>
      BY <3>2, <3>3, FilledStays
    <3> QED BY <3>2, <3>4
  <2>3. /\ Len(now) <= Len(then)
        /\ \A i \in 1 .. Len(now) :
             \/ then[i] = now[i]
             \/ i = Len(now) /\ now[i] = calls[n] /\ then[i] = longer[n]
    <3> HIDE DEF at, others
    <3>1. n \in Nat \ {0} /\ (Len(longer) = n \/ Len(longer) = n + 1) /\ Len(calls) = n
      BY <1>8, <1>12, <1>20
    <3>2. calls \in Seq(X) /\ longer \in Seq(X)
      BY <1>12
    <3>3. /\ Len(Chosen(calls, at)) <= Len(Chosen(longer, others))
          /\ \A i \in 1 .. Len(Chosen(calls, at)) :
               \/ Chosen(longer, others)[i] = Chosen(calls, at)[i]
               \/ /\ i = Len(Chosen(calls, at)) /\ Chosen(calls, at)[i] = calls[n]
                  /\ Chosen(longer, others)[i] = longer[n]
      BY <2>1, <2>2, <3>1, <3>2, ChosenLeads
    <3> QED BY <1>14, <1>16, <1>17, <3>3
  <2>4. ASSUME NEW i \in DOMAIN now
        PROVE  /\ now[i].kind = then[i].kind /\ now[i].arg = then[i].arg
               /\ IsPrefix(now[i].body, then[i].body)
               /\ i < Len(now) => now[i] = then[i]
    <3>1. i \in 1 .. Len(now) /\ i \in 1 .. Len(then) /\ Len(now) \in Nat
      BY <1>18, <2>3
    <3>2. now[i] \in X /\ then[i] \in X
      BY <1>18, <3>1
    <3>3. now[i].body \in Seq(Unescaped) /\ then[i].body \in Seq(Unescaped)
      BY <1>13, <3>2
    <3>4. CASE then[i] = now[i]
      <4>1. Len(now[i].body) \in Nat
        BY <3>3
      <4>2. Leads(now[i].body, then[i].body)
        BY <3>4, <4>1 DEF Leads
      <4>3. IsPrefix(now[i].body, then[i].body)
        BY <3>3, <4>2, LeadsIsPrefix
      <4> QED BY <3>4, <4>3
    <3>5. CASE i = Len(now) /\ now[i] = calls[n] /\ then[i] = longer[n]
      <4>1. n \in 1 .. n
        BY <1>20
      <4>2. /\ longer[n].kind = calls[n].kind /\ longer[n].arg = calls[n].arg
            /\ Leads(calls[n].body, longer[n].body)
        BY <1>15, <4>1
      <4>3. Leads(now[i].body, then[i].body)
        BY <3>5, <4>2
      <4>4. IsPrefix(now[i].body, then[i].body)
        BY <3>3, <4>3, LeadsIsPrefix
      <4>5. ~(i < Len(now))
        BY <3>1, <3>5
      <4> QED BY <3>5, <4>2, <4>4, <4>5
    <3> QED BY <2>3, <3>1, <3>4, <3>5
  <2>5. CallsStandIn(now, then)
    BY <2>3, <2>4 DEF CallsStandIn
  <2> QED BY <1>1, <1>16, <1>17, <2>5
<1> QED BY <1>19, <1>20

\* Of a stream that is cut, the calls run are those of the whole answer: the same kinds with
\* the same arguments, the last one's body possibly unfinished, at whatever line it was cut
\* and whatever was to come.
THEOREM CutCallsStand ==
  ExchangesInit /\ [][ExchangesNext]_exchangeVars => EarlierCallsStand
<1> DEFINE Stand == phase = "asking" /\ phase' = "asking" /\ reply # reply' /\ reply' # <<>> =>
             LET now == Calls(reply)
                 then == Calls(reply')
             IN /\ Len(now) <= Len(then)
                /\ \A i \in DOMAIN now :
                     /\ now[i].kind = then[i].kind /\ now[i].arg = then[i].arg
                     /\ IsPrefix(now[i].body, then[i].body)
                     /\ i < Len(now) => now[i] = then[i]
<1>1. ExchangeInv /\ [ExchangesNext]_exchangeVars => [Stand]_exchangeVars
  <2> SUFFICES ASSUME ExchangeInv, [ExchangesNext]_exchangeVars, phase = "asking",
                      phase' = "asking", reply # reply', reply' # <<>>
               PROVE  CallsStandIn(Calls(reply), Calls(reply'))
    BY DEF CallsStandIn
  <2>1. PICK l \in Vocabulary : reply' = Append(reply, l)
    BY DEF ExchangesNext, exchangeVars, Operator, Accepted, RunStarts, CallStarts, Delta, StreamEnds,
           StreamThrows, Fails, RunEnds, Answers, Splits, Begins, Finishes, Warns, AsksAgain, Stops,
           Restarts
  <2>2. reply \in Seq(Vocabulary)
    BY DEF ExchangeInv, TextInv
  <2> QED BY <2>1, <2>2, CallsLead
<1> QED BY <1>1, ExchangeHolds, PTL DEF EarlierCallsStand

-----------------------------------------------------------------------------
(***************************************************************************)
(* What is stored of an answer: the reader that takes it line by line and   *)
(* the parser that cuts it at its markers come to the same lines.           *)
(***************************************************************************)

\* What a line stands for, and the lines of a text that are not blank, as they are meant.
Sense(l) == IF l.is = "escaped" THEN l.line ELSE l
Plain(t) == Filled(Unescape(t))

LEMMA SenseTyped ==
  \A l \in Vocabulary : Sense(l) \in Unescaped /\ (Sense(l) = Blank <=> l = Blank)
<1> SUFFICES ASSUME NEW l \in Vocabulary
             PROVE  Sense(l) \in Unescaped /\ (Sense(l) = Blank <=> l = Blank)
  OBVIOUS
<1>1. Blank.is # "escaped"
  BY DEF Blank
<1>2. l.is = "escaped" => l.line # Blank
  BY ExchangeAssumption
<1>3. Sense(l) \in Unescaped
  BY DEF Sense, Unescaped
<1> QED BY <1>1, <1>2, <1>3 DEF Sense

LEMMA PlainTyped ==
  ASSUME NEW t \in Seq(Vocabulary)
  PROVE  Plain(t) \in Seq(Unescaped) /\ Plain(<<>>) = <<>>
<1>1. PICK u \in Seq(Unescaped) : u = Unescape(t)
  BY UnescapeTyped
<1>2. Plain(t) \in Seq(Unescaped)
  BY <1>1, FilledTyped DEF Plain
<1>3. Unescape(<<>>) = <<>>
  BY DEF Unescape
<1> QED BY <1>2, <1>3, FilledNone DEF Plain

LEMMA UnescapeGrows ==
  ASSUME NEW t \in Seq(Vocabulary), NEW l \in Vocabulary
  PROVE  Unescape(Append(t, l)) = Append(Unescape(t), Sense(l))
<1>1. PICK T : T = Append(t, l)
  OBVIOUS
<1>2. /\ T \in Seq(Vocabulary) /\ Len(T) = Len(t) + 1 /\ T[Len(t) + 1] = l
      /\ \A i \in 1 .. Len(t) : T[i] = t[i]
  BY <1>1, AppendProperties
<1>3. PICK e : e = Sense(l)
  OBVIOUS
<1>4. ASSUME NEW s \in Seq(Vocabulary)
      PROVE  /\ Unescape(s) \in Seq(Unescaped) /\ Len(Unescape(s)) = Len(s)
             /\ \A i \in 1 .. Len(s) : Unescape(s)[i] = Sense(s[i])
  <2>1. DOMAIN s = 1 .. Len(s) /\ Len(s) \in Nat
    OBVIOUS
  <2>2. Unescape(s) = [i \in 1 .. Len(s) |-> Sense(s[i])]
    BY <2>1 DEF Unescape, Sense
  <2> QED BY <2>1, <2>2, UnescapeTyped
<1>5. PICK u : u = Unescape(t)
  OBVIOUS
<1>6. u \in Seq(Unescaped) /\ Len(u) = Len(t) /\ \A i \in 1 .. Len(t) : u[i] = Sense(t[i])
  BY <1>4, <1>5
<1>7. e \in Unescaped
  BY <1>3, SenseTyped
<1>8. PICK v : v = Append(u, e)
  OBVIOUS
<1>9. /\ v \in Seq(Unescaped) /\ Len(v) = Len(t) + 1 /\ v[Len(t) + 1] = e
      /\ \A i \in 1 .. Len(t) : v[i] = u[i]
  BY <1>6, <1>7, <1>8, AppendProperties
<1>10. PICK w : w = Unescape(T)
  OBVIOUS
<1>11. w \in Seq(Unescaped) /\ Len(w) = Len(t) + 1 /\ \A i \in 1 .. Len(t) + 1 : w[i] = Sense(T[i])
  BY <1>2, <1>4, <1>10
<1>12. ASSUME NEW i \in 1 .. Len(t) + 1 PROVE w[i] = v[i]
  <2>1. Len(t) \in Nat
    OBVIOUS
  <2>2. CASE i = Len(t) + 1
    BY <1>2, <1>3, <1>9, <1>11, <2>2
  <2>3. CASE i \in 1 .. Len(t)
    BY <1>2, <1>6, <1>9, <1>11, <2>3
  <2> QED BY <2>1, <2>2, <2>3
<1>13. w = v
  BY <1>9, <1>11, <1>12, SeqEqual
<1> QED BY <1>1, <1>3, <1>5, <1>8, <1>10, <1>13

LEMMA PlainGrows ==
  ASSUME NEW t \in Seq(Vocabulary), NEW l \in Vocabulary
  PROVE  Plain(Append(t, l)) = IF l = Blank THEN Plain(t) ELSE Append(Plain(t), Sense(l))
<1>1. PICK u \in Seq(Unescaped) : u = Unescape(t)
  BY UnescapeTyped
<1>2. PICK e \in Unescaped : e = Sense(l) /\ (e = Blank <=> l = Blank)
  BY SenseTyped
<1>3. Unescape(Append(t, l)) = Append(u, e)
  BY <1>1, <1>2, UnescapeGrows
<1>4. Filled(Append(u, e)) = IF e # Blank THEN Append(Filled(u), e) ELSE Filled(u)
  BY FilledGrows
<1> QED BY <1>1, <1>2, <1>3, <1>4 DEF Plain

\* A text as far as a line, and one line further.
LEMMA OneLineMore ==
  ASSUME NEW S, NEW t \in Seq(S), NEW n \in 1 .. Len(t)
  PROVE  /\ SubSeq(t, 1, n) = Append(SubSeq(t, 1, n - 1), t[n])
         /\ SubSeq(t, 1, n - 1) \in Seq(S) /\ SubSeq(t, 1, n) \in Seq(S) /\ t[n] \in S
  OBVIOUS

\* Blank lines at the end of a text say nothing.
LEMMA PlainBlanks ==
  ASSUME NEW t \in Seq(Vocabulary), NEW n \in Nat, NEW m \in Nat, n <= m, m <= Len(t),
         \A i \in n + 1 .. m : t[i] = Blank
  PROVE  Plain(SubSeq(t, 1, m)) = Plain(SubSeq(t, 1, n))
<1> DEFINE Same(k) == Plain(SubSeq(t, 1, k)) = Plain(SubSeq(t, 1, n))
           Good == {k \in 0 .. m : k < n \/ Same(k)}
<1>1. 0 \in Good
  <2>1. n = 0 => Same(0)
    OBVIOUS
  <2> HIDE DEF Same
  <2> QED BY <2>1
<1>2. ASSUME NEW k \in 1 .. m, k - 1 \in Good PROVE k \in Good
  <2>1. CASE k < n
    BY <2>1
  <2>2. CASE k = n
    <3>1. Same(k)
      BY <2>2
    <3> HIDE DEF Same
    <3> QED BY <3>1
  <2>3. CASE k > n
    <3>1. k \in n + 1 .. m /\ k \in 1 .. Len(t) /\ ~(k - 1 < n)
      BY <2>3
    <3>2. t[k] = Blank
      BY <3>1
    <3>3. PICK p \in Seq(Vocabulary) : p = SubSeq(t, 1, k - 1)
      BY <3>1, OneLineMore
    <3>4. SubSeq(t, 1, k) = Append(p, Blank) /\ Blank \in Vocabulary
      BY <3>1, <3>2, <3>3, OneLineMore
    <3>5. Plain(Append(p, Blank)) = Plain(p)
      BY <3>4, PlainGrows
    <3>6. Same(k - 1)
      BY <1>2, <3>1
    <3>7. Same(k)
      BY <3>3, <3>4, <3>5, <3>6
    <3> HIDE DEF Same
    <3> QED BY <3>7
  <2> QED BY <2>1, <2>2, <2>3
<1>3. 0 .. m \subseteq Good
  <2> HIDE DEF Good
  <2> QED BY <1>1, <1>2, Upwards
<1>4. m \in Good /\ ~(m < n)
  BY <1>3
<1> QED BY <1>4

\* The last line that is not blank is a ragged `§' and not the first line.
Pends(b) == \E m \in 2 .. Len(b) : b[m] = Ragged /\ \A i \in m + 1 .. Len(b) : b[i] = Blank
Late(b) == IF Pends(b) THEN <<Ragged>> ELSE <<>>
Shut(b) == \E i \in 1 .. Len(b) : b[i] = Close

\* While nothing closes it a body is its content and the `§' that may close it.
LEMMA ContentOpen ==
  ASSUME NEW b \in Seq(Vocabulary), ~Shut(b)
  PROVE  Plain(Content(b)) \o Late(b) = Plain(b)
<1>1. PICK n, m, e : ContentEnds(b, n, m, e) /\ Content(b) = SubSeq(b, 1, e)
  BY ContentIs
<1>2. /\ n = Len(b) /\ n \in Nat /\ m \in 0 .. n
      /\ m = 0 \/ b[m] # Blank
      /\ \A i \in m + 1 .. n : b[i] = Blank
      /\ e = IF m > 1 /\ b[m] = Ragged THEN m - 1 ELSE n
  <2>1. n \in 0 .. Len(b) /\ (n = Len(b) \/ b[n + 1] = Close) /\ Len(b) \in Nat
    BY <1>1 DEF ContentEnds
  <2>2. n = Len(b)
    <3>1. n # Len(b) => n + 1 \in 1 .. Len(b)
      BY <2>1
    <3> QED BY <2>1, <3>1 DEF Shut
  <2> QED BY <1>1, <2>1, <2>2 DEF ContentEnds
<1>3. SubSeq(b, 1, n) = b
  BY <1>2
<1>4. CASE m > 1 /\ b[m] = Ragged
  <2>1. Pends(b) /\ e = m - 1
    <3>1. m \in 2 .. Len(b)
      BY <1>2, <1>4
    <3> QED BY <1>2, <1>4, <3>1 DEF Pends
  <2>2. m \in 1 .. Len(b)
    BY <1>2, <1>4
  <2>3. PICK p \in Seq(Vocabulary) : p = SubSeq(b, 1, m - 1)
    BY <2>2, OneLineMore
  <2>4. SubSeq(b, 1, m) = Append(p, Ragged) /\ Ragged \in Vocabulary
    BY <1>4, <2>2, <2>3, OneLineMore
  <2>5. Plain(Append(p, Ragged)) = Append(Plain(p), Ragged)
    <3>1. Ragged # Blank /\ Sense(Ragged) = Ragged
      BY DEF Ragged, Blank, Sense
    <3> QED BY <2>4, <3>1, PlainGrows
  <2>6. Plain(b) = Plain(SubSeq(b, 1, m))
    <3>1. m \in Nat /\ m <= n /\ n <= Len(b) /\ n \in Nat
      BY <1>2
    <3>2. \A i \in m + 1 .. n : b[i] = Blank
      BY <1>2
    <3>3. Plain(SubSeq(b, 1, n)) = Plain(SubSeq(b, 1, m))
      BY <3>1, <3>2, PlainBlanks
    <3> QED BY <1>3, <3>3
  <2>7. PICK x \in Seq(Unescaped) : x = Plain(p)
    BY PlainTyped
  <2>8. PICK r \in Unescaped : r = Ragged
    BY <2>4 DEF Unescaped
  <2>9. x \o <<r>> = Append(x, r)
    OBVIOUS
  <2> QED BY <1>1, <2>1, <2>3, <2>4, <2>5, <2>6, <2>7, <2>8, <2>9 DEF Late
<1>5. CASE ~(m > 1 /\ b[m] = Ragged)
  <2>1. Content(b) = b
    BY <1>1, <1>2, <1>3, <1>5
  <2>2. ~Pends(b)
    <3> SUFFICES ASSUME NEW k \in 2 .. Len(b), b[k] = Ragged,
                        \A i \in k + 1 .. Len(b) : b[i] = Blank
                 PROVE  FALSE
      BY DEF Pends
    <3>1. Ragged # Blank
      BY DEF Ragged, Blank
    <3>2. ~(k \in m + 1 .. n) /\ (m # 0 => ~(m \in k + 1 .. Len(b)))
      BY <1>2, <3>1
    <3>3. k = m
      BY <1>2, <3>2
    <3> QED BY <1>5, <3>3
  <2>3. PICK x \in Seq(Unescaped) : x = Plain(b)
    BY PlainTyped
  <2>4. x \o <<>> = x
    OBVIOUS
  <2> QED BY <2>1, <2>2, <2>3, <2>4 DEF Late
<1> QED BY <1>4, <1>5

LEMMA PendsGrows ==
  ASSUME NEW b \in Seq(Vocabulary), NEW l \in Vocabulary
  PROVE  /\ Pends(Append(b, l)) <=> IF l = Blank THEN Pends(b) ELSE l = Ragged /\ b # <<>>
         /\ ~Pends(<<>>)
<1>1. PICK T : T = Append(b, l)
  OBVIOUS
<1>2. PICK n \in Nat : n = Len(b)
  OBVIOUS
<1>3. /\ Len(T) = n + 1 /\ T[n + 1] = l
      /\ \A i \in 1 .. n : T[i] = b[i]
  BY <1>1, <1>2, AppendProperties
<1>4. b # <<>> <=> n # 0
  BY <1>2, EmptySeq
<1>5. Ragged # Blank
  BY DEF Ragged, Blank
<1>6. ASSUME Pends(T), l # Blank PROVE l = Ragged /\ b # <<>>
  <2>1. PICK m \in 2 .. n + 1 : T[m] = Ragged /\ \A i \in m + 1 .. n + 1 : T[i] = Blank
    BY <1>3, <1>6 DEF Pends
  <2>2. m = n + 1
    <3>1. ~(n + 1 \in m + 1 .. n + 1)
      BY <1>3, <1>6, <2>1
    <3> QED BY <3>1
  <2> QED BY <1>3, <1>4, <2>1, <2>2
<1>7. ASSUME l = Ragged, b # <<>> PROVE Pends(T)
  <2>1. n + 1 \in 2 .. n + 1 /\ \A i \in n + 1 + 1 .. n + 1 : T[i] = Blank
    BY <1>4, <1>7
  <2> QED BY <1>3, <1>7, <2>1 DEF Pends
<1>8. ASSUME Pends(T), l = Blank PROVE Pends(b)
  <2>1. PICK m \in 2 .. n + 1 : T[m] = Ragged /\ \A i \in m + 1 .. n + 1 : T[i] = Blank
    BY <1>3, <1>8 DEF Pends
  <2>2. m \in 2 .. n /\ m \in 1 .. n
    BY <1>3, <1>5, <1>8, <2>1
  <2>3. b[m] = Ragged /\ \A i \in m + 1 .. n : b[i] = Blank
    <3>1. \A i \in m + 1 .. n : i \in 1 .. n /\ i \in m + 1 .. n + 1
      BY <2>2
    <3> QED BY <1>3, <2>1, <2>2, <3>1
  <2> QED BY <1>2, <2>2, <2>3 DEF Pends
<1>9. ASSUME Pends(b), l = Blank PROVE Pends(T)
  <2>1. PICK m \in 2 .. n : b[m] = Ragged /\ \A i \in m + 1 .. n : b[i] = Blank
    BY <1>2, <1>9 DEF Pends
  <2>2. m \in 2 .. n + 1 /\ m \in 1 .. n
    OBVIOUS
  <2>3. ASSUME NEW i \in m + 1 .. n + 1 PROVE T[i] = Blank
    <3>1. i = n + 1 \/ (i \in m + 1 .. n /\ i \in 1 .. n)
      OBVIOUS
    <3> QED BY <1>3, <1>9, <2>1, <3>1
  <2> QED BY <1>3, <2>1, <2>2, <2>3 DEF Pends
<1>10. ~Pends(<<>>)
  BY DEF Pends
<1> QED BY <1>1, <1>5, <1>6, <1>7, <1>8, <1>9, <1>10

\* What comes behind a closing mark is not content, nor is the mark.
LEMMA ContentShut ==
  ASSUME NEW b \in Seq(Vocabulary), NEW l \in Vocabulary, Shut(b) \/ l = Close
  PROVE  Content(Append(b, l)) = Content(b) /\ Shut(Append(b, l))
<1>1. PICK T : T = Append(b, l)
  OBVIOUS
<1>2. /\ T \in Seq(Vocabulary) /\ Len(T) = Len(b) + 1 /\ T[Len(b) + 1] = l
      /\ \A i \in 1 .. Len(b) : T[i] = b[i]
  BY <1>1, AppendProperties
<1>3. PICK n, m, e : ContentEnds(b, n, m, e) /\ Content(b) = SubSeq(b, 1, e)
  BY ContentIs
<1>4. PICK nT, mT, eT : ContentEnds(T, nT, mT, eT) /\ Content(T) = SubSeq(T, 1, eT)
  BY <1>2, ContentIs
<1>5. /\ n \in 0 .. Len(b) /\ m \in 0 .. n
      /\ n = Len(b) \/ b[n + 1] = Close
      /\ \A i \in 1 .. n : b[i] # Close
      /\ m = 0 \/ b[m] # Blank
      /\ \A i \in m + 1 .. n : b[i] = Blank
      /\ e = IF m > 1 /\ b[m] = Ragged THEN m - 1 ELSE n
  BY <1>3 DEF ContentEnds
<1>6. /\ nT \in 0 .. Len(T) /\ mT \in 0 .. nT
      /\ nT = Len(T) \/ T[nT + 1] = Close
      /\ \A i \in 1 .. nT : T[i] # Close
      /\ mT = 0 \/ T[mT] # Blank
      /\ \A i \in mT + 1 .. nT : T[i] = Blank
      /\ eT = IF mT > 1 /\ T[mT] = Ragged THEN mT - 1 ELSE nT
  BY <1>4 DEF ContentEnds
<1>7. T[n + 1] = Close /\ Len(b) \in Nat /\ n + 1 \in 1 .. Len(T)
  <2>1. CASE n = Len(b)
    <3>1. ~Shut(b)
      BY <1>5, <2>1 DEF Shut
    <3> QED BY <1>2, <2>1, <3>1
  <2>2. CASE n # Len(b)
    <3>1. n + 1 \in 1 .. Len(b)
      BY <1>5, <2>2
    <3> QED BY <1>2, <1>5, <2>2, <3>1
  <2> QED BY <2>1, <2>2
<1>8. nT = n
  <2>1. ~(n + 1 \in 1 .. nT)
    BY <1>6, <1>7
  <2>2. nT <= n
    BY <1>2, <1>5, <1>6, <2>1
  <2>3. ~(nT < n)
    <3> SUFFICES ASSUME nT < n PROVE FALSE
      OBVIOUS
    <3>1. nT + 1 \in 1 .. n /\ nT + 1 \in 1 .. Len(b) /\ nT # Len(T)
      BY <1>2, <1>5, <1>6
    <3> QED BY <1>2, <1>5, <1>6, <3>1
  <2> QED BY <1>5, <1>6, <2>2, <2>3
<1>9. \A i \in 1 .. n : T[i] = b[i]
  BY <1>2, <1>5, <1>7
<1>10. mT = m
  <2>1. ~(mT \in m + 1 .. n)
    <3>1. mT \in m + 1 .. n => mT \in 1 .. n /\ mT # 0
      BY <1>5
    <3> QED BY <1>5, <1>6, <1>9, <3>1
  <2>2. ~(m \in mT + 1 .. n)
    <3>1. m \in mT + 1 .. n => m \in 1 .. n /\ m # 0
      BY <1>6
    <3> QED BY <1>5, <1>6, <1>8, <1>9, <3>1
  <2> QED BY <1>5, <1>6, <1>8, <2>1, <2>2
<1>11. eT = e
  <2>1. m > 1 => T[m] = b[m]
    BY <1>5, <1>9
  <2> QED BY <1>5, <1>6, <1>8, <1>10, <2>1
<1>12. e \in Nat /\ e <= Len(b) /\ e <= Len(T)
  BY <1>2, <1>5, <1>7
<1>13. SubSeq(b, 1, e) = SubSeq(T, 1, e)
  <2>1. Continues(e, b, T)
    BY <1>2, <1>7, <1>12 DEF Continues
  <2>2. e = e => SubSeq(b, 1, e) = SubSeq(T, 1, e)
    BY <1>2, <1>12, <2>1, PiecesLead
  <2> QED BY <2>2
<1>14. Shut(T)
  BY <1>7 DEF Shut
<1> QED BY <1>1, <1>3, <1>4, <1>11, <1>13, <1>14

-----------------------------------------------------------------------------
\* Lines that can be read, and what a reader has in mind.
Storable == Unescaped \cup {Canonical(l) : l \in Vocabulary}
Readings == [mode : {"prose", "body", "closed"}, held : Seq(Storable), first : BOOLEAN,
             out : Seq(Storable)]

LEMMA SenseStorable ==
  ASSUME NEW l \in Vocabulary
  PROVE  /\ Unescape(<<l>>) = <<Sense(l)>> /\ <<Sense(l)>> \in Seq(Storable)
         /\ <<Canonical(l)>> \in Seq(Storable)
<1>1. PICK one : one = <<l>>
  OBVIOUS
<1>2. DOMAIN one = 1 .. 1 /\ one[1] = l
  BY <1>1
<1>3. Unescape(one) = [i \in 1 .. 1 |-> Sense(l)]
  BY <1>2 DEF Unescape, Sense
<1>4. PICK e : e = Sense(l)
  OBVIOUS
<1>5. [i \in 1 .. 1 |-> e] = <<e>>
  OBVIOUS
<1>6. Sense(l) \in Storable /\ Canonical(l) \in Storable
  BY SenseTyped DEF Storable
<1> QED BY <1>1, <1>3, <1>4, <1>5, <1>6

\* ReadLine() with the line as it is meant.
LEMMA ReadLineIs ==
  ASSUME NEW s, NEW l \in Vocabulary
  PROVE  ReadLine(s, l) =
           IF l = Blank THEN [s EXCEPT !.first = FALSE]
           ELSE IF l.is = "mark"
             THEN [s EXCEPT !.mode = "body", !.held = <<Canonical(l)>>, !.first = TRUE]
           ELSE IF s.mode = "prose" THEN [s EXCEPT !.out = s.out \o <<Sense(l)>>]
           ELSE IF s.mode = "closed" THEN s
           ELSE IF l = Close THEN [s EXCEPT !.mode = "closed", !.held = <<>>]
           ELSE IF l = Ragged /\ ~s.first
             THEN IF s.held # <<>> /\ Last(s.held) = Ragged
                  THEN [s EXCEPT !.out = s.out \o s.held, !.held = <<Sense(l)>>]
                  ELSE [s EXCEPT !.held = s.held \o <<Sense(l)>>]
           ELSE [s EXCEPT !.out = s.out \o s.held \o <<Sense(l)>>, !.held = <<>>, !.first = FALSE]
<1>1. Unescape(<<l>>) = <<Sense(l)>>
  BY SenseStorable
<1> QED BY <1>1 DEF ReadLine

LEMMA ReadLineTyped ==
  ASSUME NEW s \in Readings, NEW l \in Vocabulary PROVE ReadLine(s, l) \in Readings
<1>1. PICK t \in Seq(Storable) : t = <<Sense(l)>>
  BY SenseStorable
<1>2. PICK c \in Seq(Storable) : c = <<Canonical(l)>>
  BY SenseStorable
<1>3. PICK o \in Seq(Storable) : o = s.out
  BY DEF Readings
<1>4. PICK h \in Seq(Storable) : h = s.held
  BY DEF Readings
<1>5. /\ o \o t \in Seq(Storable) /\ o \o h \in Seq(Storable) /\ h \o t \in Seq(Storable)
      /\ o \o h \o t \in Seq(Storable) /\ <<>> \in Seq(Storable)
  OBVIOUS
<1>6. /\ [s EXCEPT !.first = FALSE] \in Readings
      /\ [s EXCEPT !.mode = "body", !.held = c, !.first = TRUE] \in Readings
      /\ [s EXCEPT !.out = o \o t] \in Readings
      /\ [s EXCEPT !.mode = "closed", !.held = <<>>] \in Readings
      /\ [s EXCEPT !.out = o \o h, !.held = t] \in Readings
      /\ [s EXCEPT !.held = h \o t] \in Readings
      /\ [s EXCEPT !.out = o \o h \o t, !.held = <<>>, !.first = FALSE] \in Readings
  BY <1>5 DEF Readings
<1>7. PICK r : r = ReadLine(s, l)
  OBVIOUS
<1>8. \/ r = [s EXCEPT !.first = FALSE]
      \/ r = [s EXCEPT !.mode = "body", !.held = c, !.first = TRUE]
      \/ r = [s EXCEPT !.out = o \o t]
      \/ r = s
      \/ r = [s EXCEPT !.mode = "closed", !.held = <<>>]
      \/ r = [s EXCEPT !.out = o \o h, !.held = t]
      \/ r = [s EXCEPT !.held = h \o t]
      \/ r = [s EXCEPT !.out = o \o h \o t, !.held = <<>>, !.first = FALSE]
  <2>1. r = IF l = Blank THEN [s EXCEPT !.first = FALSE]
            ELSE IF l.is = "mark" THEN [s EXCEPT !.mode = "body", !.held = c, !.first = TRUE]
            ELSE IF s.mode = "prose" THEN [s EXCEPT !.out = o \o t]
            ELSE IF s.mode = "closed" THEN s
            ELSE IF l = Close THEN [s EXCEPT !.mode = "closed", !.held = <<>>]
            ELSE IF l = Ragged /\ ~s.first
              THEN IF h # <<>> /\ Last(h) = Ragged
                   THEN [s EXCEPT !.out = o \o h, !.held = t]
                   ELSE [s EXCEPT !.held = h \o t]
            ELSE [s EXCEPT !.out = o \o h \o t, !.held = <<>>, !.first = FALSE]
    BY <1>1, <1>2, <1>3, <1>4, <1>7, ReadLineIs, Zenon
  <2> QED BY <2>1, Zenon
<1> QED BY <1>6, <1>7, <1>8

LEMMA UnreadTyped == Unread \in Readings
<1>1. PICK none : none = <<>>
  OBVIOUS
<1>2. none \in Seq(Storable)
  BY <1>1
<1> QED BY <1>1, <1>2 DEF Unread, Readings

\* What is in mind after the n-th line, for every n up to m.
Reading(text, m, g) == g = [n \in 0 .. m |-> IF n = 0 THEN Unread ELSE ReadLine(g[n - 1], text[n])]

LEMMA ReadingEnds ==
  ASSUME NEW text \in Seq(Vocabulary), NEW m \in Nat, m = Len(text)
  PROVE  \E g : Reading(text, m, g) /\ g \in [0 .. m -> Readings]
<1>1. PICK U : U = Readings
  OBVIOUS
<1> DEFINE turn == [i \in 1 .. m |-> [s \in U |-> ReadLine(s, text[i])]]
<1>2. Turns(m, U, turn)
  <2>1. ASSUME NEW i \in 1 .. m, NEW s \in U PROVE ReadLine(s, text[i]) \in U
    <3>1. text[i] \in Vocabulary
      OBVIOUS
    <3> QED BY <1>1, <3>1, ReadLineTyped
  <2> QED BY <2>1 DEF Turns
<1>3. PICK g : Walks(m, U, Unread, turn, g)
  <2>1. Unread \in U
    BY <1>1, UnreadTyped
  <2> HIDE DEF turn
  <2> QED BY <1>2, <2>1, Stepwise
<1>4. g \in [0 .. m -> U] /\ g[0] = Unread /\ \A i \in 1 .. m : g[i] = turn[i][g[i - 1]]
  <2> HIDE DEF turn
  <2> QED BY <1>3 DEF Walks
<1>5. ASSUME NEW n \in 0 .. m
      PROVE  g[n] = IF n = 0 THEN Unread ELSE ReadLine(g[n - 1], text[n])
  <2>1. CASE n = 0
    BY <2>1, <1>4
  <2>2. CASE n # 0
    <3>1. n \in 1 .. m /\ g[n - 1] \in U
      BY <2>2, <1>4
    <3> QED BY <3>1, <2>2, <1>4
  <2> QED BY <2>1, <2>2
<1>6. g = [n \in 0 .. m |-> g[n]]
  BY <1>4
<1>7. Reading(text, m, g)
  BY <1>5, <1>6 DEF Reading
<1> QED BY <1>1, <1>4, <1>7

LEMMA SameReading ==
  ASSUME NEW n \in Nat, NEW m \in Nat, n <= m, NEW seq, NEW longer, Continues(n, seq, longer),
         NEW g, Reading(seq, n, g), NEW h, Reading(longer, m, h)
  PROVE  \A i \in 0 .. n : g[i] = h[i]
<1> DEFINE S == {i \in 0 .. n : g[i] = h[i]}
<1>1. 0 \in S
  BY DEF Reading
<1>2. ASSUME NEW i \in 1 .. n, i - 1 \in S PROVE i \in S
  <2>1. i \in 0 .. n /\ i \in 0 .. m /\ i # 0 /\ longer[i] = seq[i]
    BY DEF Continues
  <2>2. g[i] = ReadLine(g[i - 1], seq[i])
    BY <2>1 DEF Reading
  <2>3. h[i] = ReadLine(h[i - 1], longer[i])
    BY <2>1 DEF Reading
  <2> QED BY <1>2, <2>1, <2>2, <2>3
<1>3. 0 .. n \subseteq S
  <2> HIDE DEF S
  <2> QED BY <1>1, <1>2, Upwards
<1> QED BY <1>3

LEMMA ReaderTyped ==
  ASSUME NEW t \in Seq(Vocabulary)
  PROVE  Reader(t) \in Readings /\ (t = <<>> => Reader(t) = Unread)
<1>1. PICK m \in Nat : m = Len(t)
  OBVIOUS
<1>2. PICK g : g = CHOOSE f : Reading(t, m, f)
  OBVIOUS
<1>3. Reader(t) = g[m]
  BY <1>1, <1>2 DEF Reader, Reading
<1>4. PICK h : Reading(t, m, h) /\ h \in [0 .. m -> Readings]
  BY <1>1, ReadingEnds
<1>5. Reading(t, m, g)
  BY <1>2, <1>4
<1>6. g[m] = h[m]
  <2>1. Continues(m, t, t) /\ m \in 0 .. m
    BY DEF Continues
  <2>2. \A i \in 0 .. m : g[i] = h[i]
    BY <2>1, <1>4, <1>5, SameReading
  <2> QED BY <2>1, <2>2
<1>7. m = 0 => h[m] = Unread
  BY <1>4 DEF Reading
<1> QED BY <1>1, <1>3, <1>4, <1>6, <1>7

LEMMA ReaderGrows ==
  ASSUME NEW t \in Seq(Vocabulary), NEW l \in Vocabulary
  PROVE  Reader(Append(t, l)) = ReadLine(Reader(t), l)
<1>1. PICK n \in Nat : n = Len(t)
  OBVIOUS
<1>2. PICK m \in Nat : m = n + 1
  OBVIOUS
<1>3. PICK longer : longer = Append(t, l)
  OBVIOUS
<1>4. longer \in Seq(Vocabulary) /\ Len(longer) = m /\ longer[m] = l
  BY <1>1, <1>2, <1>3
<1>5. Continues(n, t, longer)
  BY <1>1, <1>3 DEF Continues
<1>6. PICK g : g = CHOOSE f : Reading(t, n, f)
  OBVIOUS
<1>7. PICK h : h = CHOOSE f : Reading(longer, m, f)
  OBVIOUS
<1>8. Reading(t, n, g)
  BY <1>1, <1>6, ReadingEnds
<1>9. Reading(longer, m, h)
  BY <1>4, <1>7, ReadingEnds
<1>10. g[n] = h[n]
  <2>1. n <= m /\ n \in 0 .. n
    BY <1>2
  <2>2. \A i \in 0 .. n : g[i] = h[i]
    BY <2>1, <1>5, <1>8, <1>9, SameReading
  <2> QED BY <2>1, <2>2
<1>11. h[m] = ReadLine(h[n], l)
  <2>1. m \in 0 .. m /\ m # 0 /\ m - 1 = n
    BY <1>2
  <2> QED BY <2>1, <1>4, <1>9 DEF Reading
<1>12. Reader(t) = g[n] /\ Reader(longer) = h[m]
  BY <1>1, <1>4, <1>6, <1>7 DEF Reader, Reading
<1> QED BY <1>3, <1>10, <1>11, <1>12

-----------------------------------------------------------------------------
\* The lines of a call with the words x, and its marker as long as there are none.
Worded(m, x) == IF x = <<>> THEN <<>> ELSE <<Canonical(m)>> \o x
Opens(m, x) == IF x = <<>> THEN <<Canonical(m)>> ELSE <<>>
Piece(m, b) == Worded(m, Plain(Content(b)))

\* The marker goes out with the first words.
GoesOut(base, m, x, y) ==
  /\ (base \o Worded(m, x)) \o (Opens(m, x) \o y) = base \o Worded(m, x \o y)
  /\ Opens(m, x \o y) = <<>>

LEMMA WordedTyped ==
  ASSUME NEW m \in Vocabulary, NEW x \in Seq(Storable)
  PROVE  Worded(m, x) \in Seq(Storable) /\ Opens(m, x) \in Seq(Storable)
<1>1. PICK c \in Seq(Storable) : c = <<Canonical(m)>>
  BY SenseStorable
<1>2. c \o x \in Seq(Storable) /\ <<>> \in Seq(Storable)
  OBVIOUS
<1> QED BY <1>1, <1>2 DEF Worded, Opens

Assoc(x, y, z) == (x \o y) \o z = x \o (y \o z)

LEMMA Associates ==
  ASSUME NEW S, NEW x \in Seq(S), NEW y \in Seq(S), NEW z \in Seq(S) PROVE Assoc(x, y, z)
  BY ConcatAssociative DEF Assoc

LEMMA WordedGrows ==
  ASSUME NEW m \in Vocabulary, NEW x \in Seq(Storable), NEW y \in Seq(Storable), y # <<>>,
         NEW base \in Seq(Storable)
  PROVE  GoesOut(base, m, x, y)
<1>1. PICK c \in Seq(Storable) : c = <<Canonical(m)>>
  BY SenseStorable
<1>2. x \o y # <<>> /\ x \o y \in Seq(Storable)
  <2>1. Len(x \o y) = Len(x) + Len(y) /\ Len(x) \in Nat /\ Len(y) \in Nat \ {0}
    BY EmptySeq, ConcatProperties
  <2> QED BY <2>1, ConcatProperties, EmptySeq
<1>3. Worded(m, x \o y) = c \o (x \o y) /\ Opens(m, x \o y) = <<>>
  BY <1>1, <1>2 DEF Worded, Opens
<1>4. CASE x = <<>>
  <2>1. Worded(m, x) = <<>> /\ Opens(m, x) = c /\ x \o y = y
    BY <1>1, <1>4 DEF Worded, Opens
  <2>2. base \o <<>> = base /\ <<>> \in Seq(Storable)
    OBVIOUS
  <2> QED BY <1>3, <2>1, <2>2 DEF GoesOut
<1>5. CASE x # <<>>
  <2>1. Worded(m, x) = c \o x /\ Opens(m, x) = <<>> /\ <<>> \o y = y /\ <<>> \in Seq(Storable)
    BY <1>1, <1>5 DEF Worded, Opens
  <2>2. PICK cx \in Seq(Storable) : cx = c \o x
    <3>1. c \o x \in Seq(Storable)
      BY ConcatProperties
    <3> QED BY <3>1
  <2>3. Assoc(base, cx, y) /\ Assoc(c, x, y)
    <3>1. c \in Seq(Storable)
      BY <1>1
    <3> QED BY <3>1, Associates
  <2>4. (base \o (c \o x)) \o y = base \o (c \o (x \o y))
    BY <2>2, <2>3 DEF Assoc
  <2> QED BY <1>3, <2>1, <2>4 DEF GoesOut
<1> QED BY <1>4, <1>5

LEMMA PlainStorable == ASSUME NEW t \in Seq(Vocabulary) PROVE Plain(t) \in Seq(Storable)
<1>1. Plain(t) \in Seq(Unescaped)
  BY PlainTyped
<1>2. Unescaped \subseteq Storable
  BY DEF Storable
<1> QED BY <1>1, <1>2, SeqMonotonic

LEMMA SameBefore ==
  ASSUME NEW S, NEW x \in Seq(S), NEW y \in Seq(S), NEW e, Append(x, e) = Append(y, e) PROVE x = y
<1>1. PICK T : T = S \cup {e}
  OBVIOUS
<1>2. x \in Seq(T)
  BY <1>1, SeqMonotonic
<1>3. y \in Seq(T)
  BY <1>1, SeqMonotonic
<1>4. e \in T
  BY <1>1
<1>5. PICK u : u = Append(x, e)
  OBVIOUS
<1>6. Len(u) = Len(x) + 1 /\ \A i \in 1 .. Len(x) : u[i] = x[i]
  BY <1>2, <1>4, <1>5, AppendProperties
<1>7. Len(u) = Len(y) + 1 /\ \A i \in 1 .. Len(y) : u[i] = y[i]
  BY <1>3, <1>4, <1>5, AppendProperties
<1>8. Len(x) = Len(y) /\ \A i \in 1 .. Len(x) : x[i] = y[i]
  BY <1>6, <1>7
<1> QED BY <1>8, SeqEqual

\* One more line of an open body: what is said with it, and what is still held back.
Longer(b, l, c, x, xc) ==
  /\ ~Shut(c)
  /\ l = Blank => xc = x /\ Late(c) = Late(b)
  /\ l = Ragged /\ b # <<>> => xc = x \o Late(b) /\ Late(c) = <<Ragged>>
  /\ l # Blank /\ ~(l = Ragged /\ b # <<>>)
       => xc = x \o (Late(b) \o <<Sense(l)>>) /\ Late(c) = <<>>

LEMMA ContentGrows ==
  ASSUME NEW b \in Seq(Vocabulary), NEW l \in Vocabulary, ~Shut(b), l # Close,
         NEW c, c = Append(b, l)
  PROVE  Longer(b, l, c, Plain(Content(b)), Plain(Content(c)))
<1>1. c \in Seq(Vocabulary) /\ ~Shut(c)
  <2>1. c \in Seq(Vocabulary) /\ Len(c) = Len(b) + 1 /\ c[Len(b) + 1] = l
        /\ \A i \in 1 .. Len(b) : c[i] = b[i]
    BY AppendProperties
  <2>2. ASSUME NEW i \in 1 .. Len(c) PROVE c[i] # Close
    <3>1. i \in 1 .. Len(b) \/ i = Len(b) + 1
      BY <2>1
    <3> QED BY <2>1, <3>1 DEF Shut
  <2> QED BY <2>1, <2>2 DEF Shut
<1>2. PICK x \in Seq(Storable) : x = Plain(Content(b))
  BY ContentTyped, PlainStorable
<1>3. PICK xc \in Seq(Storable) : xc = Plain(Content(c))
  BY <1>1, ContentTyped, PlainStorable
<1>4. PICK p \in Seq(Storable) : p = Plain(b)
  BY PlainStorable
<1>5. x \o Late(b) = p
  BY <1>2, <1>4, ContentOpen
<1>6. xc \o Late(c) = Plain(c)
  BY <1>1, <1>3, ContentOpen
<1>7. PICK e \in Storable : e = Sense(l)
  BY SenseTyped DEF Storable
<1>8. Plain(c) = IF l = Blank THEN p ELSE Append(p, e)
  BY <1>4, <1>7, PlainGrows
<1>9. Pends(c) <=> IF l = Blank THEN Pends(b) ELSE l = Ragged /\ b # <<>>
  BY PendsGrows
<1>10. PICK late : late = Late(b)
  OBVIOUS
<1>11. x \o late = p /\ late \in Seq(Storable) /\ (late = <<>> \/ late = <<Ragged>>)
  <2>1. Pends(b) => Ragged \in Vocabulary
    BY DEF Pends
  <2>2. Ragged \in Vocabulary => Ragged \in Storable
    BY DEF Storable, Unescaped
  <2>3. PICK r : r = Ragged
    OBVIOUS
  <2>4. late = IF Pends(b) THEN <<r>> ELSE <<>>
    BY <1>10, <2>3 DEF Late
  <2>5. late \in Seq(Storable)
    BY <2>1, <2>2, <2>3, <2>4
  <2> QED BY <1>5, <1>10, <2>3, <2>4, <2>5
<1>12. ASSUME l = Blank PROVE xc = x /\ Late(c) = Late(b)
  <2>1. Late(c) = late /\ xc \o late = x \o late
    BY <1>6, <1>8, <1>9, <1>10, <1>11, <1>12 DEF Late
  <2>2. CASE late = <<>>
    <3>1. xc \o <<>> = xc /\ x \o <<>> = x
      OBVIOUS
    <3> QED BY <1>10, <2>1, <2>2, <3>1
  <2>3. CASE late # <<>>
    <3>1. PICK r \in Storable : late = <<r>>
      BY <1>11, <2>3
    <3>2. xc \o late = Append(xc, r) /\ x \o late = Append(x, r)
      BY <3>1
    <3>3. xc = x
      BY <2>1, <3>2, SameBefore
    <3> QED BY <1>10, <2>1, <3>3
  <2> QED BY <2>2, <2>3
<1>13. ASSUME l = Ragged, b # <<>> PROVE xc = x \o Late(b) /\ Late(c) = <<Ragged>>
  <2>1. Ragged # Blank /\ Sense(Ragged) = Ragged
    BY DEF Ragged, Blank, Sense
  <2>2. Late(c) = <<e>> /\ e = Ragged
    BY <1>7, <1>9, <1>13, <2>1 DEF Late
  <2>3. xc \o <<e>> = Append(p, e)
    BY <1>6, <1>8, <1>13, <2>1, <2>2
  <2>4. xc \o <<e>> = Append(xc, e)
    OBVIOUS
  <2>5. xc = p
    BY <2>3, <2>4, SameBefore
  <2> QED BY <1>5, <2>2, <2>5
<1>14. ASSUME l # Blank, ~(l = Ragged /\ b # <<>>)
       PROVE  xc = x \o (Late(b) \o <<Sense(l)>>) /\ Late(c) = <<>>
  <2>1. Late(c) = <<>>
    BY <1>9, <1>14 DEF Late
  <2>2. xc \o <<>> = xc
    OBVIOUS
  <2>3. xc = Append(p, e)
    BY <1>6, <1>8, <1>14, <2>1, <2>2
  <2>4. late \o <<e>> = Append(late, e) /\ late \in Seq(Storable)
    BY <1>11
  <2>5. x \o Append(late, e) = Append(x \o late, e)
    BY <2>4, AppendJoin
  <2> QED BY <1>7, <1>10, <1>11, <2>1, <2>3, <2>4, <2>5
<1> QED BY <1>1, <1>2, <1>3, <1>12, <1>13, <1>14 DEF Longer

-----------------------------------------------------------------------------
\* A reader in the body b of the marker m, base being what has gone out before.
InBody(base, m, b, s) ==
  /\ s \in Readings
  /\ s.mode = IF Shut(b) THEN "closed" ELSE "body"
  /\ ~Shut(b) => s.held = Opens(m, Plain(Content(b))) \o Late(b) /\ (s.first <=> b = <<>>)
  /\ s.out = base \o Piece(m, b)

LEMMA LateTyped ==
  ASSUME NEW b \in Seq(Vocabulary)
  PROVE  Late(b) \in Seq(Storable) /\ (Pends(b) => Ragged \in Vocabulary /\ b # <<>>)
<1>1. Pends(b) => Ragged \in Vocabulary /\ b # <<>>
  BY DEF Pends
<1>2. Ragged \in Vocabulary => Ragged \in Storable
  BY DEF Storable, Unescaped
<1>3. PICK r : r = Ragged
  OBVIOUS
<1>4. Late(b) = IF Pends(b) THEN <<r>> ELSE <<>>
  BY <1>3 DEF Late
<1>5. Late(b) \in Seq(Storable)
  BY <1>1, <1>2, <1>3, <1>4
<1> QED BY <1>1, <1>5

\* A marker is a body without lines.
LEMMA ReadsMarker ==
  ASSUME NEW m \in Vocabulary, m.is = "mark", NEW s \in Readings
  PROVE  InBody(s.out, m, <<>>, ReadLine(s, m)) /\ Piece(m, <<>>) = <<>>
<1>0. \E t \in Seq(Vocabulary) : t = <<>>
  <2>1. <<>> \in Seq(Vocabulary)
    OBVIOUS
  <2> QED BY <2>1
<1>1. PICK none \in Seq(Vocabulary) : none = <<>>
  BY <1>0
<1>2. ~Shut(none) /\ ~Pends(none) /\ Late(none) = <<>>
  BY <1>1 DEF Shut, Pends, Late
<1>3. PICK x \in Seq(Storable) : x = Plain(Content(none))
  BY ContentTyped, PlainStorable
<1>4. x = <<>>
  <2>1. x \o <<>> = Plain(none)
    BY <1>2, <1>3, ContentOpen
  <2>2. x \o <<>> = x
    OBVIOUS
  <2> QED BY <1>1, <2>1, <2>2, PlainTyped
<1>5. Piece(m, none) = <<>> /\ Opens(m, Plain(Content(none))) = <<Canonical(m)>>
  BY <1>3, <1>4 DEF Piece, Worded, Opens
<1>6. PICK c \in Seq(Storable) : c = <<Canonical(m)>>
  BY SenseStorable
<1>7. PICK r : r = ReadLine(s, m)
  OBVIOUS
<1>8. r = [s EXCEPT !.mode = "body", !.held = c, !.first = TRUE] /\ r \in Readings
  <2>1. m # Blank
    BY DEF Blank
  <2> QED BY <1>6, <1>7, <2>1, ReadLineIs, ReadLineTyped
<1>9. r.mode = "body" /\ r.held = c /\ r.first = TRUE /\ r.out = s.out
  BY <1>8 DEF Readings
<1>10. c \o <<>> = c
  OBVIOUS
<1>11. s.out \o <<>> = s.out
  BY DEF Readings
<1> QED BY <1>1, <1>2, <1>5, <1>6, <1>7, <1>8, <1>9, <1>10, <1>11 DEF InBody

\* A line of a body that is not the next marker.
LEMMA ReadsOn ==
  ASSUME NEW base \in Seq(Storable), NEW m \in Vocabulary, m.is = "mark",
         NEW b \in Seq(Vocabulary), NEW s, InBody(base, m, b, s),
         NEW l \in Vocabulary, l.is # "mark"
  PROVE  InBody(base, m, Append(b, l), ReadLine(s, l))
<1>1. PICK c \in Seq(Vocabulary) : c = Append(b, l)
  <2>1. Append(b, l) \in Seq(Vocabulary)
    OBVIOUS
  <2> QED BY <2>1
<1>2. PICK r : r = ReadLine(s, l)
  OBVIOUS
<1>3. s \in Readings /\ r \in Readings
  <2>1. s \in Readings
    BY DEF InBody
  <2> QED BY <1>2, <2>1, ReadLineTyped
<1>4. PICK x \in Seq(Storable) : x = Plain(Content(b))
  BY ContentTyped, PlainStorable
<1>5. PICK xc \in Seq(Storable) : xc = Plain(Content(c))
  BY ContentTyped, PlainStorable
<1>6. /\ s.mode = IF Shut(b) THEN "closed" ELSE "body"
      /\ ~Shut(b) => s.held = Opens(m, x) \o Late(b) /\ (s.first <=> b = <<>>)
      /\ s.out = base \o Worded(m, x)
  BY <1>4 DEF InBody, Piece
<1>7. c # <<>>
  <2>1. Len(c) = Len(b) + 1 /\ Len(b) \in Nat
    BY <1>1
  <2> QED BY <2>1, EmptySeq
<1>8. SUFFICES /\ r.mode = IF Shut(c) THEN "closed" ELSE "body"
               /\ ~Shut(c) => r.held = Opens(m, xc) \o Late(c) /\ ~r.first
               /\ r.out = base \o Worded(m, xc)
  BY <1>1, <1>2, <1>3, <1>5, <1>7 DEF InBody, Piece
<1>9. CASE Shut(b)
  <2>1. xc = x /\ Shut(c)
    BY <1>1, <1>4, <1>5, <1>9, ContentShut
  <2>2. s.mode = "closed"
    BY <1>6, <1>9
  <2>3. r = [s EXCEPT !.first = FALSE] \/ r = s
    BY <1>2, <2>2, ReadLineIs
  <2>4. r.mode = s.mode /\ r.out = s.out
    BY <1>3, <2>3 DEF Readings
  <2> QED BY <1>6, <2>1, <2>2, <2>4
<1>10. CASE ~Shut(b) /\ l = Close
  <2>1. xc = x /\ Shut(c)
    BY <1>1, <1>4, <1>5, <1>10, ContentShut
  <2>2. s.mode = "body" /\ Close # Blank
    BY <1>6, <1>10 DEF Close, Blank
  <2>3. r = [s EXCEPT !.mode = "closed", !.held = <<>>]
    BY <1>2, <1>10, <2>2, ReadLineIs
  <2>4. r.mode = "closed" /\ r.out = s.out
    BY <1>3, <2>3 DEF Readings
  <2> QED BY <1>6, <2>1, <2>4
<1>11. CASE ~Shut(b) /\ l # Close
  <2>1. s.mode = "body" /\ s.held = Opens(m, x) \o Late(b) /\ (s.first <=> b = <<>>)
    BY <1>6, <1>11
  <2>2. /\ ~Shut(c)
        /\ l = Blank => xc = x /\ Late(c) = Late(b)
        /\ l = Ragged /\ b # <<>> => xc = x \o Late(b) /\ Late(c) = <<Ragged>>
        /\ l # Blank /\ ~(l = Ragged /\ b # <<>>)
             => xc = x \o (Late(b) \o <<Sense(l)>>) /\ Late(c) = <<>>
    <3>1. Longer(b, l, c, x, xc)
      BY <1>1, <1>4, <1>5, <1>11, ContentGrows
    <3> QED BY <3>1 DEF Longer
  <2>3. PICK o \in Seq(Storable) : o = Opens(m, x)
    BY WordedTyped
  <2>4. PICK late \in Seq(Storable) : late = Late(b)
    BY LateTyped
  <2>5. PICK e \in Storable : e = Sense(l)
    BY SenseTyped DEF Storable
  <2>6. PICK one \in Seq(Storable) : one = <<e>>
    <3>1. <<e>> \in Seq(Storable)
      OBVIOUS
    <3> QED BY <3>1
  <2>7. PICK w \in Seq(Storable) : w = base \o Worded(m, x)
    <3>1. Worded(m, x) \in Seq(Storable)
      BY WordedTyped
    <3> QED BY <3>1, ConcatProperties
  <2>8. r = IF l = Blank THEN [s EXCEPT !.first = FALSE]
            ELSE IF l = Ragged /\ ~s.first
              THEN IF s.held # <<>> /\ Last(s.held) = Ragged
                   THEN [s EXCEPT !.out = s.out \o s.held, !.held = one]
                   ELSE [s EXCEPT !.held = s.held \o one]
            ELSE [s EXCEPT !.out = s.out \o s.held \o one, !.held = <<>>, !.first = FALSE]
    <3>1. s.mode # "prose" /\ s.mode # "closed" /\ l # Close
      BY <1>11, <2>1
    <3> QED BY <1>2, <2>5, <2>6, <3>1, ReadLineIs, Zenon
  <2>9. CASE l = Blank
    <3>1. r = [s EXCEPT !.first = FALSE]
      BY <2>8, <2>9
    <3>2. r.mode = s.mode /\ r.held = s.held /\ r.out = s.out /\ ~r.first
      BY <1>3, <3>1 DEF Readings
    <3> QED BY <1>6, <2>1, <2>2, <2>9, <3>2
  <2>10. CASE l = Ragged /\ b # <<>>
    <3>1. l # Blank /\ Sense(l) = Ragged /\ ~s.first
      BY <2>1, <2>10 DEF Ragged, Blank, Sense
    <3>2. (s.held # <<>> /\ Last(s.held) = Ragged) <=> Pends(b)
      <4>1. s.held = o \o late
        BY <2>1, <2>3, <2>4
      <4>2. CASE Pends(b)
        <5>1. late = one
          BY <2>4, <2>5, <2>6, <3>1, <4>2 DEF Late
        <5>2. o \o <<e>> = Append(o, e)
          OBVIOUS
        <5>3. s.held = Append(o, e)
          BY <2>6, <4>1, <5>1, <5>2
        <5>4. Append(o, e) # <<>> /\ Last(Append(o, e)) = e
          <6>1. PICK u : u = Append(o, e)
            OBVIOUS
          <6>2. u \in Seq(Storable) /\ Len(u) = Len(o) + 1 /\ u[Len(o) + 1] = e
            BY <6>1, AppendProperties
          <6>3. u # <<>>
            BY <6>2
          <6> QED BY <6>1, <6>2, <6>3 DEF Last
        <5> QED BY <2>5, <3>1, <4>2, <5>3, <5>4
      <4>3. CASE ~Pends(b)
        <5>1. late = <<>>
          BY <2>4, <4>3 DEF Late
        <5>2. o \o <<>> = o
          OBVIOUS
        <5>3. s.held = o
          BY <4>1, <5>1, <5>2
        <5>4. PICK k : k = Canonical(m)
          OBVIOUS
        <5>5. k # Ragged
          <6>1. k.is = "mark" /\ Ragged.is = "ragged"
            BY <5>4 DEF Canonical, Mark, Ragged
          <6> QED BY <6>1
        <5>6. o = <<>> \/ o = <<k>>
          BY <2>3, <5>4 DEF Opens
        <5>7. Last(<<k>>) = k
          BY DEF Last
        <5> QED BY <4>3, <5>3, <5>5, <5>6, <5>7
      <4> QED BY <4>2, <4>3
    <3>3. xc = x \o late /\ Late(c) = one
      BY <2>2, <2>4, <2>5, <2>6, <2>10, <3>1
    <3>4. CASE Pends(b)
      <4>1. r = [s EXCEPT !.out = s.out \o s.held, !.held = one]
        BY <2>8, <2>10, <3>1, <3>2, <3>4
      <4>2. r.mode = "body" /\ r.held = one /\ r.out = s.out \o s.held /\ ~r.first
        BY <1>3, <2>1, <3>1, <4>1 DEF Readings
      <4>3. late # <<>>
        BY <2>4, <3>4 DEF Late
      <4>4. /\ (base \o Worded(m, x)) \o (Opens(m, x) \o late) = base \o Worded(m, x \o late)
            /\ Opens(m, x \o late) = <<>>
        <5>1. GoesOut(base, m, x, late)
          BY <4>3, WordedGrows
        <5> QED BY <5>1 DEF GoesOut
      <4>5. r.out = base \o Worded(m, xc)
        BY <1>6, <2>1, <2>4, <3>3, <4>2, <4>4
      <4>6. <<>> \o one = one
        OBVIOUS
      <4> QED BY <2>2, <3>3, <4>2, <4>4, <4>5, <4>6
    <3>5. CASE ~Pends(b)
      <4>1. r = [s EXCEPT !.held = s.held \o one]
        BY <2>8, <2>10, <3>1, <3>2, <3>5
      <4>2. r.mode = "body" /\ r.held = s.held \o one /\ r.out = s.out /\ ~r.first
        BY <1>3, <2>1, <3>1, <4>1 DEF Readings
      <4>3. late = <<>>
        BY <2>4, <3>5 DEF Late
      <4>4. x \o <<>> = x /\ o \o <<>> = o
        OBVIOUS
      <4>5. xc = x /\ s.held = o
        BY <2>1, <2>3, <2>4, <3>3, <4>3, <4>4
      <4> QED BY <1>6, <2>2, <2>3, <3>3, <4>2, <4>5
    <3> QED BY <3>4, <3>5
  <2>11. CASE l # Blank /\ ~(l = Ragged /\ b # <<>>)
    <3>1. r = [s EXCEPT !.out = s.out \o s.held \o one, !.held = <<>>, !.first = FALSE]
      BY <2>1, <2>8, <2>11
    <3>2. r.mode = "body" /\ r.held = <<>> /\ r.out = (s.out \o s.held) \o one /\ ~r.first
      BY <1>3, <2>1, <3>1 DEF Readings
    <3>3. PICK y \in Seq(Storable) : y = late \o one
      BY ConcatProperties
    <3>4. xc = x \o y /\ Late(c) = <<>>
      BY <2>2, <2>4, <2>5, <2>6, <2>11, <3>3
    <3>5. y # <<>>
      <4>1. Len(y) = Len(late) + Len(one) /\ Len(one) = 1 /\ Len(late) \in Nat
        BY <2>6, <3>3, ConcatProperties
      <4> QED BY <4>1, EmptySeq
    <3>6. /\ (base \o Worded(m, x)) \o (Opens(m, x) \o y) = base \o Worded(m, x \o y)
          /\ Opens(m, x \o y) = <<>>
      <4>1. GoesOut(base, m, x, y)
        BY <3>5, WordedGrows
      <4> QED BY <4>1 DEF GoesOut
    <3>7. r.out = base \o Worded(m, xc)
      <4>1. PICK h \in Seq(Storable) : h = o \o late
        BY ConcatProperties
      <4>2. Assoc(w, h, one) /\ Assoc(o, late, one)
        BY Associates
      <4>3. s.out = w /\ s.held = o \o late
        BY <1>6, <2>1, <2>3, <2>4, <2>7
      <4>4. r.out = w \o (o \o y)
        BY <3>2, <3>3, <4>1, <4>2, <4>3 DEF Assoc
      <4> QED BY <2>3, <2>7, <3>4, <3>6, <4>4
    <3>8. <<>> \o <<>> = <<>>
      OBVIOUS
    <3> QED BY <2>2, <3>2, <3>4, <3>6, <3>7, <3>8
  <2> QED BY <2>9, <2>10, <2>11
<1> QED BY <1>9, <1>10, <1>11

-----------------------------------------------------------------------------
\* The lines that are not blank are not blank.
LEMMA FilledTwice == ASSUME NEW S, NEW t \in Seq(S) PROVE Filled(Filled(t)) = Filled(t)
<1> DEFINE Same(u) == Filled(Filled(u)) = Filled(u)
           Good == {u \in Seq(S) : Same(u)}
<1>1. <<>> \in Good
  <2>1. Same(<<>>)
    BY FilledNone
  <2> HIDE DEF Same
  <2> QED BY <2>1
<1>2. ASSUME NEW u \in Seq(S), NEW e \in S, u \in Good PROVE Append(u, e) \in Good
  <2>1. PICK f \in Seq(S) : f = Filled(u)
    BY FilledTyped
  <2>2. Filled(f) = f
    BY <1>2, <2>1
  <2>3. Filled(Append(u, e)) = IF e # Blank THEN Append(f, e) ELSE f
    BY <2>1, FilledGrows
  <2>4. e # Blank => Filled(Append(f, e)) = Append(f, e)
    BY <2>2, FilledGrows
  <2>5. Append(u, e) \in Seq(S)
    BY <1>2
  <2>6. CASE e # Blank
    <3>1. Same(Append(u, e))
      BY <2>3, <2>4, <2>6
    <3> HIDE DEF Same
    <3> QED BY <2>5, <3>1
  <2>7. CASE e = Blank
    <3>1. Same(Append(u, e))
      BY <2>2, <2>3, <2>7
    <3> HIDE DEF Same
    <3> QED BY <2>5, <3>1
  <2> QED BY <2>6, <2>7
<1>3. t \in Good
  <2> HIDE DEF Good
  <2>1. Seq(S) \subseteq Good
    BY <1>1, <1>2, ByAppending
  <2> QED BY <2>1
<1> QED BY <1>3

LEMMA CanonicalFilled ==
  ASSUME NEW m \in Vocabulary, NEW x \in Seq(Storable), Filled(x) = x
  PROVE  Filled(Worded(m, x)) = Worded(m, x)
<1>1. PICK k \in Storable : k = Canonical(m)
  BY DEF Storable
<1>2. PICK c \in Seq(Storable) : c = <<k>>
  <2>1. <<k>> \in Seq(Storable)
    OBVIOUS
  <2> QED BY <2>1
<1>3. k # Blank
  <2>1. k.is = "mark" /\ Blank.is = "blank"
    BY <1>1 DEF Canonical, Mark, Blank
  <2> QED BY <2>1
<1>4. Filled(c) = c
  <2>1. PICK none : none = <<>>
    OBVIOUS
  <2>2. none \in Seq(Storable) /\ c = Append(none, k)
    BY <1>2, <2>1
  <2>3. Filled(Append(none, k)) = Append(Filled(none), k)
    BY <1>3, <2>2, FilledGrows
  <2> QED BY <2>1, <2>2, <2>3, FilledNone
<1>5. Filled(c \o x) = Filled(c) \o Filled(x)
  BY FilledJoin
<1> QED BY <1>1, <1>2, <1>4, <1>5, FilledNone DEF Worded

LEMMA PieceTyped ==
  ASSUME NEW m \in Vocabulary, NEW b \in Seq(Vocabulary)
  PROVE  Piece(m, b) \in Seq(Storable) /\ Filled(Piece(m, b)) = Piece(m, b)
<1>1. PICK c \in Seq(Vocabulary) : c = Content(b)
  BY ContentTyped
<1>2. PICK x \in Seq(Storable) : x = Plain(c)
  BY PlainStorable
<1>3. Filled(x) = x
  <2>1. PICK u \in Seq(Unescaped) : u = Unescape(c)
    BY UnescapeTyped
  <2>2. Filled(Filled(u)) = Filled(u)
    BY FilledTwice
  <2> QED BY <1>2, <2>1, <2>2 DEF Plain
<1> QED BY <1>1, <1>2, <1>3, CanonicalFilled, WordedTyped DEF Piece

-----------------------------------------------------------------------------
\* The body of the n-th hit, to its end, and what the first k hits say.
BodyOf(t, n) ==
  SubSeq(t, Hits(t)[n] + 1, IF n < Len(Hits(t)) THEN Hits(t)[n + 1] - 1 ELSE Len(t))
Cuts(t, k) == [n \in 1 .. k |-> Said("assistant", Piece(t[Hits(t)[n]], BodyOf(t, n)))]

LEMMA BodyTyped ==
  ASSUME NEW t \in Seq(Vocabulary), NEW n \in 1 .. Len(Hits(t))
  PROVE  BodyOf(t, n) \in Seq(Vocabulary) /\ t[Hits(t)[n]] \in Vocabulary
<1>1. PICK hit \in Seq(1 .. Len(t)) : hit = Hits(t)
  BY HitsTyped
<1>2. PICK e : e = IF n < Len(hit) THEN hit[n + 1] - 1 ELSE Len(t)
  OBVIOUS
<1>3. PICK a : a = hit[n] + 1
  OBVIOUS
<1>4. hit[n] \in 1 .. Len(t) /\ (n < Len(hit) => hit[n + 1] \in 1 .. Len(t)) /\ Len(hit) \in Nat
  BY <1>1
<1>5. a \in Nat \ {0} /\ e \in Nat /\ e <= Len(t)
  <2>1. a \in Nat \ {0}
    BY <1>3, <1>4
  <2>2. CASE n < Len(hit)
    <3>1. hit[n + 1] \in 1 .. Len(t) /\ e = hit[n + 1] - 1
      BY <1>2, <1>4, <2>2
    <3> QED BY <2>1, <3>1
  <2>3. CASE ~(n < Len(hit))
    BY <1>2, <2>1, <2>3
  <2> QED BY <2>2, <2>3
<1>6. \A i \in a .. e : t[i] \in Vocabulary
  <2>1. a .. e \subseteq 1 .. Len(t)
    BY <1>5
  <2> QED BY <2>1
<1>7. SubSeq(t, a, e) \in Seq(Vocabulary)
  BY <1>5, <1>6, SubSeqProperties
<1>8. BodyOf(t, n) = SubSeq(t, a, e)
  BY <1>1, <1>2, <1>3 DEF BodyOf
<1>9. t[hit[n]] \in Vocabulary
  BY <1>4
<1> QED BY <1>1, <1>7, <1>8, <1>9

LEMMA CutsTyped ==
  ASSUME NEW t \in Seq(Vocabulary), NEW k \in 0 .. Len(Hits(t))
  PROVE  /\ Cuts(t, k) \in Seq(Messages(Storable)) /\ Len(Cuts(t, k)) = k
         /\ \A n \in 1 .. k : Cuts(t, k)[n] = Said("assistant", Piece(t[Hits(t)[n]], BodyOf(t, n)))
<1>0. Len(Hits(t)) \in Nat
  BY HitsTyped
<1>1. ASSUME NEW n \in 1 .. k
      PROVE  Said("assistant", Piece(t[Hits(t)[n]], BodyOf(t, n))) \in Messages(Storable)
  <2>1. n \in 1 .. Len(Hits(t))
    BY <1>0
  <2>2. BodyOf(t, n) \in Seq(Vocabulary) /\ t[Hits(t)[n]] \in Vocabulary
    BY <2>1, BodyTyped
  <2>3. Piece(t[Hits(t)[n]], BodyOf(t, n)) \in Seq(Storable)
    BY <2>2, PieceTyped
  <2> QED BY <2>3 DEF Said, Messages, Roles
<1>2. PICK M : M = Messages(Storable)
  OBVIOUS
<1>3. PICK f : f = Cuts(t, k)
  OBVIOUS
<1>4. f \in [1 .. k -> M] /\ \A n \in 1 .. k : f[n] = Said("assistant", Piece(t[Hits(t)[n]], BodyOf(t, n)))
  BY <1>1, <1>2, <1>3 DEF Cuts
<1>5. f \in Seq(M) /\ Len(f) = k
  BY <1>0, <1>4
<1> QED BY <1>2, <1>3, <1>4, <1>5

\* What a line more does to the hits and their bodies.
Grown(t, l, T) ==
  LET h == Len(Hits(t)) IN
  /\ l.is = "mark" =>
       /\ Len(Hits(T)) = h + 1
       /\ T[Hits(T)[h + 1]] = l /\ BodyOf(T, h + 1) = <<>>
       /\ \A n \in 1 .. h : T[Hits(T)[n]] = t[Hits(t)[n]] /\ BodyOf(T, n) = BodyOf(t, n)
  /\ l.is # "mark" =>
       /\ Len(Hits(T)) = h
       /\ \A n \in 1 .. h : T[Hits(T)[n]] = t[Hits(t)[n]]
       /\ \A n \in 1 .. h - 1 : BodyOf(T, n) = BodyOf(t, n)
       /\ h > 0 => BodyOf(T, h) = Append(BodyOf(t, h), l)

LEMMA PieceOf ==
  ASSUME NEW S, NEW t \in Seq(S), NEW a \in Nat \ {0}, NEW z \in Nat, z <= Len(t), a <= z + 1
  PROVE  /\ SubSeq(t, a, z) \in Seq(S) /\ Len(SubSeq(t, a, z)) = z - a + 1
         /\ \A i \in 1 .. z - a + 1 : SubSeq(t, a, z)[i] = t[a + i - 1]
<1>1. a .. z \subseteq 1 .. Len(t)
  OBVIOUS
<1>2. \A i \in a .. z : t[i] \in S
  BY <1>1
<1>3. /\ SubSeq(t, a, z) \in Seq(S) /\ Len(SubSeq(t, a, z)) = (IF a <= z THEN z - a + 1 ELSE 0)
      /\ \A i \in 1 .. z - a + 1 : SubSeq(t, a, z)[i] = t[a + i - 1]
  BY <1>2, SubSeqProperties
<1>4. (IF a <= z THEN z - a + 1 ELSE 0) = z - a + 1
  OBVIOUS
<1> QED BY <1>3, <1>4

LEMMA BodiesGrow ==
  ASSUME NEW t \in Seq(Vocabulary), NEW l \in Vocabulary, NEW T, T = Append(t, l)
  PROVE  Grown(t, l, T)
<1>1. PICK N \in Nat : N = Len(t)
  OBVIOUS
<1>2. T \in Seq(Vocabulary) /\ Len(T) = N + 1 /\ T[N + 1] = l /\ \A i \in 1 .. N : T[i] = t[i]
  BY <1>1, AppendProperties
<1>3. PICK hit \in Seq(1 .. N) : hit = Hits(t)
  BY <1>1, HitsTyped
<1>4. PICK hits : hits = Hits(T)
  OBVIOUS
<1>5. PICK h \in Nat : h = Len(hit)
  BY <1>3
<1>6. \A n \in 1 .. h : hit[n] \in 1 .. N
  BY <1>3, <1>5
<1>7. hits = IF l.is = "mark" THEN Append(hit, N + 1) ELSE hit
  BY <1>1, <1>3, <1>4, HitsGrow
<1>8. /\ Len(Append(hit, N + 1)) = h + 1 /\ Append(hit, N + 1)[h + 1] = N + 1
      /\ \A n \in 1 .. h : Append(hit, N + 1)[n] = hit[n]
  <2>1. PICK e : e = N + 1
    OBVIOUS
  <2>2. PICK M : M = 1 .. e
    OBVIOUS
  <2>3. e \in M /\ hit \in Seq(M)
    <3>1. 1 .. N \subseteq M /\ e \in M
      BY <2>1, <2>2
    <3> QED BY <3>1, SeqMonotonic
  <2> QED BY <1>5, <2>1, <2>3, AppendProperties
<1>9. \A n \in 1 .. h : hits[n] = hit[n]
  BY <1>7, <1>8
<1>10. ASSUME NEW n \in 1 .. h PROVE T[hits[n]] = t[hit[n]]
  BY <1>2, <1>6, <1>9
<1>11. ASSUME NEW n \in 1 .. h, NEW e \in 0 .. N
       PROVE  SubSeq(T, hits[n] + 1, e) = SubSeq(t, hit[n] + 1, e)
  <2>1. PICK a : a = hit[n] + 1
    OBVIOUS
  <2>2. a \in Nat \ {0} /\ hits[n] + 1 = a /\ e \in Nat /\ e <= e /\ e <= Len(t) /\ e <= Len(T)
    BY <1>1, <1>2, <1>6, <1>9, <2>1
  <2>3. Continues(e, t, T)
    BY <1>2 DEF Continues
  <2>4. e = e => SubSeq(t, a, e) = SubSeq(T, a, e)
    BY <1>2, <2>2, <2>3, PiecesLead
  <2> QED BY <2>1, <2>2, <2>4
<1>12. ASSUME NEW n \in 1 .. h, n < h PROVE BodyOf(T, n) = BodyOf(t, n)
  <2>1. n + 1 \in 1 .. h /\ n < Len(hits)
    BY <1>5, <1>7, <1>8, <1>12
  <2>2. PICK e : e = hit[n + 1] - 1
    OBVIOUS
  <2>3. e \in 0 .. N /\ hits[n + 1] - 1 = e
    BY <1>6, <1>9, <2>1, <2>2
  <2>4. BodyOf(T, n) = SubSeq(T, hits[n] + 1, e)
    BY <1>4, <2>1, <2>3 DEF BodyOf
  <2>5. BodyOf(t, n) = SubSeq(t, hit[n] + 1, e)
    BY <1>3, <1>5, <1>12, <2>2 DEF BodyOf
  <2> QED BY <1>11, <2>3, <2>4, <2>5
<1>13. CASE l.is = "mark"
  <2>1. Len(hits) = h + 1 /\ hits[h + 1] = N + 1
    BY <1>7, <1>8, <1>13
  <2>2. T[hits[h + 1]] = l
    BY <1>2, <2>1
  <2>3. BodyOf(T, h + 1) = <<>>
    <3>1. BodyOf(T, h + 1) = SubSeq(T, N + 1 + 1, N + 1)
      <4>1. ~(h + 1 < Len(hits)) /\ Len(T) = N + 1
        BY <1>2, <2>1
      <4> QED BY <1>4, <2>1, <4>1 DEF BodyOf
    <3>2. PICK a : a = N + 1 + 1
      OBVIOUS
    <3>3. PICK z : z = N + 1
      OBVIOUS
    <3>4. a > z /\ a \in Int /\ z \in Int
      BY <3>2, <3>3
    <3>5. SubSeq(T, a, z) = <<>>
      BY <3>4, SubSeqEmpty
    <3> QED BY <3>1, <3>2, <3>3, <3>5
  <2>4. ASSUME NEW n \in 1 .. h PROVE BodyOf(T, n) = BodyOf(t, n)
    <3>1. CASE n < h
      BY <1>12, <3>1
    <3>2. CASE n = h
      <4>1. n < Len(hits) /\ hits[n + 1] - 1 = N /\ N \in 0 .. N
        BY <2>1, <3>2
      <4>2. BodyOf(T, n) = SubSeq(T, hits[n] + 1, N)
        BY <1>4, <4>1 DEF BodyOf
      <4>3. BodyOf(t, n) = SubSeq(t, hit[n] + 1, N)
        <5>1. ~(n < Len(hit))
          BY <1>5, <3>2
        <5> QED BY <1>1, <1>3, <5>1 DEF BodyOf
      <4> QED BY <1>11, <4>1, <4>2, <4>3
    <3> QED BY <3>1, <3>2
  <2> QED BY <1>3, <1>4, <1>5, <1>10, <1>13, <2>1, <2>2, <2>3, <2>4 DEF Grown
<1>14. CASE l.is # "mark"
  <2>1. Len(hits) = h
    BY <1>5, <1>7, <1>14
  <2>2. ASSUME h > 0 PROVE BodyOf(T, h) = Append(BodyOf(t, h), l)
    <3>1. PICK a : a = hit[h] + 1
      OBVIOUS
    <3>2. h \in 1 .. h
      BY <2>2
    <3>3. a \in 2 .. N + 1 /\ hits[h] + 1 = a
      BY <1>6, <1>9, <3>1, <3>2
    <3>4. BodyOf(T, h) = SubSeq(T, a, N + 1)
      <4>1. ~(h < Len(hits)) /\ Len(T) = N + 1
        BY <1>2, <2>1
      <4> QED BY <1>4, <3>3, <4>1 DEF BodyOf
    <3>5. BodyOf(t, h) = SubSeq(t, a, N)
      <4>1. ~(h < Len(hit))
        BY <1>5
      <4> QED BY <1>1, <1>3, <3>1, <4>1 DEF BodyOf
    <3>6. PICK z \in Nat : z = N + 1
      OBVIOUS
    <3>7. PICK u : u = SubSeq(t, a, N)
      OBVIOUS
    <3>8. u \in Seq(Vocabulary) /\ Len(u) = N - a + 1 /\ \A i \in 1 .. N - a + 1 : u[i] = t[a + i - 1]
      <4>1. a \in Nat \ {0} /\ N <= Len(t) /\ a <= N + 1
        BY <1>1, <3>3
      <4> QED BY <3>7, <4>1, PieceOf
    <3>9. PICK v : v = SubSeq(T, a, z)
      OBVIOUS
    <3>10. v \in Seq(Vocabulary) /\ Len(v) = z - a + 1 /\ \A i \in 1 .. z - a + 1 : v[i] = T[a + i - 1]
      <4>1. a \in Nat \ {0} /\ z <= Len(T) /\ a <= z + 1
        BY <1>2, <3>3, <3>6
      <4>2. T \in Seq(Vocabulary)
        BY <1>2
      <4> QED BY <3>9, <4>1, <4>2, PieceOf
    <3>11. PICK w : w = Append(u, l)
      OBVIOUS
    <3>12. /\ w \in Seq(Vocabulary) /\ Len(w) = Len(u) + 1 /\ w[Len(u) + 1] = l
           /\ \A i \in 1 .. Len(u) : w[i] = u[i]
      BY <3>8, <3>11, AppendProperties
    <3>13. ASSUME NEW i \in 1 .. Len(v) PROVE v[i] = w[i]
      <4>1. CASE i \in 1 .. N - a + 1
        <5>1. a + i - 1 \in 1 .. N /\ i \in 1 .. z - a + 1
          BY <3>3, <3>6, <4>1
        <5>2. v[i] = T[a + i - 1] /\ T[a + i - 1] = t[a + i - 1]
          BY <1>2, <3>10, <5>1
        <5> QED BY <3>8, <3>12, <4>1, <5>2
      <4>2. CASE i \notin 1 .. N - a + 1
        <5>1. i = N - a + 1 + 1 /\ a + i - 1 = N + 1 /\ i \in 1 .. z - a + 1
          BY <3>3, <3>6, <3>10, <4>2
        <5>2. v[i] = T[N + 1]
          BY <3>10, <5>1
        <5>3. w[i] = l
          BY <3>8, <3>12, <5>1
        <5> QED BY <1>2, <5>2, <5>3
      <4> QED BY <4>1, <4>2
    <3>14. Len(v) = Len(w)
      BY <3>3, <3>6, <3>8, <3>10, <3>12
    <3>15. v = w
      BY <3>10, <3>12, <3>13, <3>14, SeqEqual
    <3> QED BY <3>4, <3>5, <3>6, <3>7, <3>9, <3>11, <3>15
  <2>3. \A n \in 1 .. h - 1 : n \in 1 .. h /\ n < h
    OBVIOUS
  <2> QED BY <1>3, <1>4, <1>5, <1>10, <1>12, <1>14, <2>1, <2>2, <2>3 DEF Grown
<1> QED BY <1>13, <1>14

-----------------------------------------------------------------------------
\* The prose says what stands before the first marker.
LEMMA PlainTrimmed == ASSUME NEW t \in Seq(Vocabulary) PROVE Plain(RightTrim(t)) = Plain(t)
<1>1. PICK n \in 0 .. Len(t) : RightTrim(t) = SubSeq(t, 1, n) /\ \A i \in n + 1 .. Len(t) : t[i] = Blank
  BY RightTrimIs
<1>2. PICK m \in Nat : m = Len(t)
  OBVIOUS
<1>3. SubSeq(t, 1, m) = t
  BY <1>2
<1>4. Plain(SubSeq(t, 1, m)) = Plain(SubSeq(t, 1, n))
  <2>1. n \in Nat /\ n <= m /\ m <= Len(t) /\ \A i \in n + 1 .. m : t[i] = Blank
    BY <1>1, <1>2
  <2> QED BY <2>1, PlainBlanks
<1> QED BY <1>1, <1>3, <1>4

LEMMA ProseGrows ==
  ASSUME NEW t \in Seq(Vocabulary), NEW l \in Vocabulary, NEW T, T = Append(t, l)
  PROVE  /\ Hits(t) # <<>> => Prose(T) = Prose(t)
         /\ Hits(t) = <<>> /\ l.is = "mark" => Plain(Prose(T)) = Plain(t)
<1>1. PICK N \in Nat : N = Len(t)
  OBVIOUS
<1>2. T \in Seq(Vocabulary) /\ Len(T) = N + 1 /\ \A i \in 1 .. N : T[i] = t[i]
  BY <1>1, AppendProperties
<1>3. PICK hit \in Seq(1 .. N) : hit = Hits(t)
  BY <1>1, HitsTyped
<1>4. PICK e \in Nat : e = N + 1
  BY <1>1
<1>5. Hits(T) = IF l.is = "mark" THEN Append(hit, e) ELSE hit
  BY <1>1, <1>3, <1>4, HitsGrow
<1>6. Append(hit, e) # <<>> /\ Append(hit, e)[1] = IF hit = <<>> THEN e ELSE hit[1]
  <2>1. PICK M : M = 1 .. e
    OBVIOUS
  <2>2. e \in M /\ hit \in Seq(M)
    <3>1. 1 .. N \subseteq M /\ e \in M
      BY <1>4, <2>1
    <3> QED BY <3>1, SeqMonotonic
  <2>3. PICK w : w = Append(hit, e)
    OBVIOUS
  <2>4. /\ w \in Seq(M) /\ Len(w) = Len(hit) + 1 /\ w[Len(hit) + 1] = e
        /\ \A i \in 1 .. Len(hit) : w[i] = hit[i]
    BY <2>2, <2>3, AppendProperties
  <2>5. Len(hit) \in Nat /\ (hit = <<>> <=> Len(hit) = 0)
    BY <2>2, EmptySeq
  <2>6. Len(w) # 0
    BY <2>4, <2>5
  <2>7. w # <<>>
    BY <2>4, <2>6, EmptySeq
  <2>8. CASE hit = <<>>
    BY <2>3, <2>4, <2>5, <2>7, <2>8
  <2>9. CASE hit # <<>>
    <3>1. 1 \in 1 .. Len(hit)
      BY <2>5, <2>9
    <3> QED BY <2>3, <2>4, <2>7, <2>9, <3>1
  <2> QED BY <2>8, <2>9
<1>7. ASSUME NEW n \in 0 .. N PROVE SubSeq(T, 1, n) = SubSeq(t, 1, n)
  <2>1. Continues(n, t, T)
    BY <1>2 DEF Continues
  <2>2. n \in Nat /\ n <= n /\ n <= Len(t) /\ n <= Len(T) /\ 1 \in Nat \ {0}
    BY <1>1, <1>2
  <2> QED BY <1>2, <2>1, <2>2, PiecesLead
<1>8. ASSUME Hits(t) # <<>> PROVE Prose(T) = Prose(t)
  <2>1. PICK n : n = hit[1] - 1
    OBVIOUS
  <2>2. n \in 0 .. N
    <3>1. Len(hit) \in Nat \ {0}
      BY <1>3, <1>8, EmptySeq
    <3>2. hit[1] \in 1 .. N
      BY <3>1
    <3> QED BY <2>1, <3>2
  <2>3. Hits(T) # <<>> /\ Hits(T)[1] = hit[1]
    BY <1>3, <1>5, <1>6, <1>8
  <2>4. Prose(T) = RightTrim(SubSeq(T, 1, n))
    BY <2>1, <2>3 DEF Prose
  <2>5. Prose(t) = RightTrim(SubSeq(t, 1, n))
    BY <1>3, <1>8, <2>1 DEF Prose
  <2> QED BY <1>7, <2>2, <2>4, <2>5
<1>9. ASSUME Hits(t) = <<>>, l.is = "mark" PROVE Plain(Prose(T)) = Plain(t)
  <2>1. Hits(T) # <<>> /\ Hits(T)[1] = e
    BY <1>3, <1>5, <1>6, <1>9
  <2>2. Prose(T) = RightTrim(SubSeq(T, 1, N))
    <3>1. e - 1 = N
      BY <1>4
    <3> QED BY <2>1, <3>1 DEF Prose
  <2>3. SubSeq(t, 1, N) = t
    BY <1>1
  <2>4. Prose(T) = RightTrim(t)
    <3>1. N \in 0 .. N
      OBVIOUS
    <3> QED BY <1>7, <2>2, <2>3, <3>1
  <2> QED BY <2>4, PlainTrimmed
<1> QED BY <1>8, <1>9

\* What the first k hits say grows by what the next one says.
LEMMA CutsGrow ==
  ASSUME NEW t \in Seq(Vocabulary), NEW k \in 1 .. Len(Hits(t)), NEW j, j = k - 1
  PROVE  Lines(Cuts(t, k))
           = Lines(Cuts(t, j)) \o Voiced("assistant", Piece(t[Hits(t)[k]], BodyOf(t, k)))
<1>0. Len(Hits(t)) \in Nat
  BY HitsTyped
<1>1. PICK M : M = Messages(Storable)
  OBVIOUS
<1>2. PICK x : x = Piece(t[Hits(t)[k]], BodyOf(t, k))
  OBVIOUS
<1>3. x \in Seq(Storable) /\ Filled(x) = x
  BY <1>2, BodyTyped, PieceTyped
<1>4. PICK e \in M : e = Said("assistant", x)
  BY <1>1, <1>3 DEF Said, Messages, Roles
<1>5. j \in 0 .. Len(Hits(t)) /\ k \in 0 .. Len(Hits(t)) /\ k = j + 1
  BY <1>0
<1>6. PICK c : c = Cuts(t, k)
  OBVIOUS
<1>7. PICK b : b = Cuts(t, j)
  OBVIOUS
<1>8. c \in Seq(M) /\ Len(c) = k
  BY <1>1, <1>5, <1>6, CutsTyped
<1>9. b \in Seq(M) /\ Len(b) = j
  BY <1>1, <1>5, <1>7, CutsTyped
<1>10. \A n \in 1 .. k : c[n] = Said("assistant", Piece(t[Hits(t)[n]], BodyOf(t, n)))
  BY <1>5, <1>6, CutsTyped
<1>11. \A n \in 1 .. j : b[n] = Said("assistant", Piece(t[Hits(t)[n]], BodyOf(t, n)))
  BY <1>5, <1>7, CutsTyped
<1>12. PICK w : w = Append(b, e)
  OBVIOUS
<1>13. w \in Seq(M) /\ Len(w) = j + 1 /\ w[j + 1] = e /\ \A n \in 1 .. j : w[n] = b[n]
  BY <1>9, <1>12, AppendProperties
<1>14. ASSUME NEW n \in 1 .. Len(c) PROVE c[n] = w[n]
  <2>1. CASE n = k
    BY <1>2, <1>4, <1>5, <1>8, <1>10, <1>13, <2>1
  <2>2. CASE n # k
    <3>1. n \in 1 .. j /\ n \in 1 .. k
      BY <1>5, <1>8, <2>2
    <3> QED BY <1>10, <1>11, <1>13, <3>1
  <2> QED BY <2>1, <2>2
<1>15. c = w
  <2>1. Len(c) = Len(w)
    BY <1>5, <1>8, <1>13
  <2> QED BY <1>8, <1>13, <1>14, <2>1, SeqEqual
<1>16. Lines(w) = Lines(b) \o By(e)
  BY <1>1, <1>9, <1>12, LinesGrows
<1>17. By(e) = Voiced("assistant", x)
  BY <1>3, <1>4 DEF By, Voiced, Said
<1> QED BY <1>2, <1>6, <1>7, <1>15, <1>16, <1>17

LEMMA CutsStand ==
  ASSUME NEW t, NEW T, NEW k,
         \A n \in 1 .. k : T[Hits(T)[n]] = t[Hits(t)[n]] /\ BodyOf(T, n) = BodyOf(t, n)
  PROVE  Cuts(T, k) = Cuts(t, k)
  BY DEF Cuts

-----------------------------------------------------------------------------
\* What has gone out says the prose and what the first k hits say.
HasTold(t, out, k) ==
  /\ out \in Seq(Storable) /\ Filled(out) = out
  /\ Voiced("assistant", out) = Voiced("assistant", Plain(Prose(t))) \o Lines(Cuts(t, k))

\* Where a reader stands: before the first marker, or in the body of the last one.
ReadSoFar(t, h, s) ==
  /\ s \in Readings
  /\ h = 0 => s.mode = "prose" /\ s.out = Plain(t)
  /\ h > 0 => \E base : HasTold(t, base, h - 1) /\ InBody(base, t[Hits(t)[h]], BodyOf(t, h), s)

LEMMA PlainFilled == ASSUME NEW t \in Seq(Vocabulary) PROVE Filled(Plain(t)) = Plain(t)
<1>1. PICK u \in Seq(Unescaped) : u = Unescape(t)
  BY UnescapeTyped
<1>2. Filled(Filled(u)) = Filled(u)
  BY FilledTwice
<1> QED BY <1>1, <1>2 DEF Plain

LEMMA NothingCut ==
  ASSUME NEW t \in Seq(Vocabulary), NEW v \in Seq(Utterances(Storable))
  PROVE  v \o Lines(Cuts(t, 0)) = v
<1>1. Len(Hits(t)) \in Nat
  BY HitsTyped
<1>2. PICK c : c = Cuts(t, 0)
  OBVIOUS
<1>3. c \in Seq(Messages(Storable)) /\ Len(c) = 0
  <2>1. 0 \in 0 .. Len(Hits(t))
    BY <1>1
  <2> QED BY <1>2, <2>1, CutsTyped
<1>4. c = <<>>
  BY <1>3, EmptySeq
<1>5. Lines(c) = <<>>
  BY <1>3, <1>4, LinesTyped
<1>6. v \o <<>> = v
  OBVIOUS
<1> QED BY <1>2, <1>5, <1>6

\* Out of the last body with what it says.
LEMMA TellsOn ==
  ASSUME NEW t \in Seq(Vocabulary), NEW k \in 1 .. Len(Hits(t)), NEW j, j = k - 1,
         NEW base, HasTold(t, base, j),
         NEW s, InBody(base, t[Hits(t)[k]], BodyOf(t, k), s)
  PROVE  HasTold(t, s.out, k)
<1>1. PICK U : U = Utterances(Storable)
  OBVIOUS
<1>2. PICK x : x = Piece(t[Hits(t)[k]], BodyOf(t, k))
  OBVIOUS
<1>3. x \in Seq(Storable) /\ Filled(x) = x
  BY <1>2, BodyTyped, PieceTyped
<1>4. base \in Seq(Storable) /\ Filled(base) = base
  BY DEF HasTold
<1>5. PICK out : out = s.out
  OBVIOUS
<1>6. out = base \o x
  BY <1>2, <1>5 DEF InBody
<1>7. out \in Seq(Storable)
  BY <1>3, <1>4, <1>6, ConcatProperties
<1>8. Filled(out) = out
  <2>1. Filled(base \o x) = Filled(base) \o Filled(x)
    BY <1>3, <1>4, FilledJoin
  <2> QED BY <1>3, <1>4, <1>6, <2>1
<1>9. "assistant" \in Roles
  BY DEF Roles
<1>10. PICK vx \in Seq(U) : vx = Voiced("assistant", x)
  BY <1>1, <1>3, <1>9, VoicedAs
<1>11. PICK vb : vb = Voiced("assistant", base)
  OBVIOUS
<1>12. Voiced("assistant", out) = vb \o vx
  BY <1>3, <1>4, <1>6, <1>9, <1>10, <1>11, VoicedJoin
<1>13. PICK vp \in Seq(U) : vp = Voiced("assistant", Plain(Prose(t)))
  <2>1. Plain(Prose(t)) \in Seq(Storable)
    BY ProseTyped, PlainStorable
  <2> QED BY <1>1, <1>9, <2>1, VoicedAs
<1>14. PICK c \in Seq(U) : c = Lines(Cuts(t, j))
  <2>1. j \in 0 .. Len(Hits(t))
    <3>1. Len(Hits(t)) \in Nat
      BY HitsTyped
    <3> QED BY <3>1
  <2>2. Cuts(t, j) \in Seq(Messages(Storable))
    BY <2>1, CutsTyped
  <2> QED BY <1>1, <2>2, LinesTyped
<1>15. vb = vp \o c
  BY <1>11, <1>13, <1>14 DEF HasTold
<1>16. Lines(Cuts(t, k)) = c \o vx
  BY <1>2, <1>10, <1>14, CutsGrow
<1>17. Assoc(vp, c, vx)
  BY Associates
<1>18. Voiced("assistant", out) = vp \o Lines(Cuts(t, k))
  BY <1>12, <1>15, <1>16, <1>17 DEF Assoc
<1> QED BY <1>5, <1>7, <1>8, <1>13, <1>18 DEF HasTold

\* A hit is a marker.
LEMMA HitsAreMarks ==
  ASSUME NEW t \in Seq(Vocabulary), NEW n \in 1 .. Len(Hits(t)) PROVE t[Hits(t)[n]].is = "mark"
<1>1. PICK p : p = [i \in DOMAIN t |-> i]
  OBVIOUS
<1>2. PICK N \in Nat : N = Len(t)
  OBVIOUS
<1>3. p \in Seq(1 .. N) /\ Len(p) = N /\ \A i \in 1 .. N : p[i] = i
  BY <1>1, <1>2
<1>4. PICK T : T = {i \in 1 .. N : t[i].is = "mark"}
  OBVIOUS
<1>5. PICK at : at = {i \in DOMAIN t : t[i].is = "mark"}
  OBVIOUS
<1>6. \A i \in 1 .. Len(p) : i \in at => p[i] \in T
  BY <1>2, <1>3, <1>4, <1>5
<1>7. PICK hit : hit = Hits(t)
  OBVIOUS
<1>8. hit \in Seq(T)
  <2>1. Chosen(p, at) \in Seq(T)
    BY <1>3, <1>6, ChosenTyped
  <2> QED BY <1>1, <1>5, <1>7, <2>1 DEF Hits
<1>9. hit[n] \in T
  BY <1>7, <1>8
<1> QED BY <1>4, <1>7, <1>9

\* A line more.
LEMMA ReadsFurther ==
  ASSUME NEW t \in Seq(Vocabulary), NEW l \in Vocabulary, NEW T, T = Append(t, l),
         NEW h, h = Len(Hits(t)), NEW s, ReadSoFar(t, h, s), NEW r, r = ReadLine(s, l),
         NEW H, H = Len(Hits(T))
  PROVE  ReadSoFar(T, H, r)
<1>1. h \in Nat /\ h = Len(Hits(t))
  BY HitsTyped
<1>2. T \in Seq(Vocabulary)
  OBVIOUS
<1>3. s \in Readings /\ r \in Readings
  <2>1. s \in Readings
    BY DEF ReadSoFar
  <2> QED BY <2>1, ReadLineTyped
<1>4. Grown(t, l, T)
  BY BodiesGrow
<1>5. h = 0 <=> Hits(t) = <<>>
  BY <1>1, HitsTyped, EmptySeq
<1>6. ASSUME NEW k, \A n \in 1 .. k : T[Hits(T)[n]] = t[Hits(t)[n]] /\ BodyOf(T, n) = BodyOf(t, n),
             h > 0, NEW out, HasTold(t, out, k)
      PROVE  HasTold(T, out, k)
  <2>1. Cuts(T, k) = Cuts(t, k)
    BY <1>6, CutsStand
  <2>2. Prose(T) = Prose(t)
    <3>1. Hits(t) # <<>>
      BY <1>1, <1>5, <1>6
    <3> QED BY <3>1, ProseGrows
  <2> QED BY <1>6, <2>1, <2>2 DEF HasTold
<1>7. CASE h = 0 /\ l.is # "mark"
  <2>1. H = 0
    BY <1>1, <1>4, <1>7 DEF Grown
  <2>2. s.mode = "prose" /\ s.out = Plain(t)
    BY <1>1, <1>7 DEF ReadSoFar
  <2>3. r = IF l = Blank THEN [s EXCEPT !.first = FALSE] ELSE [s EXCEPT !.out = s.out \o <<Sense(l)>>]
    BY <1>7, <2>2, ReadLineIs
  <2>4. r.mode = "prose" /\ r.out = IF l = Blank THEN s.out ELSE s.out \o <<Sense(l)>>
    BY <1>3, <2>2, <2>3 DEF Readings
  <2>5. r.out = Plain(T)
    <3>1. PICK p \in Seq(Storable) : p = Plain(t)
      BY PlainStorable
    <3>2. Append(p, Sense(l)) = p \o <<Sense(l)>>
      <4>1. PICK x \in Storable : x = Sense(l)
        BY SenseTyped DEF Storable
      <4>2. Append(p, x) = p \o <<x>>
        OBVIOUS
      <4> QED BY <4>1, <4>2
    <3>3. Plain(T) = IF l = Blank THEN p ELSE Append(p, Sense(l))
      BY <3>1, PlainGrows
    <3> QED BY <2>2, <2>4, <3>1, <3>2, <3>3
  <2>6. ~(H > 0)
    BY <2>1
  <2> QED BY <1>3, <2>4, <2>5, <2>6, Zenon DEF ReadSoFar
<1>8. CASE l.is = "mark"
  <2>1. Len(Hits(T)) = h + 1 /\ T[Hits(T)[h + 1]] = l /\ BodyOf(T, h + 1) = <<>>
    BY <1>1, <1>4, <1>8 DEF Grown
  <2>2. InBody(s.out, l, <<>>, r)
    BY <1>3, <1>8, ReadsMarker
  <2>3. HasTold(T, s.out, h)
    <3>1. CASE h = 0
      <4>1. s.out = Plain(t)
        BY <1>1, <3>1 DEF ReadSoFar
      <4>2. Plain(Prose(T)) = s.out
        BY <1>5, <1>8, <3>1, <4>1, ProseGrows
      <4>3. s.out \in Seq(Storable) /\ Filled(s.out) = s.out
        BY <4>1, PlainFilled, PlainStorable
      <4>4. PICK v \in Seq(Utterances(Storable)) : v = Voiced("assistant", s.out)
        <5>1. "assistant" \in Roles
          BY DEF Roles
        <5> QED BY <4>3, <5>1, VoicedAs
      <4>5. v \o Lines(Cuts(T, 0)) = v
        BY <1>2, NothingCut
      <4> QED BY <3>1, <4>2, <4>3, <4>4, <4>5 DEF HasTold
    <3>2. CASE h > 0
      <4>1. PICK base : HasTold(t, base, h - 1) /\ InBody(base, t[Hits(t)[h]], BodyOf(t, h), s)
        BY <1>1, <3>2 DEF ReadSoFar
      <4>2. h \in 1 .. Len(Hits(t))
        BY <1>1, <3>2
      <4>3. HasTold(t, s.out, h)
        BY <4>1, <4>2, TellsOn
      <4>4. \A n \in 1 .. h : T[Hits(T)[n]] = t[Hits(t)[n]] /\ BodyOf(T, n) = BodyOf(t, n)
        BY <1>1, <1>4, <1>8 DEF Grown
      <4> QED BY <1>6, <3>2, <4>3, <4>4
    <3> QED BY <3>1, <3>2
  <2>4. H = h + 1
    BY <2>1
  <2>5. H > 0 /\ H - 1 = h
    BY <1>1, <2>4
  <2>6. HasTold(T, s.out, H - 1) /\ InBody(s.out, T[Hits(T)[H]], BodyOf(T, H), r)
    BY <2>1, <2>2, <2>3, <2>4, <2>5
  <2>7. H # 0
    BY <1>1, <2>4
  <2> QED BY <1>3, <2>6, <2>7, Zenon DEF ReadSoFar
<1>9. CASE h > 0 /\ l.is # "mark"
  <2>1. /\ H = h
        /\ \A n \in 1 .. h : T[Hits(T)[n]] = t[Hits(t)[n]]
        /\ \A n \in 1 .. h - 1 : BodyOf(T, n) = BodyOf(t, n)
        /\ BodyOf(T, h) = Append(BodyOf(t, h), l)
    BY <1>1, <1>4, <1>9 DEF Grown
  <2>2. PICK base : HasTold(t, base, h - 1) /\ InBody(base, t[Hits(t)[h]], BodyOf(t, h), s)
    BY <1>1, <1>9 DEF ReadSoFar
  <2>3. HasTold(T, base, h - 1)
    <3>1. \A n \in 1 .. h - 1 : n \in 1 .. h
      OBVIOUS
    <3>2. \A n \in 1 .. h - 1 : T[Hits(T)[n]] = t[Hits(t)[n]] /\ BodyOf(T, n) = BodyOf(t, n)
      BY <2>1, <3>1
    <3> QED BY <1>6, <1>9, <2>2, <3>2
  <2>4. PICK m : m = t[Hits(t)[h]]
    OBVIOUS
  <2>5. PICK b : b = BodyOf(t, h)
    OBVIOUS
  <2>6. h \in 1 .. Len(Hits(t)) /\ h \in 1 .. h
    BY <1>1, <1>9
  <2>7. m \in Vocabulary /\ b \in Seq(Vocabulary)
    BY <2>4, <2>5, <2>6, BodyTyped
  <2>8. m.is = "mark"
    BY <2>4, <2>6, HitsAreMarks
  <2>9. base \in Seq(Storable)
    BY <2>2 DEF HasTold
  <2>10. InBody(base, m, Append(b, l), r)
    <3>1. InBody(base, m, b, s)
      BY <2>2, <2>4, <2>5
    <3> QED BY <1>9, <2>7, <2>8, <2>9, <3>1, ReadsOn
  <2>11. InBody(base, T[Hits(T)[h]], BodyOf(T, h), r)
    BY <2>1, <2>4, <2>5, <2>6, <2>10
  <2>12. H # 0 /\ HasTold(T, base, H - 1) /\ InBody(base, T[Hits(T)[H]], BodyOf(T, H), r)
    BY <1>1, <1>9, <2>1, <2>3, <2>11
  <2> QED BY <1>3, <2>12, Zenon DEF ReadSoFar
<1> QED BY <1>1, <1>7, <1>8, <1>9

LEMMA ReadingStands ==
  ASSUME NEW t \in Seq(Vocabulary) PROVE ReadSoFar(t, Len(Hits(t)), Reader(t))
<1> DEFINE Read(u) == ReadSoFar(u, Len(Hits(u)), Reader(u))
           Good == {u \in Seq(Vocabulary) : Read(u)}
<1>1. <<>> \in Good
  <2>1. PICK none \in Seq(Vocabulary) : none = <<>>
    <3>1. <<>> \in Seq(Vocabulary)
      OBVIOUS
    <3> QED BY <3>1
  <2>2. Hits(none) \in Seq(1 .. Len(none)) /\ Len(none) = 0
    BY <2>1, HitsTyped
  <2>3. Len(Hits(none)) = 0
    <3>1. PICK hit : hit = Hits(none)
      OBVIOUS
    <3>2. hit \in Seq({})
      BY <2>2, <3>1
    <3>3. hit = <<>>
      BY <3>2, EmptySeqOnly
    <3> QED BY <3>1, <3>3
  <2>4. Reader(none) = Unread /\ Unread \in Readings
    BY <2>1, ReaderTyped, UnreadTyped
  <2>5. Unread.mode = "prose" /\ Unread.out = <<>>
    BY DEF Unread
  <2>6. Plain(none) = <<>>
    BY <2>1, PlainTyped
  <2>7. ~(Len(Hits(none)) > 0)
    BY <2>3
  <2>8. Read(none)
    BY <2>4, <2>5, <2>6, <2>7, Zenon DEF ReadSoFar
  <2> HIDE DEF Read
  <2> QED BY <2>1, <2>8
<1>2. ASSUME NEW u \in Seq(Vocabulary), NEW l \in Vocabulary, u \in Good PROVE Append(u, l) \in Good
  <2>1. PICK longer \in Seq(Vocabulary) : longer = Append(u, l)
    <3>1. Append(u, l) \in Seq(Vocabulary)
      OBVIOUS
    <3> QED BY <3>1
  <2>2. PICK r : r = ReadLine(Reader(u), l)
    OBVIOUS
  <2>3. PICK h : h = Len(Hits(u))
    OBVIOUS
  <2>4. PICK H : H = Len(Hits(longer))
    OBVIOUS
  <2>5. PICK s : s = Reader(u)
    OBVIOUS
  <2>6. ReadSoFar(u, h, s)
    BY <1>2, <2>3, <2>5
  <2>7. ReadSoFar(longer, H, r)
    BY <2>1, <2>2, <2>3, <2>4, <2>5, <2>6, ReadsFurther
  <2>8. Reader(longer) = r
    BY <2>1, <2>2, ReaderGrows
  <2>9. Read(longer)
    BY <2>4, <2>7, <2>8
  <2> HIDE DEF Read
  <2> QED BY <2>1, <2>9
<1>3. t \in Good
  <2> HIDE DEF Good
  <2>1. Seq(Vocabulary) \subseteq Good
    BY <1>1, <1>2, ByAppending
  <2> QED BY <2>1
<1> QED BY <1>3

\* What a reader of an answer reads is its prose and what its hits say.
LEMMA ReadIsSaid ==
  ASSUME NEW t \in Seq(Vocabulary), NEW h, h = Len(Hits(t)) PROVE HasTold(t, AsRead(t), h)
<1>1. PICK s : s = Reader(t)
  OBVIOUS
<1>2. ReadSoFar(t, h, s)
  BY <1>1, ReadingStands
<1>3. h \in Nat
  BY HitsTyped
<1>4. AsRead(t) = s.out
  BY <1>1 DEF AsRead
<1>5. CASE h = 0
  <2>1. s.out = Plain(t)
    BY <1>2, <1>5 DEF ReadSoFar
  <2>2. Prose(t) = t
    <3>1. Hits(t) = <<>>
      BY <1>5, HitsTyped, EmptySeq
    <3> QED BY <3>1 DEF Prose
  <2>3. Plain(t) \in Seq(Storable) /\ Filled(Plain(t)) = Plain(t)
    BY PlainFilled, PlainStorable
  <2>4. PICK v \in Seq(Utterances(Storable)) : v = Voiced("assistant", Plain(t))
    <3>1. "assistant" \in Roles
      BY DEF Roles
    <3> QED BY <2>3, <3>1, VoicedAs
  <2>5. v \o Lines(Cuts(t, 0)) = v
    BY NothingCut
  <2> QED BY <1>4, <1>5, <2>1, <2>2, <2>3, <2>4, <2>5 DEF HasTold
<1>6. CASE h # 0
  <2>1. h \in 1 .. Len(Hits(t)) /\ h > 0
    BY <1>3, <1>6
  <2>2. PICK j : j = h - 1
    OBVIOUS
  <2>3. PICK base : HasTold(t, base, j) /\ InBody(base, t[Hits(t)[h]], BodyOf(t, h), s)
    BY <1>2, <2>1, <2>2 DEF ReadSoFar
  <2> QED BY <1>4, <2>1, <2>2, <2>3, TellsOn
<1> QED BY <1>5, <1>6

-----------------------------------------------------------------------------
\* The line break that goes at the end of a text, and the blanks around the body of a
\* read, say nothing.
LEMMA RawSays ==
  ASSUME NEW t \in Seq(Vocabulary), NEW n \in 1 .. Len(Hits(t))
  PROVE  Plain(Content(Raw(t, n))) = Plain(Content(BodyOf(t, n)))
<1>1. PICK b \in Seq(Vocabulary) : b = BodyOf(t, n)
  BY BodyTyped
<1>2. Raw(t, n) = b \/ (b # <<>> /\ Last(b) = Blank /\ Raw(t, n) = Front(b))
  BY <1>1 DEF Raw, BodyOf
<1>3. ASSUME b # <<>>, Last(b) = Blank PROVE Plain(Content(Front(b))) = Plain(Content(b))
  <2>1. PICK f \in Seq(Vocabulary) : f = Front(b)
    BY <1>3, FrontLast
  <2>2. b = Append(f, Blank) /\ Blank \in Vocabulary
    BY <1>3, <2>1, FrontLast
  <2>3. CASE Shut(f)
    <3>1. Content(Append(f, Blank)) = Content(f)
      BY <2>2, <2>3, ContentShut
    <3> QED BY <2>1, <2>2, <3>1
  <2>4. CASE ~Shut(f)
    <3>1. Blank # Close
      BY DEF Blank, Close
    <3>2. Longer(f, Blank, b, Plain(Content(f)), Plain(Content(b)))
      BY <2>2, <2>4, <3>1, ContentGrows
    <3> QED BY <2>1, <3>2 DEF Longer
  <2> QED BY <2>3, <2>4
<1> QED BY <1>1, <1>2, <1>3

LEMMA TrimFilled == ASSUME NEW S, NEW t \in Seq(S) PROVE Filled(Trim(t)) = Filled(t)
<1>1. PICK k, n : Trims(t, k, n) /\ Trim(t) = SubSeq(t, k, n)
  BY TrimIs
<1>2. PICK N \in Nat : N = Len(t)
  OBVIOUS
<1>3. /\ n \in 0 .. N /\ k \in Nat \ {0}
      /\ \A i \in n + 1 .. N : t[i] = Blank
      /\ n # 0 => k <= n
      /\ \A i \in 1 .. k - 1 : t[i] = Blank
  BY <1>1, <1>2 DEF Trims
<1>4. CASE n = 0
  <2>1. \A i \in DOMAIN t : t[i] = Blank
    BY <1>2, <1>3, <1>4
  <2>2. Filled(t) = <<>>
    BY <2>1, FilledTyped DEF IsBlank
  <2>3. SubSeq(t, k, n) = <<>>
    <3>1. k > n /\ k \in Int /\ n \in Int
      BY <1>3, <1>4
    <3> QED BY <3>1, SubSeqEmpty
  <2> QED BY <1>1, <2>2, <2>3, FilledNone
<1>5. CASE n # 0
  <2>1. PICK j \in Nat : j = k - 1
    BY <1>3
  <2>2. PICK q \in Nat : q = n + 1
    BY <1>3
  <2>3. PICK one \in Nat \ {0} : one = 1
    OBVIOUS
  <2>4. PICK a : a = SubSeq(t, one, j)
    OBVIOUS
  <2>5. PICK b : b = SubSeq(t, k, n)
    OBVIOUS
  <2>6. PICK c : c = SubSeq(t, q, N)
    OBVIOUS
  <2>7. a \in Seq(S) /\ Len(a) = j /\ \A i \in 1 .. j : a[i] = t[i]
    <3>1. j <= Len(t) /\ one <= j + 1
      BY <1>2, <1>3, <1>5, <2>1, <2>3
    <3>2. /\ a \in Seq(S) /\ Len(a) = j - one + 1
          /\ \A i \in 1 .. j - one + 1 : a[i] = t[one + i - 1]
      BY <2>4, <3>1, PieceOf
    <3> QED BY <2>3, <3>2
  <2>8. b \in Seq(S) /\ Len(b) = n - j /\ \A i \in 1 .. n - j : b[i] = t[j + i]
    <3>1. n \in Nat /\ n <= Len(t) /\ k <= n + 1
      BY <1>2, <1>3, <1>5
    <3>2. /\ b \in Seq(S) /\ Len(b) = n - k + 1
          /\ \A i \in 1 .. n - k + 1 : b[i] = t[k + i - 1]
      BY <1>3, <2>5, <3>1, PieceOf
    <3>3. n - k + 1 = n - j /\ \A i \in 1 .. n - j : k + i - 1 = j + i
      BY <1>3, <2>1, <3>1
    <3> QED BY <3>2, <3>3
  <2>9. c \in Seq(S) /\ Len(c) = N - n /\ \A i \in 1 .. N - n : c[i] = t[n + i]
    <3>1. q \in Nat \ {0} /\ N <= Len(t) /\ q <= N + 1
      BY <1>2, <1>3, <2>2
    <3>2. /\ c \in Seq(S) /\ Len(c) = N - q + 1
          /\ \A i \in 1 .. N - q + 1 : c[i] = t[q + i - 1]
      BY <2>6, <3>1, PieceOf
    <3>3. N - q + 1 = N - n /\ \A i \in 1 .. N - n : q + i - 1 = n + i
      BY <1>3, <2>2
    <3> QED BY <3>2, <3>3
  <2>10. PICK d : d = a \o b
    OBVIOUS
  <2>11. d \in Seq(S) /\ Len(d) = n /\ \A i \in 1 .. n : d[i] = t[i]
    <3>1. /\ d \in Seq(S) /\ Len(d) = j + (n - j)
          /\ \A i \in 1 .. j + (n - j) : d[i] = IF i <= j THEN a[i] ELSE b[i - j]
      <4>1. a \in Seq(S) /\ b \in Seq(S)
        BY <2>7, <2>8
      <4>2. /\ d \in Seq(S) /\ Len(d) = Len(a) + Len(b)
            /\ \A i \in 1 .. Len(a) + Len(b) : d[i] = IF i <= Len(a) THEN a[i] ELSE b[i - Len(a)]
        BY <2>10, <4>1, ConcatProperties
      <4>3. Len(a) = j /\ Len(b) = n - j
        BY <2>7, <2>8
      <4> QED BY <4>2, <4>3
    <3>2. ASSUME NEW i \in 1 .. n PROVE d[i] = t[i]
      <4>1. CASE i <= j
        BY <1>3, <2>7, <3>1, <3>2, <4>1
      <4>2. CASE ~(i <= j)
        <5>1. PICK p : p = i - j
          OBVIOUS
        <5>2. p \in 1 .. n - j /\ j + p = i
          BY <1>3, <3>2, <4>2, <5>1
        <5>3. d[i] = b[p]
          BY <1>3, <3>1, <3>2, <4>2, <5>1
        <5> QED BY <2>8, <5>2, <5>3
      <4> QED BY <4>1, <4>2
    <3> QED BY <1>3, <3>1, <3>2
  <2>12. PICK e : e = d \o c
    OBVIOUS
  <2>13. e = t
    <3>1. /\ e \in Seq(S) /\ Len(e) = n + (N - n)
          /\ \A i \in 1 .. n + (N - n) : e[i] = IF i <= n THEN d[i] ELSE c[i - n]
      <4>1. d \in Seq(S) /\ c \in Seq(S)
        BY <2>9, <2>11
      <4>2. /\ e \in Seq(S) /\ Len(e) = Len(d) + Len(c)
            /\ \A i \in 1 .. Len(d) + Len(c) : e[i] = IF i <= Len(d) THEN d[i] ELSE c[i - Len(d)]
        BY <2>12, <4>1, ConcatProperties
      <4>3. Len(d) = n /\ Len(c) = N - n
        BY <2>9, <2>11
      <4> QED BY <4>2, <4>3
    <3>2. ASSUME NEW i \in 1 .. N PROVE e[i] = t[i]
      <4>1. CASE i <= n
        BY <1>3, <2>11, <3>1, <3>2, <4>1
      <4>2. CASE ~(i <= n)
        <5>1. PICK p : p = i - n
          OBVIOUS
        <5>2. p \in 1 .. N - n /\ n + p = i
          BY <1>3, <3>2, <4>2, <5>1
        <5>3. e[i] = c[p]
          BY <1>3, <3>1, <3>2, <4>2, <5>1
        <5> QED BY <2>9, <5>2, <5>3
      <4> QED BY <4>1, <4>2
    <3>3. Len(e) = N
      BY <1>3, <3>1
    <3> QED BY <1>2, <3>1, <3>2, <3>3, SeqEqual
  <2>14. Filled(a) = <<>> /\ Filled(c) = <<>>
    <3>1. IsBlank(a)
      BY <1>3, <2>1, <2>7 DEF IsBlank
    <3>2. IsBlank(c)
      <4>1. \A i \in 1 .. N - n : n + i \in n + 1 .. N
        BY <1>3
      <4> QED BY <1>3, <2>9, <4>1 DEF IsBlank
    <3> QED BY <2>7, <2>9, <3>1, <3>2, FilledTyped
  <2>15. PICK x \in Seq(S) : x = Filled(b)
    BY <2>8, FilledTyped
  <2>16. Filled(d) = <<>> \o x
    BY <2>7, <2>8, <2>10, <2>14, <2>15, FilledJoin
  <2>17. <<>> \o x = x /\ x \o <<>> = x
    OBVIOUS
  <2>18. Filled(e) = x \o <<>>
    <3>1. d \in Seq(S) /\ c \in Seq(S)
      BY <2>9, <2>11
    <3>2. Filled(e) = Filled(d) \o Filled(c)
      BY <2>12, <3>1, FilledJoin
    <3> QED BY <2>14, <2>16, <2>17, <3>2
  <2> QED BY <1>1, <2>5, <2>13, <2>15, <2>17, <2>18
<1> QED BY <1>4, <1>5

\* The words of a call are those of its hit, and a call with words is stored as what the
\* hit says.
CallSaysIt(c, x) ==
  /\ Serialize(c) \in Seq(Storable)
  /\ Filled(c.body) = <<>> => x = <<>>
  /\ Filled(c.body) # <<>> => Filled(Serialize(c)) = x

LEMMA CallSays ==
  ASSUME NEW t \in Seq(Vocabulary), NEW n \in 1 .. Len(Hits(t))
  PROVE  CallSaysIt(CallAt(t, n), Piece(t[Hits(t)[n]], BodyOf(t, n)))
<1>1. PICK c : c = CallAt(t, n)
  OBVIOUS
<1>2. PICK m \in Vocabulary : m = t[Hits(t)[n]]
  BY BodyTyped
<1>3. PICK u \in Seq(Unescaped) : u = Unescape(Content(Raw(t, n)))
  <2>1. Content(Raw(t, n)) \in Seq(Vocabulary)
    BY RawTyped, ContentTyped
  <2> QED BY <2>1, UnescapeTyped
<1>4. PICK x : x = Filled(u)
  OBVIOUS
<1>5. Piece(m, BodyOf(t, n)) = Worded(m, x)
  <2>1. x = Plain(Content(BodyOf(t, n)))
    BY <1>3, <1>4, RawSays DEF Plain
  <2> QED BY <2>1 DEF Piece
<1>6. c.kind = m.kind /\ c.arg = Format(m.kind, m.arg) /\ c.body = IF m.kind = "read" THEN Trim(u) ELSE u
  BY <1>1, <1>2, <1>3 DEF CallAt
<1>7. PICK body : body = c.body
  OBVIOUS
<1>8. Filled(body) = x
  BY <1>4, <1>6, <1>7, TrimFilled
<1>9. body \in Seq(Storable)
  <2>1. body \in Seq(Unescaped)
    BY <1>6, <1>7, TrimTyped
  <2>2. Unescaped \subseteq Storable
    BY DEF Storable
  <2> QED BY <2>1, <2>2, SeqMonotonic
<1>10. PICK k \in Storable : k = Canonical(m)
  BY DEF Storable
<1>11. Mark(c.kind, WireArg(c)) = k
  <2>1. WireArg(c) = CASE m.kind = "edit" -> "hashline"
                       [] m.kind \in {"read", "grep"} /\ m.arg # "hashline" -> ""
                       [] OTHER -> m.arg
    <3>1. CASE m.kind = "edit"
      BY <1>6, <3>1 DEF WireArg, Format
    <3>2. CASE m.kind \in {"read", "grep"} /\ m.arg # "hashline"
      BY <1>6, <3>2 DEF WireArg, Format
    <3>3. CASE m.kind \in {"read", "grep"} /\ m.arg = "hashline"
      BY <1>6, <3>3 DEF WireArg, Format
    <3>4. CASE m.kind \notin {"edit", "read", "grep"}
      BY <1>6, <3>4 DEF WireArg, Format
    <3> QED BY <3>1, <3>2, <3>3, <3>4
  <2> QED BY <1>6, <1>10, <2>1 DEF Canonical
<1>12. PICK y : y = Serialize(c)
  OBVIOUS
<1>13. PICK one : one = <<k>>
  OBVIOUS
<1>14. y = one \o body
  BY <1>7, <1>11, <1>12, <1>13 DEF Serialize
<1>15. one \in Seq(Storable)
  BY <1>13
<1>16. y \in Seq(Storable)
  BY <1>9, <1>14, <1>15, ConcatProperties
<1>17. k # Blank
  <2>1. k.is = "mark" /\ Blank.is = "blank"
    BY <1>10 DEF Canonical, Mark, Blank
  <2> QED BY <2>1
<1>18. Filled(one) = one
  <2>1. PICK none : none = <<>>
    OBVIOUS
  <2>2. none \in Seq(Storable) /\ one = Append(none, k)
    BY <1>13, <2>1
  <2>3. Filled(Append(none, k)) = Append(Filled(none), k)
    BY <1>17, <2>2, FilledGrows
  <2> QED BY <2>1, <2>2, <2>3, FilledNone
<1>19. Filled(y) = one \o x
  BY <1>8, <1>9, <1>14, <1>15, <1>18, FilledJoin
<1>20. x = <<>> => Worded(m, x) = <<>>
  BY DEF Worded
<1>21. x # <<>> => Worded(m, x) = one \o x
  BY <1>10, <1>13 DEF Worded
<1> QED BY <1>1, <1>2, <1>5, <1>7, <1>8, <1>12, <1>16, <1>19, <1>20, <1>21, Zenon DEF CallSaysIt

-----------------------------------------------------------------------------
\* The rows of calls, and calls that rows can be made of.
RowsOf(calls) == [i \in 1 .. Len(calls) |-> Said("assistant", Serialize(calls[i]))]
Kept(X) == \A c \in X : Serialize(c) \in Seq(Storable)

LEMMA RowOf ==
  ASSUME NEW c, Serialize(c) \in Seq(Storable)
  PROVE  /\ Said("assistant", Serialize(c)) \in Messages(Storable)
         /\ By(Said("assistant", Serialize(c))) = Voiced("assistant", Filled(Serialize(c)))
  BY DEF Said, Messages, Roles, By, Voiced

LEMMA StoredTyped ==
  ASSUME NEW X, Kept(X), NEW calls \in Seq(X)
  PROVE  /\ RowsOf(calls) \in Seq(Messages(Storable)) /\ Len(RowsOf(calls)) = Len(calls)
         /\ \A i \in 1 .. Len(calls) : RowsOf(calls)[i] = Said("assistant", Serialize(calls[i]))
<1>1. PICK n \in Nat : n = Len(calls)
  OBVIOUS
<1>2. PICK M : M = Messages(Storable)
  OBVIOUS
<1>3. \A i \in 1 .. n : Said("assistant", Serialize(calls[i])) \in M
  <2>1. \A i \in 1 .. n : calls[i] \in X
    BY <1>1
  <2> QED BY <1>2, <2>1, RowOf DEF Kept
<1>4. PICK f : f = RowsOf(calls)
  OBVIOUS
<1>5. f \in [1 .. n -> M] /\ \A i \in 1 .. n : f[i] = Said("assistant", Serialize(calls[i]))
  BY <1>1, <1>3, <1>4 DEF RowsOf
<1>6. f \in Seq(M) /\ Len(f) = n
  BY <1>5
<1> QED BY <1>1, <1>2, <1>4, <1>5, <1>6

LEMMA StoredGrows ==
  ASSUME NEW X, Kept(X), NEW calls \in Seq(X), NEW c \in X
  PROVE  RowsOf(Append(calls, c)) = Append(RowsOf(calls), Said("assistant", Serialize(c)))
<1>1. PICK M : M = Messages(Storable)
  OBVIOUS
<1>2. PICK n \in Nat : n = Len(calls)
  OBVIOUS
<1>3. PICK longer : longer = Append(calls, c)
  OBVIOUS
<1>4. /\ longer \in Seq(X) /\ Len(longer) = n + 1 /\ longer[n + 1] = c
      /\ \A i \in 1 .. n : longer[i] = calls[i]
  BY <1>2, <1>3, AppendProperties
<1>5. PICK e \in M : e = Said("assistant", Serialize(c))
  BY <1>1, RowOf DEF Kept
<1>6. PICK v : v = RowsOf(longer)
  OBVIOUS
<1>7. PICK s : s = RowsOf(calls)
  OBVIOUS
<1>8. /\ v \in Seq(M) /\ Len(v) = n + 1
      /\ \A i \in 1 .. n + 1 : v[i] = Said("assistant", Serialize(longer[i]))
  BY <1>1, <1>4, <1>6, StoredTyped
<1>9. s \in Seq(M) /\ Len(s) = n /\ \A i \in 1 .. n : s[i] = Said("assistant", Serialize(calls[i]))
  BY <1>1, <1>2, <1>7, StoredTyped
<1>10. PICK w : w = Append(s, e)
  OBVIOUS
<1>11. w \in Seq(M) /\ Len(w) = n + 1 /\ w[n + 1] = e /\ \A i \in 1 .. n : w[i] = s[i]
  BY <1>9, <1>10, AppendProperties
<1>12. ASSUME NEW i \in 1 .. n + 1 PROVE v[i] = w[i]
  <2>1. CASE i = n + 1
    BY <1>4, <1>5, <1>8, <1>11, <2>1
  <2>2. CASE i # n + 1
    <3>1. i \in 1 .. n
      BY <2>2
    <3> QED BY <1>4, <1>8, <1>9, <1>11, <3>1
  <2> QED BY <2>1, <2>2
<1>13. v = w
  BY <1>8, <1>11, <1>12, SeqEqual
<1> QED BY <1>3, <1>5, <1>6, <1>7, <1>10, <1>13

\* The calls of an answer are stored as what its hits say.
AnswerKept(t, calls) ==
  /\ \E X : Kept(X) /\ calls \in Seq(X)
  /\ Lines(RowsOf(calls)) = Lines(Cuts(t, Len(Hits(t))))

LEMMA CallsSay == ASSUME NEW t \in Seq(Vocabulary) PROVE AnswerKept(t, Calls(t))
<1>1. PICK h \in Nat : h = Len(Hits(t))
  BY HitsTyped
<1>2. PICK X : X = {CallAt(t, n) : n \in 1 .. h}
  OBVIOUS
<1>3. Kept(X)
  <2>1. \A n \in 1 .. h : Serialize(CallAt(t, n)) \in Seq(Storable)
    BY <1>1, CallSays DEF CallSaysIt
  <2> QED BY <1>2, <2>1 DEF Kept
<1>4. PICK calls : calls = [n \in 1 .. h |-> CallAt(t, n)]
  OBVIOUS
<1>5. calls \in Seq(X) /\ Len(calls) = h /\ \A n \in 1 .. h : calls[n] = CallAt(t, n)
  BY <1>2, <1>4
<1>6. PICK at : at = {n \in DOMAIN calls : Filled(calls[n].body) # <<>>}
  OBVIOUS
<1>7. Calls(t) = Chosen(calls, at)
  <2>1. DOMAIN Hits(t) = 1 .. h
    BY <1>1, HitsTyped
  <2> QED BY <1>4, <1>6, <2>1 DEF Calls
<1>8. \A n \in 1 .. h : n \in at <=> Filled(CallAt(t, n).body) # <<>>
  BY <1>5, <1>6
<1>9. ASSUME NEW some \in Seq(X) PROVE Chosen(some, at) \in Seq(X)
  <2>1. \A i \in 1 .. Len(some) : i \in at => some[i] \in X
    OBVIOUS
  <2> QED BY <2>1, ChosenTyped
<1> DEFINE Says(k) == Lines(RowsOf(Chosen(SubSeq(calls, 1, k), at))) = Lines(Cuts(t, k))
           Good == {k \in 0 .. h : Says(k)}
<1>10. 0 \in Good
  <2>1. PICK none : none = SubSeq(calls, 1, 0)
    OBVIOUS
  <2>2. none = <<>> /\ none \in Seq(X)
    BY <2>1
  <2>3. Chosen(none, at) = <<>>
    BY <2>2, ChosenNone
  <2>4. PICK s : s = RowsOf(none)
    OBVIOUS
  <2>5. s \in Seq(Messages(Storable)) /\ Len(s) = 0
    BY <1>3, <2>2, <2>4, StoredTyped
  <2>6. Lines(s) = <<>>
    BY <2>5, EmptySeq, LinesTyped
  <2>7. PICK c : c = Cuts(t, 0)
    OBVIOUS
  <2>8. c \in Seq(Messages(Storable)) /\ Len(c) = 0
    <3>1. 0 \in 0 .. Len(Hits(t))
      BY <1>1
    <3> QED BY <2>7, <3>1, CutsTyped
  <2>9. Lines(c) = <<>>
    BY <2>8, EmptySeq, LinesTyped
  <2>10. Says(0)
    BY <2>1, <2>2, <2>3, <2>4, <2>6, <2>7, <2>9
  <2> HIDE DEF Says
  <2> QED BY <2>10
<1>11. ASSUME NEW k \in 1 .. h, k - 1 \in Good PROVE k \in Good
  <2>1. PICK j : j = k - 1
    OBVIOUS
  <2>2. PICK a \in Seq(X) : a = SubSeq(calls, 1, j)
    BY <1>5, <2>1, OneLineMore
  <2>3. PICK c \in X : c = calls[k]
    BY <1>5
  <2>4. SubSeq(calls, 1, k) = Append(a, c)
    BY <1>5, <2>1, <2>2, <2>3, OneLineMore
  <2>5. Len(a) + 1 = k
    <3>1. j <= Len(calls) /\ j \in Nat
      BY <1>5, <2>1
    <3>2. Len(a) = j
      BY <1>5, <2>2, <3>1
    <3> QED BY <2>1, <3>2
  <2>6. PICK s \in Seq(X) : s = Chosen(a, at)
    BY <1>9
  <2>7. Chosen(Append(a, c), at) = IF k \in at THEN Append(s, c) ELSE s
    <3>1. SameAt(Len(a), at, at)
      BY DEF SameAt
    <3> QED BY <2>5, <2>6, <3>1, ChosenGrows
  <2>8. Lines(RowsOf(s)) = Lines(Cuts(t, j))
    <3>1. Says(k - 1)
      BY <1>11
    <3> QED BY <2>1, <2>2, <2>6, <3>1
  <2>9. PICK x : x = Piece(t[Hits(t)[k]], BodyOf(t, k))
    OBVIOUS
  <2>10. Lines(Cuts(t, k)) = Lines(Cuts(t, j)) \o Voiced("assistant", x)
    BY <1>1, <2>1, <2>9, CutsGrow
  <2>11. CallSaysIt(c, x)
    BY <1>1, <1>5, <2>3, <2>9, CallSays
  <2>12. c = CallAt(t, k)
    BY <1>5, <2>3
  <2>13. Lines(RowsOf(Chosen(Append(a, c), at))) = Lines(Cuts(t, k))
    <3>1. CASE k \in at
      <4>1. Filled(c.body) # <<>>
        BY <1>8, <2>12, <3>1
      <4>2. Filled(Serialize(c)) = x /\ Serialize(c) \in Seq(Storable)
        BY <2>11, <4>1 DEF CallSaysIt
      <4>3. PICK e \in Messages(Storable) : e = Said("assistant", Serialize(c))
        BY <4>2, RowOf
      <4>4. By(e) = Voiced("assistant", x)
        BY <4>2, <4>3, RowOf
      <4>5. RowsOf(Append(s, c)) = Append(RowsOf(s), e)
        BY <1>3, <4>3, StoredGrows
      <4>6. PICK r \in Seq(Messages(Storable)) : r = RowsOf(s)
        BY <1>3, StoredTyped
      <4>7. Lines(Append(r, e)) = Lines(r) \o By(e)
        BY LinesGrows
      <4> QED BY <2>7, <2>8, <2>10, <3>1, <4>4, <4>5, <4>6, <4>7
    <3>2. CASE k \notin at
      <4>1. Filled(c.body) = <<>>
        BY <1>8, <2>12, <3>2
      <4>2. x = <<>>
        BY <2>11, <4>1 DEF CallSaysIt
      <4>3. PICK v \in Seq(Utterances(Storable)) : v = Lines(Cuts(t, j))
        <5>1. j \in 0 .. Len(Hits(t))
          BY <1>1, <2>1
        <5>2. Cuts(t, j) \in Seq(Messages(Storable))
          BY <5>1, CutsTyped
        <5> QED BY <5>2, LinesTyped
      <4>4. v \o <<>> = v
        OBVIOUS
      <4> QED BY <2>7, <2>8, <2>10, <3>2, <4>2, <4>3, <4>4, VoicedNone
    <3> QED BY <3>1, <3>2
  <2>14. Says(k)
    BY <2>4, <2>13
  <2> HIDE DEF Says
  <2> QED BY <2>14
<1>12. Says(h)
  <2>1. h \in Good
    <3> HIDE DEF Good
    <3>1. 0 .. h \subseteq Good
      BY <1>10, <1>11, Upwards
    <3>2. h \in 0 .. h
      OBVIOUS
    <3> QED BY <3>1, <3>2
  <2> HIDE DEF Says
  <2> QED BY <2>1
<1>13. SubSeq(calls, 1, h) = calls
  BY <1>5
<1>14. Lines(RowsOf(Calls(t))) = Lines(Cuts(t, h))
  BY <1>7, <1>12, <1>13
<1>15. Calls(t) \in Seq(X)
  BY <1>5, <1>7, <1>9
<1> QED BY <1>1, <1>3, <1>14, <1>15 DEF AnswerKept

-----------------------------------------------------------------------------
\* Two conversations, one after the other.
LEMMA LinesJoin ==
  ASSUME NEW L, NEW a \in Seq(Messages(L)), NEW b \in Seq(Messages(L))
  PROVE  Lines(a \o b) = Lines(a) \o Lines(b)
<1>0. PICK M : M = Messages(L)
  OBVIOUS
<1> DEFINE Joins(t) == Lines(a \o t) = Lines(a) \o Lines(t)
           Good == {t \in Seq(M) : Joins(t)}
<1>1. PICK va \in Seq(Utterances(L)) : va = Lines(a)
  BY LinesTyped
<1>2. <<>> \in Good
  <2>1. PICK none \in Seq(M) : none = <<>>
    <3>1. <<>> \in Seq(M)
      OBVIOUS
    <3> QED BY <3>1
  <2>2. Lines(none) = <<>>
    BY <1>0, <2>1, LinesTyped
  <2>3. a \o none = a /\ va \o <<>> = va
    BY <2>1
  <2>4. Joins(none)
    BY <1>1, <2>2, <2>3
  <2> HIDE DEF Joins
  <2> QED BY <2>1, <2>4
<1>3. ASSUME NEW t \in Seq(M), NEW e \in M, t \in Good PROVE Append(t, e) \in Good
  <2>1. PICK longer \in Seq(M) : longer = Append(t, e)
    <3>1. Append(t, e) \in Seq(M)
      OBVIOUS
    <3> QED BY <3>1
  <2>2. PICK ab \in Seq(M) : ab = a \o t
    <3>1. a \o t \in Seq(M)
      BY <1>0, ConcatProperties
    <3> QED BY <3>1
  <2>3. a \o longer = Append(ab, e)
    BY <1>0, <2>1, <2>2
  <2>4. Lines(Append(ab, e)) = Lines(ab) \o By(e)
    BY <1>0, LinesGrows
  <2>5. Lines(longer) = Lines(t) \o By(e)
    BY <1>0, <2>1, LinesGrows
  <2>6. PICK vt \in Seq(Utterances(L)) : vt = Lines(t)
    BY <1>0, LinesTyped
  <2>7. PICK ve \in Seq(Utterances(L)) : ve = By(e)
    BY <1>0, ByTyped
  <2>8. Lines(ab) = va \o vt
    BY <1>1, <1>3, <2>2, <2>6
  <2>9. Assoc(va, vt, ve)
    BY Associates
  <2>10. Joins(longer)
    BY <1>1, <2>3, <2>4, <2>5, <2>6, <2>7, <2>8, <2>9 DEF Assoc
  <2> HIDE DEF Joins
  <2> QED BY <2>1, <2>10
<1>4. b \in Good
  <2> HIDE DEF Good
  <2>1. Seq(M) \subseteq Good
    BY <1>2, <1>3, ByAppending
  <2> QED BY <1>0, <2>1
<1> QED BY <1>4

\* The agent's own rows behind the first b.
SaidIn(messages, b) ==
  LET own == SubSeq(messages, b + 1, Len(messages))
  IN Chosen(own, {i \in DOMAIN own : own[i].role = "assistant"})

LEMMA SaidInTyped ==
  ASSUME NEW L, NEW messages \in Seq(Messages(L)), NEW b \in 0 .. Len(messages)
  PROVE  /\ SaidIn(messages, b) \in Seq(Messages(L))
         /\ b = Len(messages) => SaidIn(messages, b) = <<>>
<1>1. PICK M : M = Messages(L)
  OBVIOUS
<1>2. PICK own : own = SubSeq(messages, b + 1, Len(messages))
  OBVIOUS
<1>3. own \in Seq(M) /\ (b = Len(messages) => own = <<>>)
  <2>1. PICK a \in Nat \ {0} : a = b + 1
    OBVIOUS
  <2>2. PICK z \in Nat : z = Len(messages)
    OBVIOUS
  <2>3. z <= Len(messages) /\ a <= z + 1
    BY <2>1, <2>2
  <2>4. own \in Seq(M) /\ Len(own) = z - a + 1
    BY <1>1, <1>2, <2>1, <2>2, <2>3, PieceOf
  <2>5. b = Len(messages) => Len(own) = 0
    BY <2>1, <2>2, <2>4
  <2> QED BY <2>4, <2>5, EmptySeq
<1>4. PICK at : at = {i \in DOMAIN own : own[i].role = "assistant"}
  OBVIOUS
<1>5. \A i \in 1 .. Len(own) : i \in at => own[i] \in M
  BY <1>3
<1>6. Chosen(own, at) \in Seq(M) /\ (own = <<>> => Chosen(own, at) = <<>>)
  BY <1>3, <1>5, ChosenTyped
<1> QED BY <1>1, <1>2, <1>3, <1>4, <1>6 DEF SaidIn

LEMMA SaidOn ==
  ASSUME NEW L, NEW messages \in Seq(Messages(L)), NEW b \in 0 .. Len(messages), NEW e \in Messages(L)
  PROVE  SaidIn(Append(messages, e), b)
           = IF e.role = "assistant" THEN Append(SaidIn(messages, b), e) ELSE SaidIn(messages, b)
<1>1. PICK M : M = Messages(L)
  OBVIOUS
<1>2. PICK N \in Nat : N = Len(messages)
  OBVIOUS
<1>3. PICK longer : longer = Append(messages, e)
  OBVIOUS
<1>4. /\ longer \in Seq(M) /\ Len(longer) = N + 1 /\ longer[N + 1] = e
      /\ \A i \in 1 .. N : longer[i] = messages[i]
  BY <1>1, <1>2, <1>3, AppendProperties
<1>5. PICK a \in Nat \ {0} : a = b + 1
  OBVIOUS
<1>6. PICK z \in Nat : z = N + 1
  BY <1>2
<1>7. b \in 0 .. N
  BY <1>2
<1>8. PICK own : own = SubSeq(messages, a, N)
  OBVIOUS
<1>9. own \in Seq(M) /\ Len(own) = N - b /\ \A i \in 1 .. N - b : own[i] = messages[b + i]
  <2>1. N <= Len(messages) /\ a <= N + 1
    BY <1>2, <1>5, <1>7
  <2>2. /\ own \in Seq(M) /\ Len(own) = N - a + 1
        /\ \A i \in 1 .. N - a + 1 : own[i] = messages[a + i - 1]
    BY <1>1, <1>8, <2>1, PieceOf
  <2>3. N - a + 1 = N - b /\ \A i \in 1 .. N - b : a + i - 1 = b + i
    BY <1>5, <1>7
  <2> QED BY <2>2, <2>3
<1>10. PICK more : more = SubSeq(longer, a, z)
  OBVIOUS
<1>11. more \in Seq(M) /\ Len(more) = z - b /\ \A i \in 1 .. z - b : more[i] = longer[b + i]
  <2>1. z <= Len(longer) /\ a <= z + 1
    BY <1>4, <1>5, <1>6, <1>7
  <2>0. longer \in Seq(M)
    BY <1>4
  <2>2. /\ more \in Seq(M) /\ Len(more) = z - a + 1
        /\ \A i \in 1 .. z - a + 1 : more[i] = longer[a + i - 1]
    BY <1>10, <2>0, <2>1, PieceOf
  <2>3. z - a + 1 = z - b /\ \A i \in 1 .. z - b : a + i - 1 = b + i
    BY <1>5, <1>7
  <2> QED BY <2>2, <2>3
<1>12. PICK w : w = Append(own, e)
  OBVIOUS
<1>13. PICK n \in Nat : n = Len(own)
  BY <1>9
<1>14. /\ w \in Seq(M) /\ Len(w) = n + 1 /\ w[n + 1] = e
       /\ \A i \in 1 .. n : w[i] = own[i]
  <2>1. own \in Seq(M) /\ e \in M
    BY <1>1, <1>9
  <2> QED BY <1>12, <1>13, <2>1, AppendProperties
<1>15. n = N - b /\ z - b = n + 1
  BY <1>6, <1>7, <1>9, <1>13
<1>16. ASSUME NEW i \in 1 .. n + 1 PROVE more[i] = w[i]
  <2>1. more[i] = longer[b + i]
    BY <1>11, <1>15
  <2>2. CASE i = n + 1
    <3>1. b + i = N + 1
      BY <1>7, <1>15, <2>2
    <3> QED BY <1>4, <1>14, <2>1, <2>2, <3>1
  <2>3. CASE i # n + 1
    <3>1. i \in 1 .. n /\ i \in 1 .. N - b /\ b + i \in 1 .. N
      BY <1>7, <1>15, <2>3
    <3> QED BY <1>4, <1>9, <1>14, <2>1, <3>1
  <2> QED BY <2>2, <2>3
<1>17. more = w
  <2>1. Len(more) = n + 1
    BY <1>11, <1>15
  <2> QED BY <1>11, <1>14, <1>16, <2>1, SeqEqual
<1>18. PICK at : at = {i \in DOMAIN own : own[i].role = "assistant"}
  OBVIOUS
<1>19. PICK others : others = {i \in DOMAIN more : more[i].role = "assistant"}
  OBVIOUS
<1>20. SameAt(n, at, others) /\ (n + 1 \in others <=> e.role = "assistant")
  <2>1. DOMAIN own = 1 .. n /\ DOMAIN more = 1 .. n + 1
    BY <1>9, <1>11, <1>13, <1>15
  <2>2. \A i \in 1 .. n : i \in 1 .. n + 1 /\ more[i] = own[i]
    BY <1>14, <1>17
  <2>3. n + 1 \in 1 .. n + 1 /\ more[n + 1] = e
    BY <1>14, <1>17
  <2> QED BY <1>18, <1>19, <2>1, <2>2, <2>3 DEF SameAt
<1>21. Chosen(more, others) = IF n + 1 \in others THEN Append(Chosen(own, at), e) ELSE Chosen(own, at)
  <2>1. own \in Seq(M) /\ e \in M /\ SameAt(Len(own), at, others)
    BY <1>1, <1>9, <1>13, <1>20
  <2> QED BY <1>12, <1>13, <1>17, <2>1, ChosenGrows
<1>22. SaidIn(messages, b) = Chosen(own, at)
  BY <1>2, <1>5, <1>8, <1>18 DEF SaidIn
<1>23. SaidIn(longer, b) = Chosen(more, others)
  <2>1. Len(longer) = z
    BY <1>4, <1>6
  <2> QED BY <1>5, <1>10, <1>19, <2>1 DEF SaidIn
<1> QED BY <1>3, <1>20, <1>21, <1>22, <1>23

LEMMA StoredHead ==
  ASSUME NEW X, Kept(X), NEW calls \in Seq(X), calls # <<>>
  PROVE  /\ Head(calls) \in X /\ Tail(calls) \in Seq(X)
         /\ RowsOf(calls) = <<Said("assistant", Serialize(Head(calls)))>> \o RowsOf(Tail(calls))
<1>1. PICK M : M = Messages(Storable)
  OBVIOUS
<1>2. PICK n \in Nat \ {0} : n = Len(calls)
  BY EmptySeq
<1>3. PICK c \in X : c = Head(calls) /\ c = calls[1]
  OBVIOUS
<1>4. PICK rest : rest = Tail(calls)
  OBVIOUS
<1>5. rest \in Seq(X) /\ Len(rest) = n - 1 /\ \A i \in 1 .. n - 1 : rest[i] = calls[i + 1]
  BY <1>2, <1>4
<1>6. PICK e \in M : e = Said("assistant", Serialize(c))
  BY <1>1, RowOf DEF Kept
<1>7. PICK v : v = RowsOf(calls)
  OBVIOUS
<1>8. PICK r : r = RowsOf(rest)
  OBVIOUS
<1>9. v \in Seq(M) /\ Len(v) = n /\ \A i \in 1 .. n : v[i] = Said("assistant", Serialize(calls[i]))
  BY <1>1, <1>2, <1>7, StoredTyped
<1>10. /\ r \in Seq(M) /\ Len(r) = n - 1
       /\ \A i \in 1 .. n - 1 : r[i] = Said("assistant", Serialize(rest[i]))
  BY <1>1, <1>5, <1>8, StoredTyped
<1>11. PICK one : one = <<e>>
  OBVIOUS
<1>12. one \in Seq(M) /\ Len(one) = 1 /\ one[1] = e
  BY <1>11
<1>13. PICK w : w = one \o r
  OBVIOUS
<1>14. w \in Seq(M) /\ Len(w) = n /\ \A i \in 1 .. n : w[i] = IF i <= 1 THEN e ELSE r[i - 1]
  <2>1. one \in Seq(M) /\ r \in Seq(M)
    BY <1>10, <1>12
  <2>2. /\ w \in Seq(M) /\ Len(w) = Len(one) + Len(r)
        /\ \A i \in 1 .. Len(one) + Len(r) : w[i] = IF i <= Len(one) THEN one[i] ELSE r[i - Len(one)]
    BY <1>13, <2>1, ConcatProperties
  <2>3. Len(one) = 1 /\ Len(one) + Len(r) = n
    BY <1>10, <1>12
  <2>4. \A i \in 1 .. n : i <= 1 => one[i] = e
    BY <1>12
  <2> QED BY <2>2, <2>3, <2>4
<1>15. ASSUME NEW i \in 1 .. n PROVE v[i] = w[i]
  <2>1. CASE i = 1
    BY <1>3, <1>6, <1>9, <1>14, <2>1
  <2>2. CASE i # 1
    <3>1. PICK k : k = i - 1
      OBVIOUS
    <3>2. k \in 1 .. n - 1 /\ k + 1 = i /\ ~(i <= 1)
      BY <2>2, <3>1
    <3>3. w[i] = r[k]
      BY <1>14, <3>1, <3>2
    <3> QED BY <1>5, <1>9, <1>10, <3>2, <3>3
  <2> QED BY <2>1, <2>2
<1>16. v = w
  BY <1>9, <1>14, <1>15, SeqEqual
<1> QED BY <1>3, <1>4, <1>5, <1>6, <1>7, <1>8, <1>11, <1>13, <1>16

-----------------------------------------------------------------------------
\* The calls that have no row yet.
Left == IF begun THEN Tail(todo) ELSE todo
Worked ==
  /\ \E X : Kept(X) /\ todo \in Seq(X)
  /\ Lines(SaidIn(rows, before) \o RowsOf(Left)) = By(Said("assistant", AsRead(reply)))

\* The rows of an answer begin behind those that were there, and while it is worked off they
\* say, with those that its calls are still to be stored as, what is read in it.
StoreInv ==
  /\ before \in 0 .. Len(rows)
  /\ phase \in {"asking", "read"} => SaidIn(rows, before) = <<>>
  /\ phase = "storing" => Worked

LEMMA Widened ==
  ASSUME NEW messages, Transcribed(messages)
  PROVE  \E L : Storable \subseteq L /\ messages \in Seq(Messages(L))
<1>1. PICK K : messages \in Seq(Messages(K))
  BY DEF Transcribed
<1>2. PICK L : L = K \cup Storable
  OBVIOUS
<1>3. Messages(K) \subseteq Messages(L)
  <2>1. Seq(K) \subseteq Seq(L)
    BY <1>2, SeqMonotonic
  <2> QED BY <2>1 DEF Messages
<1>4. messages \in Seq(Messages(L))
  BY <1>1, <1>3, SeqMonotonic
<1> QED BY <1>2, <1>4

\* What is read in an answer is its prose and its calls.
LEMMA AnswerRead ==
  ASSUME NEW t \in Seq(Vocabulary), NEW p, p = Unescape(Prose(t))
  PROVE  By(Said("assistant", AsRead(t))) = Voiced("assistant", Filled(p)) \o Lines(RowsOf(Calls(t)))
<1>1. PICK h : h = Len(Hits(t))
  OBVIOUS
<1>2. HasTold(t, AsRead(t), h)
  BY <1>1, ReadIsSaid
<1>3. By(Said("assistant", AsRead(t))) = Voiced("assistant", Filled(AsRead(t)))
  BY DEF By, Voiced, Said
<1>4. Lines(RowsOf(Calls(t))) = Lines(Cuts(t, h))
  BY <1>1, CallsSay DEF AnswerKept
<1>5. Plain(Prose(t)) = Filled(p)
  BY DEF Plain
<1> QED BY <1>2, <1>3, <1>4, <1>5 DEF HasTold

LEMMA SplitsKeeps == ExchangeInv /\ StoreInv /\ Splits => Worked'
<1> SUFFICES ASSUME ExchangeInv, StoreInv, Splits PROVE Worked'
  OBVIOUS
<1>1. PICK t \in Seq(Vocabulary) : t = reply
  BY DEF ExchangeInv, TextInv
<1>2. PICK p : p = Unescape(Prose(t))
  OBVIOUS
<1>3. p \in Seq(Storable)
  <2>1. p \in Seq(Unescaped)
    BY <1>2, ProseTyped, UnescapeTyped
  <2>2. Unescaped \subseteq Storable
    BY DEF Storable
  <2> QED BY <2>1, <2>2, SeqMonotonic
<1>4. before \in 0 .. Len(rows) /\ before' = before /\ reply' = reply
  BY DEF Splits, StoreInv
<1>5. todo' = Calls(t) /\ ~begun'
  BY <1>1 DEF Splits, ExchangeInv, TextInv
<1>6. IF IsBlank(p) THEN rows' = rows ELSE rows' = Append(rows, Said("assistant", p))
  BY <1>1, <1>2 DEF Splits, Store
<1>7. PICK X : Kept(X) /\ Calls(t) \in Seq(X)
  BY CallsSay DEF AnswerKept
<1>8. Left' = Calls(t)
  BY <1>5 DEF Left
<1>9. PICK r : r = RowsOf(Calls(t))
  OBVIOUS
<1>10. r \in Seq(Messages(Storable))
  BY <1>7, <1>9, StoredTyped
<1>11. PICK v \in Seq(Utterances(Storable)) : v = Lines(r)
  BY <1>10, LinesTyped
<1>12. By(Said("assistant", AsRead(t))) = Voiced("assistant", Filled(p)) \o v
  BY <1>2, <1>9, <1>11, AnswerRead
<1>13. PICK L : Storable \subseteq L /\ rows \in Seq(Messages(L))
  BY Widened DEF ExchangeInv, TextInv
<1>14. SaidIn(rows, before) = <<>>
  BY DEF Splits, StoreInv
<1>15. PICK s : s = SaidIn(rows', before')
  OBVIOUS
<1>16. Lines(s \o r) = Voiced("assistant", Filled(p)) \o v
  <2>1. CASE IsBlank(p)
    <3>1. s = <<>>
      BY <1>4, <1>6, <1>14, <1>15, <2>1
    <3>2. Filled(p) = <<>>
      BY <1>3, <2>1, FilledTyped
    <3>3. Voiced("assistant", Filled(p)) = <<>>
      BY <3>2, VoicedNone
    <3>4. s \o r = r /\ <<>> \o v = v
      BY <1>10, <3>1
    <3> QED BY <1>11, <3>3, <3>4
  <2>2. CASE ~IsBlank(p)
    <3>1. PICK e \in Messages(Storable) : e = Said("assistant", p)
      BY <1>3 DEF Said, Messages, Roles
    <3>2. e.role = "assistant" /\ By(e) = Voiced("assistant", Filled(p))
      BY <3>1 DEF By, Voiced, Said
    <3>3. e \in Messages(L)
      <4>1. Seq(Storable) \subseteq Seq(L)
        BY <1>13, SeqMonotonic
      <4> QED BY <3>1, <4>1 DEF Messages
    <3>4. SaidIn(Append(rows, e), before) = Append(SaidIn(rows, before), e)
      BY <1>4, <1>13, <3>2, <3>3, SaidOn
    <3>5. PICK none \in Seq(Messages(Storable)) : none = <<>>
      <4>1. <<>> \in Seq(Messages(Storable))
        OBVIOUS
      <4> QED BY <4>1
    <3>6. s = Append(none, e)
      BY <1>4, <1>6, <1>14, <1>15, <2>2, <3>1, <3>4, <3>5
    <3>7. s \in Seq(Messages(Storable))
      BY <3>6
    <3>8. Lines(s) = Lines(none) \o By(e)
      BY <3>6, LinesGrows
    <3>9. Lines(none) = <<>>
      BY <3>5, LinesTyped
    <3>10. PICK q \in Seq(Utterances(Storable)) : q = By(e)
      BY ByTyped
    <3>11. <<>> \o q = q
      OBVIOUS
    <3>12. Lines(s \o r) = Lines(s) \o Lines(r)
      BY <1>10, <3>7, LinesJoin
    <3> QED BY <1>11, <3>2, <3>8, <3>9, <3>10, <3>11, <3>12
  <2> QED BY <2>1, <2>2
<1>17. Lines(SaidIn(rows', before') \o RowsOf(Left')) = By(Said("assistant", AsRead(reply')))
  BY <1>1, <1>4, <1>8, <1>9, <1>12, <1>15, <1>16
<1>18. \E Y : Kept(Y) /\ todo' \in Seq(Y)
  BY <1>5, <1>7
<1> QED BY <1>17, <1>18 DEF Worked

LEMMA BeginsKeeps == ExchangeInv /\ StoreInv /\ Begins => Worked'
<1> SUFFICES ASSUME ExchangeInv, StoreInv, Begins PROVE Worked'
  OBVIOUS
<1>1. todo # <<>> /\ ~begun /\ before' = before /\ reply' = reply /\ before \in 0 .. Len(rows)
  BY DEF Begins, StoreInv
<1>2. Worked
  BY DEF Begins, StoreInv
<1>3. PICK X : Kept(X) /\ todo \in Seq(X)
  BY <1>2 DEF Worked
<1>4. PICK c \in X : c = Head(todo)
  BY <1>1, <1>3, StoredHead
<1>5. PICK rest \in Seq(X) : rest = Tail(todo)
  BY <1>1, <1>3, StoredHead
<1>6. PICK e \in Messages(Storable) : e = Said("assistant", Serialize(c))
  BY <1>3, RowOf DEF Kept
<1>7. rows' = Append(rows, e)
  BY <1>4, <1>6 DEF Begins, Store
<1>8. (todo' = rest /\ ~begun') \/ (todo' = todo /\ begun')
  BY <1>1, <1>5 DEF Begins
<1>9. Left = todo /\ Left' = rest
  BY <1>1, <1>5, <1>8 DEF Left
<1>10. PICK r \in Seq(Messages(Storable)) : r = RowsOf(rest)
  BY <1>3, StoredTyped
<1>11. RowsOf(todo) = <<e>> \o r
  BY <1>1, <1>3, <1>4, <1>5, <1>6, <1>10, StoredHead
<1>12. PICK L : Storable \subseteq L /\ rows \in Seq(Messages(L))
  BY Widened DEF ExchangeInv, TextInv
<1>13. PICK M : M = Messages(L)
  OBVIOUS
<1>14. Messages(Storable) \subseteq M
  <2>1. Seq(Storable) \subseteq Seq(L)
    BY <1>12, SeqMonotonic
  <2> QED BY <1>13, <2>1 DEF Messages
<1>15. e \in M /\ r \in Seq(M)
  BY <1>14, SeqMonotonic
<1>16. PICK s \in Seq(M) : s = SaidIn(rows, before)
  BY <1>1, <1>12, <1>13, SaidInTyped
<1>17. SaidIn(rows', before') = Append(s, e)
  <2>1. e.role = "assistant"
    BY <1>6 DEF Said
  <2> QED BY <1>1, <1>7, <1>12, <1>13, <1>15, <1>16, <2>1, SaidOn
<1>18. PICK one \in Seq(M) : one = <<e>>
  <2>1. <<e>> \in Seq(M)
    BY <1>15
  <2> QED BY <2>1
<1>19. Assoc(s, one, r)
  BY <1>15, Associates
<1>20. Append(s, e) = s \o one
  BY <1>15, <1>18
<1>21. Append(s, e) \o r = s \o (one \o r)
  BY <1>19, <1>20 DEF Assoc
<1>22. Lines(s \o (one \o r)) = By(Said("assistant", AsRead(reply)))
  BY <1>2, <1>9, <1>11, <1>16, <1>18 DEF Worked
<1>23. Lines(SaidIn(rows', before') \o RowsOf(Left')) = By(Said("assistant", AsRead(reply')))
  BY <1>1, <1>9, <1>10, <1>17, <1>21, <1>22
<1>24. \E Y : Kept(Y) /\ todo' \in Seq(Y)
  BY <1>3, <1>8
<1> QED BY <1>23, <1>24 DEF Worked

\* A row of the user's is none of the answer's.
LEMMA UserUnsaid ==
  ASSUME ExchangeInv, before \in 0 .. Len(rows), NEW text, IsText(text), Store("user", text)
  PROVE  SaidIn(rows', before) = SaidIn(rows, before)
<1>3. PICK K : rows \in Seq(Messages(K))
  BY DEF ExchangeInv, TextInv, Transcribed
<1>4. PICK Q : text \in Seq(Q)
  BY DEF IsText
<1>5. PICK L : L = K \cup Q
  OBVIOUS
<1>6. Seq(K) \subseteq Seq(L) /\ Seq(Q) \subseteq Seq(L)
  BY <1>5, SeqMonotonic
<1>7. Messages(K) \subseteq Messages(L)
  BY <1>6 DEF Messages
<1>8. rows \in Seq(Messages(L))
  BY <1>3, <1>7, SeqMonotonic
<1>9. PICK e \in Messages(L) : e = Said("user", text)
  BY <1>4, <1>6 DEF Said, Messages, Roles
<1>10. e.role # "assistant"
  BY <1>9 DEF Said
<1>11. SaidIn(Append(rows, e), before) = SaidIn(rows, before)
  BY <1>8, <1>10, SaidOn
<1>12. rows' = Append(rows, e)
  BY <1>9 DEF Store
<1> QED BY <1>11, <1>12

\* A row of the user's, and a call that is over.
LEMMA UserKeeps ==
  ASSUME ExchangeInv, before \in 0 .. Len(rows), Worked,
         NEW text, IsText(text), Store("user", text),
         before' = before, reply' = reply, Left' = Left, todo' = todo \/ (todo # <<>> /\ todo' = Tail(todo))
  PROVE  Worked'
<1>1. PICK X : Kept(X) /\ todo \in Seq(X)
  BY DEF Worked
<1>2. todo' \in Seq(X)
  BY <1>1, StoredHead
<1>3. SaidIn(rows', before) = SaidIn(rows, before)
  BY UserUnsaid
<1>4. Lines(SaidIn(rows', before') \o RowsOf(Left')) = By(Said("assistant", AsRead(reply')))
  BY <1>3 DEF Worked
<1> QED BY <1>1, <1>2, <1>4 DEF Worked

LEMMA FinishesKeeps ==
  ExchangeInv /\ StoreInv /\ (\E fails \in BOOLEAN : Finishes(fails)) => Worked'
<1> SUFFICES ASSUME ExchangeInv, StoreInv, NEW fails \in BOOLEAN, Finishes(fails) PROVE Worked'
  OBVIOUS
<1>1. begun /\ todo # <<>> /\ phase = "storing"
  BY DEF Finishes, ExchangeInv, TextInv
<1>2. Head(todo).body \in Seq(Unescaped)
  BY <1>1, FirstCall DEF ExchangeInv, TextInv
<1>3. PICK text : text = ResultOf(Head(todo), fails, Output(Head(todo), fails))
  OBVIOUS
<1>4. IsText(text)
  BY <1>2, <1>3, OutputIsText DEF Finishes
<1>5. Store("user", text) /\ before' = before /\ reply' = reply /\ todo' = Tail(todo) /\ ~begun'
  BY <1>3 DEF Finishes
<1>6. Left' = Left
  BY <1>1, <1>5 DEF Left
<1>7. Worked /\ before \in 0 .. Len(rows)
  BY <1>1 DEF StoreInv
<1> QED BY <1>1, <1>4, <1>5, <1>6, <1>7, UserKeeps

LEMMA WarnsKeeps == ExchangeInv /\ StoreInv /\ Warns => Worked'
<1> SUFFICES ASSUME ExchangeInv, StoreInv, Warns PROVE Worked'
  OBVIOUS
<1>1. PICK text : text = ErrorText(errors)
  OBVIOUS
<1>2. IsText(text)
  BY <1>1, ErrorTextIsText DEF ExchangeInv, TextInv
<1>3. Store("user", text) /\ before' = before /\ reply' = reply /\ todo' = todo /\ begun' = begun
  BY <1>1 DEF Warns
<1>4. Left' = Left
  BY <1>3 DEF Left
<1>5. Worked /\ before \in 0 .. Len(rows)
  BY DEF StoreInv, Warns
<1> QED BY <1>2, <1>3, <1>4, <1>5, UserKeeps

LEMMA RowsGrow ==
  ASSUME NEW L, NEW messages \in Seq(Messages(L)), NEW e, NEW b \in 0 .. Len(messages)
  PROVE  b \in 0 .. Len(Append(messages, e))
  OBVIOUS

LEMMA StoreKept == ExchangeInv /\ StoreInv /\ [ExchangesNext]_exchangeVars => StoreInv'
<1> SUFFICES ASSUME ExchangeInv, StoreInv, [ExchangesNext]_exchangeVars PROVE StoreInv'
  OBVIOUS
<1>1. PICK L : rows \in Seq(Messages(L))
  BY DEF ExchangeInv, TextInv, Transcribed
<1>2. Len(rows) \in Nat /\ before \in 0 .. Len(rows)
  BY <1>1 DEF StoreInv
<1>3. PICK K : rows' \in Seq(Messages(K))
  BY ExchangeKept DEF ExchangeInv, TextInv, Transcribed
<1>4. Len(rows') \in Nat
  BY <1>3
<1>5. ASSUME CallStarts PROVE StoreInv'
  <2>1. before' = Len(rows') /\ phase' = "asking"
    BY <1>5 DEF CallStarts
  <2>2. before' \in 0 .. Len(rows')
    BY <1>4, <2>1
  <2>3. SaidIn(rows', before') = <<>>
    BY <1>3, <2>1, <2>2, SaidInTyped
  <2> QED BY <2>1, <2>2, <2>3 DEF StoreInv
<1>6. ASSUME RunEnds PROVE StoreInv'
  <2>1. before' = 0 /\ phase' = "idle"
    BY <1>6 DEF RunEnds
  <2>2. before' \in 0 .. Len(rows')
    BY <1>4, <2>1
  <2> QED BY <2>1, <2>2 DEF StoreInv
<1>7. ASSUME phase' = "storing", before' = before, Worked',
             rows' = rows \/ \E role, text : Store(role, text)
      PROVE  StoreInv'
  <2>1. before' \in 0 .. Len(rows')
    BY <1>1, <1>2, <1>7, RowsGrow DEF Store
  <2> QED BY <1>7, <2>1 DEF StoreInv
<1>8. ASSUME NEW text \in Told, Operator(text) PROVE StoreInv'
  <2>1. Store("user", text) /\ before' = before /\ reply' = reply /\ todo' = todo /\ begun' = begun /\ phase' = phase
    BY <1>8 DEF Operator
  <2>2. IsText(text)
    BY ExchangeAssumption DEF IsText
  <2>3. SaidIn(rows', before') = SaidIn(rows, before)
    BY <1>2, <2>1, <2>2, UserUnsaid
  <2>4. phase = "storing" => Worked'
    <3>1. Left' = Left
      BY <2>1 DEF Left
    <3> QED BY <1>2, <2>1, <2>2, <3>1, UserKeeps DEF StoreInv
  <2>5. before' \in 0 .. Len(rows')
    BY <1>1, <1>2, <2>1, RowsGrow DEF Store
  <2> QED BY <2>1, <2>3, <2>4, <2>5 DEF StoreInv
<1>9. ASSUME NEW line \in Vocabulary, Delta(line) PROVE StoreInv'
  BY <1>9 DEF Delta, StoreInv
<1>10. CASE StreamEnds
  BY <1>10 DEF StreamEnds, StoreInv
<1>11. CASE StreamThrows
  BY <1>6, <1>11 DEF StreamThrows, Fails
<1>12. CASE Answers
  BY <1>6, <1>12 DEF Answers
<1>13. CASE Splits
  <2>1. Worked'
    BY <1>13, SplitsKeeps
  <2>2. rows' = rows \/ \E role, text : Store(role, text)
    BY <1>13 DEF Splits
  <2> QED BY <1>7, <1>13, <2>1, <2>2 DEF Splits
<1>14. CASE Begins
  <2>1. Worked'
    BY <1>14, BeginsKeeps
  <2> QED BY <1>7, <1>14, <2>1 DEF Begins
<1>15. ASSUME NEW fails \in BOOLEAN, Finishes(fails) PROVE StoreInv'
  <2>1. Worked'
    BY <1>15, FinishesKeeps
  <2>2. phase' = "storing"
    BY <1>15 DEF Finishes, ExchangeInv, TextInv
  <2> QED BY <1>7, <1>15, <2>1, <2>2 DEF Finishes
<1>16. CASE Warns
  <2>1. Worked'
    BY <1>16, WarnsKeeps
  <2> QED BY <1>7, <1>16, <2>1 DEF Warns
<1>17. CASE AsksAgain
  BY <1>5, <1>17 DEF AsksAgain
<1>18. CASE Stops
  BY <1>6, <1>18 DEF Stops, Fails
<1>19. CASE UNCHANGED exchangeVars
  <2>1. Worked => Worked'
    BY <1>19 DEF exchangeVars, Worked, Left
  <2> QED BY <1>19, <2>1 DEF exchangeVars, StoreInv
<1>20. ASSUME NEW i \in rendering, Accepted(i) PROVE StoreInv'
  <2>1. Worked => Worked'
    BY <1>20 DEF Accepted, Worked, Left
  <2> QED BY <1>20, <2>1 DEF Accepted, StoreInv
<1>21. CASE RunStarts
  BY <1>5, <1>21 DEF RunStarts
<1>22. CASE Restarts
  BY <1>6, <1>22 DEF Restarts
<1> QED BY <1>8, <1>9, <1>10, <1>11, <1>12, <1>13, <1>14, <1>15, <1>16, <1>17, <1>18, <1>19, <1>20,
           <1>21, <1>22 DEF ExchangesNext

\* Once an answer is worked off, its rows say what one who reads it line by line reads in it:
\* nothing the model wrote is lost or run twice but for what follows a closing mark, whatever
\* calls failed and whatever was warned of: executeMarkers(), parseMarkers() and the rows of
\* serializeMarkerCall().
THEOREM AnswersAreKept ==
  ExchangesInit /\ [][ExchangesNext]_exchangeVars => []StoredAsWritten
<1>1. ExchangesInit => StoreInv
  <2> SUFFICES ASSUME ExchangesInit PROVE StoreInv
    OBVIOUS
  <2>1. before = 0 /\ rows = <<>> /\ phase = "idle"
    BY DEF ExchangesInit
  <2>2. before \in 0 .. Len(rows)
    BY <2>1
  <2> QED BY <2>1, <2>2 DEF StoreInv
<1>2. ExchangeInv /\ StoreInv => StoredAsWritten
  <2> SUFFICES ASSUME ExchangeInv, StoreInv, phase = "storing", todo = <<>>, errors = <<>>
               PROVE  Lines(SaidIn(rows, before)) = By(Said("assistant", AsRead(reply)))
    BY DEF StoredAsWritten, SaidIn
  <2>1. Left = todo /\ Worked
    BY DEF ExchangeInv, TextInv, StoreInv, Left
  <2>2. PICK X : Kept(X) /\ todo \in Seq(X)
    BY <2>1 DEF Worked
  <2>3. PICK r : r = RowsOf(todo)
    OBVIOUS
  <2>4. r = <<>>
    <3>1. r \in Seq(Messages(Storable)) /\ Len(r) = Len(todo)
      BY <2>2, <2>3, StoredTyped
    <3>2. Len(todo) = 0
      OBVIOUS
    <3> QED BY <3>1, <3>2, EmptySeq
  <2>5. PICK L : rows \in Seq(Messages(L))
    BY DEF ExchangeInv, TextInv, Transcribed
  <2>6. PICK s \in Seq(Messages(L)) : s = SaidIn(rows, before)
    BY <2>5, SaidInTyped DEF StoreInv
  <2>7. s \o <<>> = s
    OBVIOUS
  <2> QED BY <2>1, <2>3, <2>4, <2>6, <2>7 DEF Worked
<1>3. ExchangesInit /\ [][ExchangesNext]_exchangeVars => []StoreInv
  BY <1>1, StoreKept, ExchangeHolds, PTL
<1> QED BY <1>2, <1>3, ExchangeHolds, PTL

=============================================================================
