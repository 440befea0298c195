-------------------------- MODULE LifecycleProofs ---------------------------
(***************************************************************************)
(* A promise of the SIGHUP loop, for any settings, files, faults and    *)
(* numbers of clients and signals, and one of the configuration file.      *)
(***************************************************************************)
EXTENDS Lifecycle, SequenceTheorems, WellFoundedInduction, TLAPS

(* From the creation of the pool on, the number of threads main reads is   *)
(* the one it read for the pool, unless the handler raised the flag.       *)
SameNumber ==
  sighup = 0 =>
    /\ pc \in {"listen", "queue"} => settings.n_threads = asked
    /\ Serving => cap = asked % UintRange

LEMMA HandlerRaisesFlag ==
  ASSUME NEW line, NEW readable, NEW next, Handler(line, readable, next)
  PROVE  /\ pc' \in {next, "crashed"}
         /\ sighup' = 1 \/ UNCHANGED <<sighup, settings>>
BY DEF Handler, ReadFile

(* Whenever the handler comes, the queue of a server that accepts has the  *)
(* size of the pool it asked for, or the server is about to restart.       *)
THEOREM SizesStayEqual == Spec => []SizesAgree
<1>1. Init => SameNumber
  BY DEF Init, SameNumber, Serving
<1>2. SameNumber /\ [Next]_vars => SameNumber'
  <2> SUFFICES ASSUME SameNumber, [Next]_vars
               PROVE  SameNumber'
    OBVIOUS
  <2> USE DEF SameNumber, Serving
  <2>1. CASE ReadSettings
    BY <2>1 DEF ReadSettings, ReadFile
  <2>2. CASE Fork \/ Setsid \/ ForkAgain \/ Redirect
    BY <2>2 DEF Fork, Setsid, ForkAgain, Redirect, Fails
  <2>3. CASE LoopStart \/ Listen
    BY <2>3 DEF LoopStart, Listen, Fails, create_semaphore
  <2>4. CASE CreatePool
    BY <2>4 DEF CreatePool
  <2>5. CASE CreateConnections
    BY <2>5 DEF CreateConnections, Fails, create_cs
  <2>6. CASE TestSighup \/ Accept
    BY <2>6 DEF TestSighup, Accept
  <2>7. CASE Drain \/ Destroy \/ DestroyPool
    BY <2>7 DEF Drain, Destroy, DestroyPool, destroy_cs
  <2>8. CASE Dequeue \/ LeaveCs \/ Finish \/ Connect
    BY <2>8 DEF Dequeue, LeaveCs, Finish, Connect, mainVars
  <2>9. CASE SighupInMain
    BY <2>9, HandlerRaisesFlag DEF SighupInMain
  <2>10. CASE SighupInWorker
    BY <2>10, HandlerRaisesFlag DEF SighupInWorker
  <2>11. CASE UNCHANGED vars
    BY <2>11 DEF vars
  <2>12. QED
    BY <2>1, <2>2, <2>3, <2>4, <2>5, <2>6, <2>7, <2>8, <2>9, <2>10, <2>11
       DEF Next, MainStep, WorkerStep
<1>3. SameNumber => SizesAgree
  BY DEF SameNumber, SizesAgree
<1>4. QED
  BY <1>1, <1>2, <1>3, PTL DEF Spec

-----------------------------------------------------------------------------
(* The settings: two passes over the same words, one for the command line, *)
(* one for the file.                                                       *)

(* Induction over the natural numbers, for a set in place of a predicate.  *)
LEMMA NatSetInduction ==
  ASSUME NEW S, 0 \in S, \A n \in Nat : n \in S => n + 1 \in S
  PROVE  Nat \subseteq S
<1> DEFINE T == Nat \ S
           R == OpToRel(<, Nat)
<1> SUFFICES ASSUME T # {} PROVE FALSE
  OBVIOUS
<1>1. IsWellFoundedOn(R, Nat)
  BY NatLessThanWellFounded
<1>2. T \subseteq Nat
  OBVIOUS
<1> HIDE DEF T, R
<1>3. PICK x \in T : \A y \in T : ~ (<<y, x>> \in R)
  BY <1>1, <1>2, WFMin
<1> USE DEF T, R
<1>4. x \in Nat \ {0}
  OBVIOUS
<1>5. x - 1 \in T
  BY <1>4
<1>6. <<x - 1, x>> \in R
  BY <1>4 DEF OpToRel
<1> QED BY <1>3, <1>5, <1>6

(* The settings, and what a pass of get_parameters() knows.                *)
Paths == [name : AllWords \cup {Null}, newline : BOOLEAN]

Settings ==
  [port : Int, n_threads : Int, s : Int, conf_file : Paths, log_file : Paths]

Passes == [t : Settings, value : BOOLEAN, result : {"OK", "PARAM_ERR", "CRASH"}]

(* What atoi() returns; what a path is read from.                          *)
LEMMA NumberTyped == ASSUME NEW w PROVE Number(w) \in Int
BY ParametersAssumption DEF Number

LEMMA PathTyped ==
  ASSUME NEW words \in Seq(AllWords), NEW i \in Nat \ {0}, NEW newline \in BOOLEAN
  PROVE  PathOf(words, i, newline) \in Paths
<1>1. ValueOf(words, i) \in AllWords \cup {Null}
  BY DEF ValueOf
<1> QED BY <1>1 DEF PathOf, Paths

(* The option of each field.                                               *)
LEMMA FieldsAre ==
  /\ DOMAIN NumberField = {"-p", "-n"} /\ NumberField["-p"] = "port" 
     /\ NumberField["-n"] = "n_threads"
  /\ DOMAIN PathField = {"-c", "-l"} /\ PathField["-c"] = "conf_file" 
     /\ PathField["-l"] = "log_file"
BY DEF NumberField, PathField

(* What a pass knows after an error, a switch, an option with its value.   *)
Refused(a, r) == [a EXCEPT !.result = r]
Switched(a) == [a EXCEPT !.t.s = 1]
Given(a, field, value) == [a EXCEPT !.t[field] = value, !.value = TRUE]

(* What a pass does with each word that is not a value.                    *)
LEMMA OptionVisited ==
  ASSUME NEW words, NEW i, NEW x, NEW a, NEW c, c = VisitOption(words, x, a, i)
  PROVE  LET w == words[i]  v == ValueOf(words, i)  n == Number(v)  p == PathOf(words, i, x)
         IN  /\ w = "-s" => c = Switched(a)
             /\ w \in {"-p", "-n"} /\ v = Null => c = Refused(a, "CRASH")
             /\ w \in {"-p", "-n"} /\ v # Null /\ n = 0 => c = Refused(a, "PARAM_ERR")
             /\ w = "-p" /\ v # Null /\ n # 0 => c = Given(a, "port", n)
             /\ w = "-n" /\ v # Null /\ n # 0 => c = Given(a, "n_threads", n)
             /\ w = "-c" => c = Given(a, "conf_file", p)
             /\ w = "-l" => c = Given(a, "log_file", p)
             /\ w \notin {"-s", "-p", "-n", "-c", "-l"} => c = Refused(a, "PARAM_ERR")
<1> USE DEF Refused, Switched, Given
<1> DEFINE w == words[i]
<1>1. CASE w = "-s"
  BY <1>1, FieldsAre DEF VisitOption
<1>2. CASE w \in {"-p", "-n"}
  BY <1>2, FieldsAre DEF VisitOption
<1>3. CASE w \in {"-c", "-l"}
  BY <1>3, FieldsAre DEF VisitOption
<1>4. CASE w \notin {"-s", "-p", "-n", "-c", "-l"}
  BY <1>4, FieldsAre DEF VisitOption
<1> QED BY <1>1, <1>2, <1>3, <1>4

(* The fields of each of them.                                             *)
LEMMA RefusedIs ==
  ASSUME NEW a \in Passes, NEW r \in {"CRASH", "PARAM_ERR"}
  PROVE  Refused(a, r) \in Passes /\ Refused(a, r).result = r /\ Refused(a, r).value = a.value
         /\ Refused(a, r).t = a.t
BY DEF Refused, Passes

LEMMA SwitchedIs ==
  ASSUME NEW a \in Passes
  PROVE  LET c == Switched(a)
         IN  /\ c \in Passes /\ c.result = a.result /\ c.value = a.value
             /\ c.t.port = a.t.port /\ c.t.n_threads = a.t.n_threads /\ c.t.s = 1
             /\ c.t.conf_file = a.t.conf_file /\ c.t.log_file = a.t.log_file
BY DEF Switched, Passes, Settings

(* The fields after an option with a number, and with a path.              *)
NumberIn(c, a, f, n) ==
  /\ c \in Passes /\ c.result = a.result /\ c.value = TRUE
  /\ c.t.port = (IF f = "port" THEN n ELSE a.t.port)
  /\ c.t.n_threads = (IF f = "port" THEN a.t.n_threads ELSE n)
  /\ c.t.s = a.t.s /\ c.t.conf_file = a.t.conf_file /\ c.t.log_file = a.t.log_file

PathIn(c, a, f, p) ==
  /\ c \in Passes /\ c.result = a.result /\ c.value = TRUE
  /\ c.t.port = a.t.port /\ c.t.n_threads = a.t.n_threads /\ c.t.s = a.t.s
  /\ c.t.conf_file = (IF f = "log_file" THEN a.t.conf_file ELSE p)
  /\ c.t.log_file = (IF f = "log_file" THEN p ELSE a.t.log_file)

(* An option with a number, and one with a path.                           *)
LEMMA NumberGiven ==
  ASSUME NEW a \in Passes, NEW n \in Int, NEW f \in {"port", "n_threads"}
  PROVE  NumberIn(Given(a, f, n), a, f, n)
<1>1. CASE f = "port"
  BY <1>1 DEF NumberIn, Given, Passes, Settings
<1>2. CASE f = "n_threads"
  BY <1>2 DEF NumberIn, Given, Passes, Settings
<1> QED BY <1>1, <1>2

LEMMA PathGiven ==
  ASSUME NEW a \in Passes, NEW p \in Paths, NEW f \in {"conf_file", "log_file"}
  PROVE  PathIn(Given(a, f, p), a, f, p)
<1>1. CASE f = "conf_file"
  BY <1>1 DEF PathIn, Given, Passes, Settings
<1>2. CASE f = "log_file"
  BY <1>2 DEF PathIn, Given, Passes, Settings
<1> QED BY <1>1, <1>2

(* Every option leaves a pass that is well formed.                         *)
LEMMA OptionTyped ==
  ASSUME NEW words \in Seq(AllWords), NEW x \in BOOLEAN, NEW a \in Passes, NEW i \in Nat \ {0}
  PROVE  VisitOption(words, x, a, i) \in Passes
<1> DEFINE w == words[i]  v == ValueOf(words, i)  n == Number(v)  p == PathOf(words, i, x)
           c == VisitOption(words, x, a, i)
<1>1. n \in Int /\ p \in Paths
  BY NumberTyped, PathTyped
<1>2. /\ w = "-s" => c = Switched(a)
      /\ w \in {"-p", "-n"} => \/ c = Refused(a, "CRASH") \/ c = Refused(a, "PARAM_ERR")
                               \/ c = Given(a, "port", n) \/ c = Given(a, "n_threads", n)
      /\ w \in {"-c", "-l"} => c = Given(a, "conf_file", p) \/ c = Given(a, "log_file", p)
      /\ w \notin {"-s", "-p", "-n", "-c", "-l"} => c = Refused(a, "PARAM_ERR")
  BY OptionVisited
<1> HIDE DEF w, n, p, c
<1>3. Switched(a) \in Passes /\ Refused(a, "CRASH") \in Passes /\ Refused(a, "PARAM_ERR") \in Passes
  BY SwitchedIs, RefusedIs
<1>4. Given(a, "port", n) \in Passes /\ Given(a, "n_threads", n) \in Passes
  BY <1>1, NumberGiven DEF NumberIn
<1>5. Given(a, "conf_file", p) \in Passes /\ Given(a, "log_file", p) \in Passes
  BY <1>1, PathGiven DEF PathIn
<1>6. c \in Passes
  BY <1>2, <1>3, <1>4, <1>5
<1> QED BY <1>6 DEF c

(* So does every word.                                                     *)
LEMMA VisitTyped ==
  ASSUME NEW words \in Seq(AllWords), NEW x \in BOOLEAN, NEW a \in Passes, NEW i \in Nat \ {0}
  PROVE  Visit(words, x, a, i) \in Passes
<1>1. CASE a.result # "OK"
  BY <1>1 DEF Visit
<1>2. CASE a.result = "OK" /\ a.value
  BY <1>2 DEF Visit, Passes
<1>3. CASE a.result = "OK" /\ ~a.value
  BY <1>3, OptionTyped DEF Visit
<1> QED BY <1>1, <1>2, <1>3 DEF Passes

(* A pass over the words: what it knows when it comes to word i.          *)
Pass(f, words, argc, newline, start) ==
  /\ f \in [0 .. argc -> Passes] /\ f[0] = start /\ (argc > 0 => f[1] = start)
  /\ \A i \in 1 .. argc - 1 : f[i + 1] = Visit(words, newline, f[i], i)

(* There is a pass over any words,                                         *)
LEMMA PassExists ==
  ASSUME NEW words \in Seq(AllWords), NEW newline \in BOOLEAN, NEW start \in Passes,
         NEW argc \in Nat
  PROVE  \E f : Pass(f, words, argc, newline, start)
<1> DEFINE G == {j \in Nat : \E f : Pass(f, words, j, newline, start)}
<1>1. 0 \in G
  <2> DEFINE f == [i \in 0 .. 0 |-> start]
  <2>1. Pass(f, words, 0, newline, start)
    BY DEF Pass
  <2> QED BY <2>1
<1>2. ASSUME NEW j \in Nat, j \in G PROVE j + 1 \in G
  <2>1. PICK f : Pass(f, words, j, newline, start)
    BY <1>2
  <2> DEFINE last == IF j = 0 THEN start ELSE Visit(words, newline, f[j], j)
             g == [i \in 0 .. j + 1 |-> IF i = j + 1 THEN last ELSE f[i]]
  <2>2. last \in Passes
    BY <2>1, VisitTyped DEF Pass
  <2>3. g \in [0 .. j + 1 -> Passes] /\ g[0] = start /\ g[1] = start
    BY <2>1, <2>2 DEF Pass
  <2>4. ASSUME NEW i \in 1 .. j PROVE g[i + 1] = Visit(words, newline, g[i], i)
    <3>1. CASE i = j
      BY <3>1
    <3>2. CASE i # j
      BY <2>1, <3>2 DEF Pass
    <3> QED BY <3>1, <3>2
  <2> HIDE DEF g
  <2>5. Pass(g, words, j + 1, newline, start)
    BY <2>3, <2>4 DEF Pass
  <2> QED BY <2>5
<1>3. Nat \subseteq G
  <2> HIDE DEF G
  <2> QED BY <1>1, <1>2, NatSetInduction
<1> QED BY <1>3

(* and get_parameters() returns what the pass ends with.                   *)
LEMMA ParametersOfPass ==
  ASSUME NEW words \in Seq(AllWords), NEW newline \in BOOLEAN, NEW t \in Settings, NEW argc \in Nat
  PROVE  \E f : /\ Pass(f, words, argc, newline, [t |-> t, value |-> FALSE, result |-> "OK"])
                /\ GetParameters(words, argc, newline, t) =
                     [result |-> f[argc].result,
                      settings |-> IF f[argc].result = "OK" THEN f[argc].t ELSE t]
<1> DEFINE start == [t |-> t, value |-> FALSE, result |-> "OK"]
           Is(g) == g = [i \in 0 .. argc |-> IF i <= 1 THEN start
                                             ELSE Visit(words, newline, g[i - 1], i - 1)]
           visited == CHOOSE g : Is(g)
<1>0. start \in Passes
  BY DEF Passes
<1>1. GetParameters(words, argc, newline, t) =
        [result |-> visited[argc].result,
         settings |-> IF visited[argc].result = "OK" THEN visited[argc].t ELSE t]
  BY DEF GetParameters
<1> HIDE DEF start
<1>2. PICK f : Pass(f, words, argc, newline, start)
  BY <1>0, PassExists
<1>3. Is(f)
  <2> DEFINE F == [i \in 0 .. argc |-> IF i <= 1 THEN start
                                       ELSE Visit(words, newline, f[i - 1], i - 1)]
  <2>1. ASSUME NEW i \in 0 .. argc PROVE f[i] = F[i]
    <3>1. CASE i <= 1
      BY <1>2, <3>1 DEF Pass
    <3>2. CASE i > 1
      <4>1. i - 1 \in 1 .. argc - 1 /\ (i - 1) + 1 = i
        BY <3>2
      <4>2. f[(i - 1) + 1] = Visit(words, newline, f[i - 1], i - 1)
        BY <1>2, <4>1 DEF Pass
      <4> QED BY <3>2, <4>1, <4>2
    <3> QED BY <3>1, <3>2
  <2>2. f = [i \in 0 .. argc |-> f[i]]
    BY <1>2 DEF Pass
  <2>3. F = [i \in 0 .. argc |-> F[i]]
    OBVIOUS
  <2> HIDE DEF F
  <2>4. f = F
    BY <2>1, <2>2, <2>3
  <2> QED BY <2>4 DEF F
<1>4. Is(visited)
  <2> HIDE DEF Is
  <2> QED BY <1>3
<1> HIDE DEF visited
<1> DEFINE S == {j \in Nat : j <= argc => visited[j] \in Passes}
<1>5. visited[0] = start /\ (argc > 0 => visited[1] = start)
  BY <1>4
<1>6. \A i \in 1 .. argc - 1 : visited[i + 1] = Visit(words, newline, visited[i], i)
  <2> TAKE i \in 1 .. argc - 1
  <2>1. i + 1 \in 0 .. argc /\ ~(i + 1 <= 1) /\ (i + 1) - 1 = i
    OBVIOUS
  <2> QED BY <1>4, <2>1
<1>7. Nat \subseteq S
  <2>1. 0 \in S
    BY <1>0, <1>5
  <2>2. ASSUME NEW j \in Nat, j \in S PROVE j + 1 \in S
    <3> SUFFICES ASSUME j + 1 <= argc PROVE visited[j + 1] \in Passes
      OBVIOUS
    <3>1. CASE j = 0
      BY <1>0, <1>5, <3>1
    <3>2. CASE j # 0
      <4>1. j \in 1 .. argc - 1 /\ visited[j] \in Passes
        BY <2>2, <3>2
      <4> QED BY <1>6, <4>1, VisitTyped
    <3> QED BY <3>1, <3>2
  <2> HIDE DEF S
  <2> QED BY <2>1, <2>2, NatSetInduction
<1>8. visited \in [0 .. argc -> Passes]
  <2>1. \A i \in 0 .. argc : visited[i] \in Passes
    BY <1>7
  <2>2. visited = [i \in 0 .. argc |-> visited[i]]
    BY <1>4
  <2> QED BY <2>1, <2>2
<1>9. Pass(visited, words, argc, newline, start)
  BY <1>5, <1>6, <1>8 DEF Pass
<1> QED BY <1>1, <1>9 DEF start

(* A word is visited alike in two lines, when an option finds the same     *)
(* value in both.                                                          *)
FindsSame(words, x, read, y, a, i) ==
  /\ words[i] = read[i]
  /\ a.result = "OK" /\ a.value # TRUE /\ words[i] \in {"-p", "-n", "-c", "-l"}
       => ValueOf(words, i) = ValueOf(read, i) /\ PathOf(words, i, x) = PathOf(read, i, y)

LEMMA SameVisit ==
  ASSUME NEW words, NEW read, NEW i, NEW x, NEW y, NEW a \in Passes, FindsSame(words, x, read, y, a, i)
  PROVE  Visit(words, x, a, i) = Visit(read, y, a, i)
<1> USE DEF FindsSame
<1> DEFINE w == words[i]
           c == VisitOption(words, x, a, i)  d == VisitOption(read, y, a, i)
<1>1. CASE a.result # "OK"
  BY <1>1 DEF Visit
<1>2. CASE a.result = "OK" /\ a.value = TRUE
  BY <1>2 DEF Visit
<1>3. CASE a.result = "OK" /\ a.value # TRUE
  <2>1. Visit(words, x, a, i) = c /\ Visit(read, y, a, i) = d
    BY <1>3 DEF Visit, Passes
  <2>2. CASE w \in {"-p", "-n", "-c", "-l"}
    <3>1. ValueOf(words, i) = ValueOf(read, i) /\ PathOf(words, i, x) = PathOf(read, i, y)
      BY <1>3, <2>2
    <3>2. c = d
      BY <2>2, <3>1, OptionVisited
    <3> QED BY <2>1, <3>2
  <2>3. CASE w \notin {"-p", "-n", "-c", "-l"}
    <3>1. c = d
      BY <2>3, OptionVisited
    <3> QED BY <2>1, <3>1
  <2> QED BY <2>2, <2>3
<1> QED BY <1>1, <1>2, <1>3 DEF Passes

(* What IsValue computes.                                                  *)
Values(v, words) ==
  /\ v \in [0 .. Len(words) -> BOOLEAN]
  /\ \A i \in 0 .. Len(words) :
       v[i] = TRUE <=> /\ i > 1 /\ words[i - 1] \in {"-p", "-n", "-c", "-l"}
                       /\ v[i - 1] # TRUE

LEMMA ValuesAre ==
  ASSUME NEW words \in Seq(AllWords)
  PROVE  Values(IsValue(words), words)
<1> DEFINE n == Len(words)
           Option(i) == words[i] \in {"-p", "-n", "-c", "-l"}
           Is(v, j) == v = [i \in 0 .. j |-> i > 1 /\ Option(i - 1) /\ ~v[i - 1]]
           G == {j \in Nat : \E v : Is(v, j)}
<1>0. DOMAIN NumberField \cup DOMAIN PathField = {"-p", "-n", "-c", "-l"}
  BY FieldsAre
<1>1. 0 \in G
  <2> DEFINE v == [i \in 0 .. 0 |-> FALSE]
  <2> DEFINE w == [i \in 0 .. 0 |-> i > 1 /\ Option(i - 1) /\ ~v[i - 1]]
  <2>1. \A i \in 0 .. 0 : ~(i > 1)
    OBVIOUS
  <2>2. \A i \in 0 .. 0 : v[i] = w[i]
    BY <2>1, Zenon
  <2>3. v = w
    BY <2>2, Zenon
  <2>4. Is(v, 0)
    BY <2>3
  <2> HIDE DEF Is, v
  <2> QED BY <2>4
<1>2. ASSUME NEW j \in Nat, j \in G PROVE j + 1 \in G
  <2>1. PICK v : Is(v, j)
    BY <1>2
  <2> DEFINE g == [i \in 0 .. j + 1 |-> IF i = j + 1 THEN i > 1 /\ Option(i - 1) /\ ~v[i - 1]
                                        ELSE v[i]]
             h == [i \in 0 .. j + 1 |-> i > 1 /\ Option(i - 1) /\ ~g[i - 1]]
  <2> HIDE DEF Option
  <2>2. ASSUME NEW i \in 0 .. j + 1 PROVE g[i] = h[i]
    <3>1. CASE i = j + 1
      <4>1. i > 1 => i - 1 \in 0 .. j + 1 /\ i - 1 # j + 1 /\ g[i - 1] = v[i - 1]
        BY <3>1
      <4>2. g[i] = (i > 1 /\ Option(i - 1) /\ ~v[i - 1])
        BY <3>1
      <4>3. h[i] = (i > 1 /\ Option(i - 1) /\ ~g[i - 1])
        OBVIOUS
      <4> HIDE DEF g, h
      <4> QED BY <4>1, <4>2, <4>3
    <3>2. CASE i # j + 1
      <4>1. i \in 0 .. j /\ g[i] = v[i] /\ (i > 1 => g[i - 1] = v[i - 1])
        BY <3>2
      <4>2. v[i] = (i > 1 /\ Option(i - 1) /\ ~v[i - 1])
        BY <2>1, <4>1
      <4>3. h[i] = (i > 1 /\ Option(i - 1) /\ ~g[i - 1])
        OBVIOUS
      <4> HIDE DEF g, h
      <4> QED BY <4>1, <4>2, <4>3
    <3> QED BY <3>1, <3>2
  <2>3. g = h
    <3>1. g = [i \in 0 .. j + 1 |-> g[i]] /\ h = [i \in 0 .. j + 1 |-> h[i]]
      OBVIOUS
    <3> HIDE DEF g, h
    <3> QED BY <2>2, <3>1
  <2>4. Is(g, j + 1)
    BY <2>3
  <2> HIDE DEF Is, g
  <2> QED BY <2>4
<1>3. Nat \subseteq G
  <2> HIDE DEF G
  <2> QED BY <1>1, <1>2, NatSetInduction
<1>4. n \in Nat
  BY LenProperties
<1> DEFINE value == CHOOSE v : Is(v, n)
<1>5. Is(value, n)
  <2>1. \E v : Is(v, n)
    BY <1>3, <1>4
  <2> HIDE DEF Is
  <2> QED BY <2>1
<1>6. IsValue(words) = value
  BY <1>0 DEF IsValue
<1> HIDE DEF value
<1>7. \A i \in 0 .. n : value[i] = (i > 1 /\ Option(i - 1) /\ ~value[i - 1])
  BY <1>5
<1>8. \A i \in 0 .. n : value[i] \in BOOLEAN
  BY <1>7
<1>9. value \in [0 .. n -> BOOLEAN]
  <2>1. value = [i \in 0 .. n |-> value[i]]
    BY <1>5
  <2> QED BY <1>8, <2>1
<1>10. Values(value, words)
  <2> SUFFICES ASSUME NEW i \in 0 .. n
               PROVE  value[i] = TRUE <=> /\ i > 1 /\ words[i - 1] \in {"-p", "-n", "-c", "-l"}
                                          /\ value[i - 1] # TRUE
    BY <1>9 DEF Values
  <2>1. i > 1 => i - 1 \in 0 .. n
    BY <1>4
  <2> QED BY <1>7, <1>8, <2>1
<1> QED BY <1>6, <1>10

(* A pass that met no error knows whether the word it comes to is a value. *)
KnowsValue(f, words, i) ==
  f[i].result = "OK" => (f[i].value = TRUE <=> IsValue(words)[i] = TRUE)

LEMMA ValueKnown ==
  ASSUME NEW words \in Seq(AllWords), NEW x, x \in BOOLEAN, NEW a \in Passes, NEW f,
         NEW argc \in Nat, argc <= Len(words) + 1, a.value = FALSE,
         Pass(f, words, argc, x, a), NEW i \in 1 .. argc, i <= Len(words)
  PROVE  KnowsValue(f, words, i)
<1> DEFINE v == IsValue(words)  n == Len(words)
           Known(j) == f[j].result = "OK" => (f[j].value = TRUE <=> v[j] = TRUE)
           S == {j \in Nat : j \in 1 .. argc /\ j <= n => Known(j)}
<1>0. n \in Nat
  BY LenProperties
<1>1. /\ f \in [0 .. argc -> Passes] /\ f[1] = a
      /\ \A j \in 1 .. argc - 1 : f[j + 1] = Visit(words, x, f[j], j)
  BY DEF Pass
<1>2. \A j \in 0 .. n : v[j] = TRUE <=> /\ j > 1 /\ words[j - 1] \in {"-p", "-n", "-c", "-l"}
                                         /\ v[j - 1] # TRUE
  BY ValuesAre DEF Values
<1> HIDE DEF v
<1>3. 0 \in S
  OBVIOUS
<1>4. ASSUME NEW k \in Nat, k \in S PROVE k + 1 \in S
  <2> SUFFICES ASSUME k + 1 \in 1 .. argc, k + 1 <= n PROVE Known(k + 1)
    <3> HIDE DEF Known, n
    <3> QED OBVIOUS
  <2> DEFINE b == f[k]  c == Visit(words, x, b, k)  w == words[k]
  <2>0. CASE k = 0
    <3>1. 1 \in 0 .. n /\ ~(1 > 1) /\ k + 1 = 1
      BY <1>0, <2>0
    <3>2. v[1] # TRUE
      BY <1>2, <3>1
    <3>3. f[1].value = FALSE
      BY <1>1
    <3> QED BY <3>1, <3>2, <3>3
  <2> SUFFICES ASSUME k # 0 PROVE Known(k + 1)
    BY <2>0
  <2>1. /\ k \in 1 .. argc - 1 /\ k \in 1 .. argc /\ k \in 0 .. argc /\ k + 1 \in 0 .. n
        /\ k \in Nat \ {0} /\ k <= n /\ (k + 1) - 1 = k /\ k + 1 > 1
    BY <1>0
  <2>2. b \in Passes /\ f[k + 1] = c /\ Known(k)
    BY <1>1, <1>4, <2>1
  <2>3. v[k + 1] = TRUE <=> w \in {"-p", "-n", "-c", "-l"} /\ v[k] # TRUE
    BY <1>2, <2>1
  <2> SUFFICES ASSUME c.result = "OK" PROVE c.value = TRUE <=> v[k + 1] = TRUE
    BY <2>2
  <2>4. CASE b.result # "OK"
    BY <2>4 DEF Visit
  <2>5. CASE b.result = "OK" /\ b.value = TRUE
    <3>1. c.value = FALSE
      BY <2>2, <2>5 DEF Visit, Passes
    <3> QED BY <2>2, <2>3, <2>5, <3>1
  <2>6. CASE b.result = "OK" /\ b.value # TRUE
    <3> DEFINE val == ValueOf(words, k)  p == PathOf(words, k, x)
    <3>1. c = VisitOption(words, x, b, k) /\ b.value = FALSE /\ v[k] # TRUE
      BY <2>2, <2>6 DEF Visit, Passes
    <3>2. /\ w = "-s" => c = Switched(b)
          /\ w \in {"-p", "-n"} => \/ c = Refused(b, "CRASH") \/ c = Refused(b, "PARAM_ERR")
                                   \/ c = Given(b, "port", Number(val)) \/ c = Given(b, "n_threads", Number(val))
          /\ w \in {"-c", "-l"} => c = Given(b, "conf_file", p) \/ c = Given(b, "log_file", p)
          /\ w \notin {"-s", "-p", "-n", "-c", "-l"} => c = Refused(b, "PARAM_ERR")
      BY <3>1, OptionVisited
    <3>3. Number(val) \in Int /\ p \in Paths
      BY <2>1, NumberTyped, PathTyped
    <3> HIDE DEF c, w, val, p, b
    <3>4. /\ Switched(b).value = FALSE
          /\ Refused(b, "CRASH").result # "OK" /\ Refused(b, "PARAM_ERR").result # "OK"
      BY <2>2, <3>1, SwitchedIs, RefusedIs
    <3>5. /\ Given(b, "port", Number(val)).value = TRUE
          /\ Given(b, "n_threads", Number(val)).value = TRUE
      BY <2>2, <3>3, NumberGiven DEF NumberIn
    <3>6. Given(b, "conf_file", p).value = TRUE /\ Given(b, "log_file", p).value = TRUE
      BY <2>2, <3>3, PathGiven DEF PathIn
    <3> QED BY <2>3, <3>1, <3>2, <3>4, <3>5, <3>6
  <2> QED BY <2>2, <2>4, <2>5, <2>6 DEF Passes
<1>5. Nat \subseteq S
  <2> HIDE DEF S
  <2> QED BY <1>3, <1>4, NatSetInduction
<1>6. Known(i)
  BY <1>5
<1> QED BY <1>6 DEF v, KnowsValue

(* get_parameters() returns settings.                                      *)
LEMMA SettingsRead ==
  ASSUME NEW words \in Seq(AllWords), NEW argc \in Nat, NEW newline \in BOOLEAN, NEW t \in Settings
  PROVE  GetParameters(words, argc, newline, t).settings \in Settings
<1>1. PICK f : /\ Pass(f, words, argc, newline, [t |-> t, value |-> FALSE, result |-> "OK"])
               /\ GetParameters(words, argc, newline, t) =
                    [result |-> f[argc].result,
                     settings |-> IF f[argc].result = "OK" THEN f[argc].t ELSE t]
  BY ParametersOfPass
<1>2. f[argc] \in Passes
  BY <1>1 DEF Pass
<1>3. f[argc].t \in Settings
  BY <1>2 DEF Passes
<1> QED BY <1>1, <1>3

(* The words that argv[] has room for.                                     *)
Kept(words) == IF Len(words) < ArgvSize THEN words ELSE SubSeq(words, 1, ArgvSize - 1)

LEMMA KeptIs ==
  ASSUME NEW words \in Seq(AllWords)
  PROVE  LET kept == Kept(words)
         IN  /\ kept \in Seq(AllWords) /\ Len(kept) = ConfArgc(words) /\ Len(kept) <= Len(words)
             /\ \A i \in 1 .. Len(kept) : kept[i] = words[i]
             /\ kept = words \/ Len(kept) < Len(words)
<1> DEFINE n == Len(words)
<1>1. n \in Nat /\ ArgvSize - 1 \in Nat
  BY ParametersAssumption, LenProperties
<1>2. CASE n < ArgvSize
  BY <1>1, <1>2 DEF Kept, ConfArgc
<1>3. CASE ~(n < ArgvSize)
  <2> DEFINE k == ArgvSize - 1
  <2>1. k \in Nat /\ k <= n /\ k < n /\ Kept(words) = SubSeq(words, 1, k) /\ ConfArgc(words) = k
    BY <1>1, <1>3, ParametersAssumption DEF Kept, ConfArgc
  <2> HIDE DEF k
  <2>2. /\ SubSeq(words, 1, k) \in Seq(AllWords) /\ Len(SubSeq(words, 1, k)) = k
        /\ \A i \in 1 .. k : SubSeq(words, 1, k)[i] = words[i]
    <3>1. \A i \in 1 .. k : words[i] \in AllWords
      BY <1>1, <2>1, ElementOfSeq
    <3> QED BY <1>1, <2>1, <3>1, SubSeqProperties
  <2> QED BY <2>1, <2>2
<1> QED BY <1>2, <1>3

(* Two passes that start and visit alike end alike.                        *)
LEMMA PassesAlike ==
  ASSUME NEW words, NEW read, NEW x, NEW y, NEW n \in Nat, NEW m \in Nat, NEW k \in Nat,
         k <= n, k <= m, NEW a \in Passes, NEW f, NEW g,
         Pass(f, words, n, x, a), Pass(g, read, m, y, a),
         \A i \in 1 .. k - 1 : g[i] = f[i] => Visit(words, x, f[i], i) = Visit(read, y, g[i], i)
  PROVE  f[k] = g[k]
<1> DEFINE S == {j \in Nat : j <= k => f[j] = g[j]}
<1>1. /\ f[0] = a /\ (n > 0 => f[1] = a)
      /\ \A i \in 1 .. n - 1 : f[i + 1] = Visit(words, x, f[i], i)
  BY DEF Pass
<1>2. /\ g[0] = a /\ (m > 0 => g[1] = a)
      /\ \A i \in 1 .. m - 1 : g[i + 1] = Visit(read, y, g[i], i)
  BY DEF Pass
<1>3. 0 \in S
  BY <1>1, <1>2
<1>4. ASSUME NEW j \in Nat, j \in S PROVE j + 1 \in S
  <2> SUFFICES ASSUME j + 1 <= k PROVE f[j + 1] = g[j + 1]
    OBVIOUS
  <2>1. CASE j = 0
    <3>1. n > 0 /\ m > 0
      BY <2>1
    <3> QED BY <1>1, <1>2, <2>1, <3>1
  <2>2. CASE j # 0
    <3>1. j \in 1 .. k - 1 /\ j \in 1 .. n - 1 /\ j \in 1 .. m - 1 /\ f[j] = g[j]
      BY <1>4, <2>2
    <3> QED BY <1>1, <1>2, <3>1
  <2> QED BY <2>1, <2>2
<1>5. Nat \subseteq S
  <2> HIDE DEF S
  <2> QED BY <1>3, <1>4, NatSetInduction
<1> QED BY <1>5

(* What a pass makes of the settings.                                      *)
Result(f, argc, t) == IF f[argc].result = "OK" THEN f[argc].t ELSE t

Reads(f, words, argc, newline, a, t) ==
  /\ Pass(f, words, argc, newline, a)
  /\ GetParameters(words, argc, newline, t).settings = Result(f, argc, t)

LEMMA ResultOfPass ==
  ASSUME NEW words \in Seq(AllWords), NEW newline \in BOOLEAN, NEW t \in Settings, NEW argc \in Nat,
         NEW a, a = [t |-> t, value |-> FALSE, result |-> "OK"]
  PROVE  \E f : Reads(f, words, argc, newline, a, t)
<1>1. PICK f : /\ Pass(f, words, argc, newline, [t |-> t, value |-> FALSE, result |-> "OK"])
               /\ GetParameters(words, argc, newline, t) =
                    [result |-> f[argc].result,
                     settings |-> IF f[argc].result = "OK" THEN f[argc].t ELSE t]
  BY ParametersOfPass
<1> QED BY <1>1 DEF Result, Reads

ReadsSame(words, newline, read, y, t) ==
  GetParameters(words, ConfArgc(words), newline, t).settings =
    GetParameters(read, Len(read) + 1, y, t).settings

(* When the last word is a value, the pass over the file and the one over  *)
(* a command line of these words differ in a step that skips this word.    *)
LEMMA ValueLast ==
  ASSUME NEW words \in Seq(AllWords), NEW newline \in BOOLEAN, NEW t \in Settings,
         NEW kept, kept = Kept(words), NEW n, n = Len(kept), IsValue(kept)[n] = TRUE,
         NEW y, y = (newline /\ kept = words)
  PROVE  ReadsSame(words, newline, kept, y, t)
<1>1. /\ kept \in Seq(AllWords) /\ n = ConfArgc(words) /\ n <= Len(words)
      /\ \A i \in 1 .. n : kept[i] = words[i]
      /\ kept = words \/ n < Len(words)
  BY KeptIs
<1>2. n \in Nat /\ Len(words) \in Nat /\ y \in BOOLEAN
  BY <1>1, LenProperties
<1>3. n > 1
  <2>1. n \in 0 .. n
    BY <1>2
  <2> QED BY <1>1, <2>1, ValuesAre DEF Values
<1> DEFINE a == [t |-> t, value |-> FALSE, result |-> "OK"]
<1>4. a \in Passes /\ a.value = FALSE
  BY DEF Passes
<1> HIDE DEF a
<1>5. PICK f : Reads(f, words, n, newline, a, t)
  BY <1>2, ResultOfPass DEF a
<1>6. PICK g : Reads(g, kept, n + 1, y, a, t)
  <2>1. n + 1 \in Nat
    BY <1>2
  <2> QED BY <1>1, <1>2, <2>1, ResultOfPass DEF a
<1>7. f[n] = g[n]
  <2>1. ASSUME NEW i \in 1 .. n - 1, g[i] = f[i]
        PROVE  Visit(words, newline, f[i], i) = Visit(kept, y, g[i], i)
    <3>1. i + 1 \in 1 .. n /\ i < n /\ i < Len(words) /\ i \in 1 .. n /\ i \in 0 .. n
      BY <1>1, <1>2, <2>1
    <3>2. ValueOf(words, i) = ValueOf(kept, i)
      BY <1>1, <3>1 DEF ValueOf
    <3>3. PathOf(words, i, newline) = PathOf(kept, i, y)
      <4>1. CASE kept = words
        <5>1. y = newline
          BY <4>1
        <5> QED BY <4>1, <5>1
      <4>2. CASE kept # words
        <5>1. y = FALSE
          BY <4>2, Zenon
        <5>2. i + 1 # Len(words)
          BY <1>1, <1>2, <3>1, <4>2
        <5> QED BY <3>2, <5>1, <5>2 DEF PathOf
      <4> QED BY <4>1, <4>2
    <3>4. f[i] \in Passes
      BY <1>5, <3>1 DEF Pass, Reads
    <3>5. words[i] = kept[i]
      BY <1>1, <3>1
    <3>6. Visit(words, newline, f[i], i) = Visit(kept, y, f[i], i)
      <4> DEFINE b == f[i]
      <4> HIDE DEF b
      <4>1. b \in Passes /\ y \in BOOLEAN
        BY <1>2, <3>4 DEF b
      <4> DEFINE x == newline  z == y
      <4>2. FindsSame(words, x, kept, z, b, i)
        BY <3>2, <3>3, <3>5 DEF FindsSame
      <4> HIDE DEF x, z
      <4>3. Visit(words, x, b, i) = Visit(kept, z, b, i)
        BY <4>1, <4>2, SameVisit
      <4> QED BY <4>3 DEF b, x, z
    <3> QED BY <2>1, <3>6
  <2>2. n + 1 \in Nat /\ n <= n + 1 /\ n <= n
    BY <1>2
  <2> QED BY <1>2, <1>4, <1>5, <1>6, <2>1, <2>2, PassesAlike DEF Reads
<1>8. /\ g[n] \in Passes /\ g[n + 1] \in Passes /\ g[n + 1] = Visit(kept, y, g[n], n)
      /\ g[n].result = "OK" => g[n].value = TRUE
  <2>1. n \in 0 .. n + 1 /\ n + 1 \in 0 .. n + 1 /\ n \in 1 .. (n + 1) - 1 /\ n \in 1 .. n + 1
        /\ n + 1 \in Nat
    BY <1>2, <1>3
  <2>2. g[n] \in Passes /\ g[n + 1] \in Passes /\ g[n + 1] = Visit(kept, y, g[n], n)
    BY <1>6, <2>1 DEF Pass, Reads
  <2>3. n + 1 <= Len(kept) + 1 /\ n <= Len(kept)
    BY <1>2
  <2>4. g[n].result = "OK" => g[n].value = TRUE
    BY <1>1, <1>2, <1>4, <1>6, <2>1, <2>3, ValueKnown DEF Reads, KnowsValue
  <2> QED BY <2>2, <2>4
<1>9. g[n + 1].result = g[n].result /\ g[n + 1].t = g[n].t
  BY <1>8 DEF Visit, Passes
<1> QED BY <1>1, <1>5, <1>6, <1>7, <1>9 DEF Result, Reads, ReadsSame

(* When it is not, the pass over the file never comes to it.               *)
LEMMA OptionLast ==
  ASSUME NEW words \in Seq(AllWords), NEW newline \in BOOLEAN, NEW t \in Settings,
         NEW kept, kept = Kept(words), NEW n, n = Len(kept), IsValue(kept)[n] # TRUE,
         NEW read, read = Front(kept)
  PROVE  ReadsSame(words, newline, read, FALSE, t)
<1>1. /\ kept \in Seq(AllWords) /\ n = ConfArgc(words) /\ n <= Len(words)
      /\ \A i \in 1 .. n : kept[i] = words[i]
  BY KeptIs
<1>2. n \in Nat /\ Len(words) \in Nat
  BY <1>1, LenProperties
<1> DEFINE m == IF n = 0 THEN 0 ELSE n - 1
<1>3. /\ read \in Seq(AllWords) /\ Len(read) = m
      /\ \A i \in 1 .. m : read[i] = words[i]
  <2>1. read = SubSeq(kept, 1, n - 1)
    BY DEF Front
  <2>2. CASE n = 0
    <3>1. kept = <<>>
      BY <1>1, <2>2, EmptySeq
    <3>2. read = <<>>
      BY <2>1, <2>2, <3>1
    <3> QED BY <2>2, <3>2
  <2>3. CASE n # 0
    <3> DEFINE k == n - 1
    <3>1. k \in Nat /\ k <= n /\ m = k /\ read = SubSeq(kept, 1, k)
      BY <1>2, <2>1, <2>3
    <3>2. \A i \in 1 .. k : kept[i] = words[i] /\ kept[i] \in AllWords
      <4>1. \A i \in 1 .. k : i \in 1 .. n
        BY <1>2, <3>1
      <4> QED BY <1>1, <4>1, ElementOfSeq
    <3> HIDE DEF k
    <3>3. /\ SubSeq(kept, 1, k) \in Seq(AllWords) /\ Len(SubSeq(kept, 1, k)) = k
          /\ \A i \in 1 .. k : SubSeq(kept, 1, k)[i] = kept[i]
      <4>1. k \in Int /\ \A i \in 1 .. k : kept[i] \in AllWords
        BY <3>1, <3>2
      <4> QED BY <3>1, <4>1, SubSeqProperties
    <3> HIDE DEF m
    <3> QED BY <3>1, <3>2, <3>3
  <2> QED BY <2>2, <2>3
<1> DEFINE a == [t |-> t, value |-> FALSE, result |-> "OK"]
<1>4. a \in Passes /\ a.value = FALSE
  BY DEF Passes
<1>5. PICK f : Reads(f, words, n, newline, a, t)
  BY <1>2, ResultOfPass
<1>6. m \in Nat /\ m + 1 \in Nat
  BY <1>2
<1>7. PICK g : Reads(g, read, m + 1, FALSE, a, t)
  <2> HIDE DEF m
  <2> QED BY <1>3, <1>6, ResultOfPass
<1>8. CASE n = 0
  <2>1. f[0] = a /\ g[1] = a /\ m + 1 = 1
    BY <1>5, <1>7, <1>8 DEF Pass, Reads
  <2> HIDE DEF a
  <2>2. Result(f, 0, t) = Result(g, 1, t)
    BY <2>1 DEF Result, Reads, ReadsSame
  <2> QED BY <1>1, <1>3, <1>5, <1>7, <1>8, <2>1, <2>2 DEF Reads, ReadsSame
<1>9. CASE n # 0
  <2>0. m = n - 1 /\ m + 1 = n
    BY <1>2, <1>9
  <2> HIDE DEF a, m
  <2>1. ASSUME NEW i \in 1 .. n - 1, g[i] = f[i]
        PROVE  Visit(words, newline, f[i], i) = Visit(read, FALSE, g[i], i)
    <3>1. /\ i \in 1 .. m /\ i \in 1 .. n /\ i \in 0 .. n /\ i < n /\ i < Len(words)
          /\ i <= Len(kept) /\ i + 1 \in 0 .. n /\ i + 1 \in 1 .. n /\ (i + 1) - 1 = i
      BY <1>1, <1>2, <2>0, <2>1
    <3>2. f[i] \in Passes /\ g[i] \in Passes
      BY <1>5, <2>1, <3>1 DEF Pass, Reads
    <3>3. ASSUME f[i].result = "OK", f[i].value # TRUE, words[i] \in {"-p", "-n", "-c", "-l"}
          PROVE  i + 1 < n
      <4>1. Pass(g, read, n, FALSE, a)
        BY <1>7, <2>0 DEF Reads
      <4>2. n <= Len(read) + 1 /\ i <= Len(read)
        BY <1>2, <1>3, <2>0, <3>1
      <4>3. g[i].value = TRUE <=> IsValue(read)[i] = TRUE
        <5>1. i \in 1 .. n /\ g[i].result = "OK"
          BY <2>1, <3>1, <3>3
        <5>2. read \in Seq(AllWords) /\ n \in Nat /\ a \in Passes /\ a.value = FALSE
          BY <1>2, <1>3, <1>4
        <5> DEFINE x == FALSE
        <5>3. x \in BOOLEAN /\ Pass(g, read, n, x, a)
          BY <4>1
        <5> HIDE DEF x
        <5>4. KnowsValue(g, read, i)
          BY <4>2, <5>1, <5>2, <5>3, ValueKnown
        <5> QED BY <5>1, <5>4 DEF KnowsValue
      <4>4. IsValue(kept)[i] = TRUE <=> IsValue(read)[i] = TRUE
        <5> DEFINE v == IsValue(kept)  u == IsValue(read)
                   S == {j \in Nat : j <= m => (v[j] = TRUE <=> u[j] = TRUE)}
        <5>1. \A j \in 0 .. n : v[j] = TRUE <=> /\ j > 1 /\ v[j - 1] # TRUE
                                                 /\ kept[j - 1] \in {"-p", "-n", "-c", "-l"}
          BY <1>1, ValuesAre DEF Values
        <5>2. \A j \in 0 .. m : u[j] = TRUE <=> /\ j > 1 /\ u[j - 1] # TRUE
                                                 /\ read[j - 1] \in {"-p", "-n", "-c", "-l"}
          BY <1>3, ValuesAre DEF Values
        <5> HIDE DEF v, u
        <5>3. 0 \in S
          <6>1. 0 \in 0 .. n /\ 0 \in 0 .. m /\ ~(0 > 1)
            BY <1>2, <1>6
          <6>2. v[0] # TRUE /\ u[0] # TRUE
            BY <5>1, <5>2, <6>1
          <6> QED BY <6>2
        <5>4. ASSUME NEW j \in Nat, j \in S PROVE j + 1 \in S
          <6> SUFFICES ASSUME j + 1 <= m PROVE v[j + 1] = TRUE <=> u[j + 1] = TRUE
            <7> DEFINE k == j + 1
            <7>1. k \in Nat
              OBVIOUS
            <7> HIDE DEF k
            <7>2. k \in S <=> (k <= m => (v[k] = TRUE <=> u[k] = TRUE))
              BY <7>1
            <7> HIDE DEF S
            <7> QED BY <7>2 DEF k
          <6>1. /\ j + 1 \in 0 .. n /\ j + 1 \in 0 .. m /\ (j + 1) - 1 = j
                /\ j + 1 > 1 => j \in 1 .. n /\ j \in 1 .. m
            BY <1>2, <1>6, <2>0
          <6>2. v[j] = TRUE <=> u[j] = TRUE
            BY <1>6, <5>4
          <6>3. j + 1 > 1 => kept[j] = read[j]
            BY <1>1, <1>3, <6>1
          <6> DEFINE k == j + 1
          <6>4. v[k] = TRUE <=> k > 1 /\ v[k - 1] # TRUE /\ kept[k - 1] \in {"-p", "-n", "-c", "-l"}
            BY <5>1, <6>1
          <6>5. u[k] = TRUE <=> k > 1 /\ u[k - 1] # TRUE /\ read[k - 1] \in {"-p", "-n", "-c", "-l"}
            BY <5>2, <6>1
          <6>6. k - 1 = j /\ (k > 1 => kept[j] = read[j])
            BY <6>1, <6>3
          <6> HIDE DEF k
          <6>7. v[k] = TRUE <=> u[k] = TRUE
            BY <6>2, <6>4, <6>5, <6>6
          <6> QED BY <6>7 DEF k
        <5>5. Nat \subseteq S
          <6> HIDE DEF S
          <6> QED BY <5>3, <5>4, NatSetInduction
        <5>6. i \in Nat /\ i <= m
          BY <3>1
        <5>7. v[i] = TRUE <=> u[i] = TRUE
          BY <5>5, <5>6
        <5> QED BY <5>7 DEF v, u
      <4>5. IsValue(kept)[i] # TRUE
        BY <2>1, <3>3, <4>3, <4>4
      <4>6. IsValue(kept)[i + 1] = TRUE
        <5> DEFINE v == IsValue(kept)  k == i + 1
        <5>1. kept[i] = words[i] /\ k > 1 /\ k - 1 = i /\ k \in 0 .. n
          BY <1>1, <3>1
        <5>2. \A j \in 0 .. n : v[j] = TRUE <=> /\ j > 1 /\ kept[j - 1] \in {"-p", "-n", "-c", "-l"}
                                                 /\ v[j - 1] # TRUE
          BY <1>1, ValuesAre DEF Values
        <5>3. v[i] # TRUE
          BY <4>5
        <5> HIDE DEF v, k
        <5>4. v[k] = TRUE
          BY <3>3, <5>1, <5>2, <5>3
        <5> QED BY <5>4 DEF v, k
      <4>7. i + 1 # n
        BY <4>6
      <4> QED BY <1>2, <3>1, <4>7
    <3>4. ASSUME f[i].result = "OK", f[i].value # TRUE, words[i] \in {"-p", "-n", "-c", "-l"}
          PROVE  /\ ValueOf(words, i) = ValueOf(read, i)
                 /\ PathOf(words, i, newline) = PathOf(read, i, FALSE)
      <4>1. i + 1 < n /\ i < Len(read) /\ i + 1 \in 1 .. m /\ i + 1 # Len(words)
        BY <1>1, <1>2, <1>3, <2>0, <3>1, <3>3, <3>4
      <4>2. ValueOf(words, i) = ValueOf(read, i)
        BY <1>3, <3>1, <4>1 DEF ValueOf
      <4> QED BY <4>1, <4>2 DEF PathOf
    <3>5. words[i] = read[i]
      BY <1>3, <3>1
    <3>6. FindsSame(words, newline, read, FALSE, f[i], i)
      BY <3>4, <3>5 DEF FindsSame
    <3>7. Visit(words, newline, f[i], i) = Visit(read, FALSE, f[i], i)
      <4> DEFINE x == newline  z == FALSE
      <4>1. FindsSame(words, x, read, z, f[i], i)
        BY <3>6
      <4> HIDE DEF x, z
      <4>2. Visit(words, x, f[i], i) = Visit(read, z, f[i], i)
        BY <3>2, <4>1, SameVisit
      <4> QED BY <4>2 DEF x, z
    <3> QED BY <2>1, <3>7
  <2>2. n <= n
    BY <1>2
  <2>3. f[n] = g[n]
    <3>1. Pass(f, words, n, newline, a) /\ Pass(g, read, n, FALSE, a)
      BY <1>5, <1>7, <2>0 DEF Reads
    <3> DEFINE x == newline  z == FALSE
    <3>2. /\ \A i \in 1 .. n - 1 : g[i] = f[i] => Visit(words, x, f[i], i) = Visit(read, z, g[i], i)
          /\ Pass(f, words, n, x, a) /\ Pass(g, read, n, z, a)
      BY <2>1, <3>1
    <3> HIDE DEF x, z
    <3> QED BY <1>2, <1>4, <2>2, <3>2, PassesAlike
  <2> QED BY <1>1, <1>3, <1>5, <1>7, <2>0, <2>3 DEF Result, Reads, ReadsSame
<1> QED BY <1>8, <1>9

(* So does update_parameters(),                                            *)
LEMMA FileTyped ==
  ASSUME NEW line \in [words : Seq(AllWords), newline : BOOLEAN], NEW readable \in BOOLEAN,
         NEW t \in Settings
  PROVE  UpdateParameters(readable, line, t).settings \in Settings
<1>1. ConfArgc(line.words) \in Nat
  BY LenProperties, ParametersAssumption DEF ConfArgc
<1>2. GetParameters(line.words, ConfArgc(line.words), line.newline, t).settings \in Settings
  BY <1>1, SettingsRead
<1> QED BY <1>2 DEF UpdateParameters

(* The settings have their types.                                          *)
SettingsTyped == settings \in Settings

(* whoever calls it.                                                       *)
LEMMA FileReadTyped ==
  ASSUME SettingsTyped, NEW parsed \in Settings, NEW line \in ConfLines,
         NEW readable \in BOOLEAN, NEW next,
         ReadFile(parsed, line, readable, next)
  PROVE  SettingsTyped'
<1>1. line \in [words : Seq(AllWords), newline : BOOLEAN]
  BY LifecycleAssumption
<1> QED BY <1>1, FileTyped DEF ReadFile, SettingsTyped

LEMMA HandlerTyped ==
  ASSUME SettingsTyped, NEW line \in ConfLines, NEW readable \in BOOLEAN, NEW next,
         Handler(line, readable, next)
  PROVE  SettingsTyped'
BY FileReadTyped DEF Handler, SettingsTyped

(***************************************************************************)
(* server.c:127, "Sets argc and argv as if they were read from command     *)
(* line.": whatever the settings are when the file is read and whatever    *)
(* the file holds, every setting is what the words that count give on a    *)
(* command line, the last one with the newline of the file.                *)
(***************************************************************************)
THEOREM FileIsACommandLine == Spec => []FileReadsAsCommandLine
<1>1. Init => SettingsTyped
  <2>1. "/tmp/server.log" \in AllWords
    BY DEF AllWords, Defaults, Path
  <2>2. NoPath \in Paths /\ Path("/tmp/server.log") \in Paths
    BY <2>1 DEF Paths, NoPath, Path
  <2>3. Defaults \in Settings
    BY <2>2 DEF Defaults, Settings
  <2> QED BY <2>3 DEF Init, SettingsTyped
<1>2. SettingsTyped /\ [Next]_vars => SettingsTyped'
  <2> SUFFICES ASSUME SettingsTyped, [Next]_vars PROVE SettingsTyped'
    OBVIOUS
  <2>1. CASE ReadSettings
    <3>1. PICK typed \in CommandLines, line \in ConfLines, readable \in BOOLEAN :
            \/ ReadFile(FromCommandLine(typed, settings).settings, line, readable, "fork")
            \/ UNCHANGED settings
      BY <2>1 DEF ReadSettings
    <3>2. FromCommandLine(typed, settings).settings \in Settings
      <4>1. typed \in Seq(AllWords) /\ Len(typed) + 1 \in Nat
        BY LifecycleAssumption, LenProperties
      <4> QED BY <4>1, SettingsRead DEF FromCommandLine, SettingsTyped
    <3>3. CASE UNCHANGED settings
      BY <3>3 DEF SettingsTyped
    <3> QED BY <3>1, <3>2, <3>3, FileReadTyped
  <2>2. CASE SighupInMain
    BY <2>2, HandlerTyped DEF SighupInMain
  <2>3. CASE SighupInWorker
    BY <2>3, HandlerTyped DEF SighupInWorker
  <2>4. ASSUME UNCHANGED settings PROVE SettingsTyped'
    BY <2>4 DEF SettingsTyped
  <2>5. CASE Fork \/ Setsid \/ ForkAgain \/ Redirect \/ LoopStart \/ CreatePool \/ Listen
    BY <2>4, <2>5 DEF Fork, Setsid, ForkAgain, Redirect, LoopStart, CreatePool, Listen
  <2>6. CASE CreateConnections \/ TestSighup \/ Accept \/ Drain \/ Destroy \/ DestroyPool
    BY <2>4, <2>6 DEF CreateConnections, TestSighup, Accept, Drain, Destroy, DestroyPool
  <2>7. CASE Dequeue \/ LeaveCs \/ Finish \/ Connect
    BY <2>4, <2>7 DEF Dequeue, LeaveCs, Finish, Connect
  <2>8. CASE UNCHANGED vars
    BY <2>4, <2>8 DEF vars
  <2> QED
    BY <2>1, <2>2, <2>3, <2>5, <2>6, <2>7, <2>8 DEF Next, MainStep, WorkerStep
<1>3. SettingsTyped => FileReadsAsCommandLine
  <2> SUFFICES ASSUME SettingsTyped, settings.conf_file # NoPath, ~settings.conf_file.newline,
                      NEW line \in ConfLines
               PROVE  LET read == WordsRead(line.words)
                      IN  UpdateParameters(TRUE, line, settings).settings =
                            GetParameters(read, Len(read) + 1, line.newline /\ read = line.words,
                                          settings).settings
    BY DEF FileReadsAsCommandLine
  <2> DEFINE words == line.words  newline == line.newline  kept == Kept(words)  n == Len(kept)
  <2>1. words \in Seq(AllWords) /\ newline \in BOOLEAN /\ settings \in Settings
    BY LifecycleAssumption DEF SettingsTyped
  <2>2. UpdateParameters(TRUE, line, settings).settings =
          GetParameters(words, ConfArgc(words), newline, settings).settings
    BY DEF UpdateParameters
  <2>3. WordsRead(words) = IF IsValue(kept)[n] THEN kept ELSE Front(kept)
    BY DEF WordsRead, Kept
  <2>4. /\ kept \in Seq(AllWords) /\ n \in Nat /\ n <= Len(words) /\ Len(words) \in Nat
        /\ IsValue(kept)[n] \in BOOLEAN
    <3>1. kept \in Seq(AllWords) /\ n <= Len(words)
      BY <2>1, KeptIs
    <3>2. n \in Nat /\ n \in 0 .. n /\ Len(words) \in Nat
      BY <2>1, <3>1, LenProperties
    <3>3. IsValue(kept)[n] \in BOOLEAN
      <4>1. Values(IsValue(kept), kept)
        BY <3>1, ValuesAre
      <4> HIDE DEF kept
      <4> QED BY <3>2, <4>1 DEF Values
    <3> QED BY <3>1, <3>2, <3>3
  <2> HIDE DEF words, newline, kept
  <2>5. CASE IsValue(kept)[n] = TRUE
    <3>1. WordsRead(words) = kept
      BY <2>3, <2>5
    <3>2. GetParameters(words, ConfArgc(words), newline, settings).settings =
            GetParameters(kept, n + 1, newline /\ kept = words, settings).settings
      <4> DEFINE y == newline /\ kept = words  t == settings
      <4>1. kept = Kept(words) /\ t \in Settings /\ y = (newline /\ kept = words)
        BY <2>1 DEF kept
      <4> HIDE DEF t, n, y
      <4>2. n = Len(kept)
        BY DEF n
      <4>3. ReadsSame(words, newline, kept, y, t)
        BY <2>1, <2>5, <4>1, <4>2, ValueLast
      <4> QED BY <4>3 DEF ReadsSame, t, n, y
    <3> QED BY <2>2, <3>1, <3>2 DEF words, newline
  <2>6. CASE IsValue(kept)[n] # TRUE
    <3> DEFINE read == Front(kept)
    <3>1. WordsRead(words) = read
      BY <2>3, <2>4, <2>6
    <3>2. GetParameters(words, ConfArgc(words), newline, settings).settings =
            GetParameters(read, Len(read) + 1, FALSE, settings).settings
      <4> DEFINE t == settings
      <4>1. kept = Kept(words) /\ t \in Settings
        BY <2>1 DEF kept
      <4> HIDE DEF t, n, read
      <4>2. n = Len(kept) /\ read = Front(kept)
        BY DEF n, read
      <4>3. ReadsSame(words, newline, read, FALSE, t)
        BY <2>1, <2>6, <4>1, <4>2, OptionLast
      <4> QED BY <4>3 DEF ReadsSame, t
    <3>3. CASE read # words
      BY <2>2, <3>1, <3>2, <3>3 DEF words, newline
    <3>4. CASE read = words
      <4>1. n = 0 /\ Len(read) + 1 = 1
        <5>1. read = SubSeq(kept, 1, n - 1)
          BY DEF Front
        <5>2. n # 0 => Len(read) = n - 1
          <6> DEFINE k == n - 1
          <6>1. n # 0 => k \in Nat /\ \A i \in 1 .. k : i \in 1 .. n
            BY <2>4
          <6> HIDE DEF k
          <6>2. n # 0 => \A i \in 1 .. k : kept[i] \in AllWords
            BY <2>4, <6>1, ElementOfSeq
          <6>3. n # 0 => Len(SubSeq(kept, 1, k)) = k
            BY <2>4, <6>1, <6>2, SubSeqProperties
          <6> QED BY <5>1, <6>3 DEF k
        <5>3. n = 0
          BY <2>4, <3>4, <5>2
        <5>4. kept = <<>>
          BY <2>4, <5>3, EmptySeq
        <5>5. read = <<>>
          BY <5>1, <5>3, <5>4
        <5> QED BY <5>3, <5>5
      <4>2. ASSUME NEW x \in BOOLEAN
            PROVE  GetParameters(words, 1, x, settings).settings = settings
        <5> DEFINE a == [t |-> settings, value |-> FALSE, result |-> "OK"]
        <5>1. PICK f : Reads(f, words, 1, x, a, settings)
          BY <2>1, ResultOfPass
        <5>2. f[1] = a
          BY <5>1 DEF Reads, Pass
        <5> QED BY <5>1, <5>2 DEF Reads, Result
      <4> QED BY <2>1, <2>2, <3>1, <3>2, <3>4, <4>1, <4>2 DEF words, newline
    <3> QED BY <3>3, <3>4
  <2> QED BY <2>5, <2>6
<1> QED BY <1>1, <1>2, <1>3, PTL DEF Spec
=============================================================================
