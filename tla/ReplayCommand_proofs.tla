------------------------ MODULE ReplayCommand_proofs ------------------------
(***************************************************************************)
(* Proofs about ReplayCommand, for any clients and command lines, any      *)
(* captures, and a network and a queue of any size.                        *)
(***************************************************************************)
EXTENDS ReplayCommand, SharedLemmas, FiniteSetTheorems, SequenceTheorems

-----------------------------------------------------------------------------
(* The command line.                                                       *)

(* The argument at i is the option of this name.                           *)
Sets(args, i, key) == args[i].dashed /\ args[i].text = key

(* What Options computes, as an equation.                                  *)
OptionsFrom(args, from) ==
  \A i \in 2 .. Len(args) + 2 :
    from[i] = IF i > Len(args) THEN NoOptions
              ELSE IF ~args[i].dashed THEN from[i + 1]
              ELSE Under(from[IF HasValue(args, i) THEN i + 2 ELSE i + 1],
                         args[i].text, ValueAt(args, i))

(* Arguments, and the values taken from them, are texts.                   *)
LEMMA ArgumentType ==
  ASSUME NEW args \in Seq(Argument)
  PROVE  /\ Len(args) \in Nat
         /\ \A i \in 1 .. Len(args) : /\ args[i] \in Argument
                                      /\ args[i].dashed \in BOOLEAN /\ args[i].text \in STRING
         /\ \A i \in 1 .. Len(args) : ValueAt(args, i) \in STRING \cup {""}
<1>1. Len(args) \in Nat /\ \A i \in 1 .. Len(args) : args[i] \in Argument
  OBVIOUS
<1>2. \A i \in 1 .. Len(args) : args[i].dashed \in BOOLEAN /\ args[i].text \in STRING
  BY <1>1 DEF Argument
<1>3. ASSUME NEW i \in 1 .. Len(args) PROVE ValueAt(args, i) \in STRING \cup {""}
  <2>1. CASE HasValue(args, i)
    <3>1. i + 1 \in 1 .. Len(args)
      BY <1>1, <2>1 DEF HasValue
    <3>2. QED
      BY <1>2, <2>1, <3>1 DEF ValueAt
  <2>2. CASE ~HasValue(args, i)
    <3>1. ValueAt(args, i) = ""
      BY <2>2 DEF ValueAt
    <3>2. QED
      BY <3>1
  <2>3. QED
    BY <2>1, <2>2
<1>4. QED
  BY <1>1, <1>2, <1>3

(* The equation has a solution, and Options is one: the argument after an  *)
(* option, when it is its value, sets nothing itself.                      *)
LEMMA OptionsEquation ==
  ASSUME NEW args \in Seq(Argument)
  PROVE  \E from : OptionsFrom(args, from) /\ Options(args) = from[2]
<1> DEFINE n == Len(args)
           Maps == UNION {[keys -> STRING \cup {""}] : keys \in SUBSET STRING}
           step == [k \in Nat |-> [o \in Maps |->
                     IF n - k \in 1 .. n /\ args[n - k].dashed
                       THEN Under(o, args[n - k].text, ValueAt(args, n - k)) ELSE o]]
           Fixed(f) == f = [i \in 2 .. n + 2 |->
                              IF i > n THEN NoOptions
                              ELSE IF ~args[i].dashed THEN f[i + 1]
                              ELSE Under(f[IF HasValue(args, i) THEN i + 2 ELSE i + 1],
                                         args[i].text, ValueAt(args, i))]
<1>1. n \in Nat
  BY ArgumentType
<1>2. NoOptions \in Maps
  <2>1. NoOptions \in [{} -> STRING \cup {""}] /\ {} \in SUBSET STRING
    BY DEF NoOptions
  <2>2. QED
    BY <2>1
<1>3. ASSUME NEW o \in Maps, NEW key \in STRING, NEW value \in STRING \cup {""}
      PROVE  Under(o, key, value) \in Maps
  <2>1. PICK keys \in SUBSET STRING : o \in [keys -> STRING \cup {""}]
    OBVIOUS
  <2>2. Under(o, key, value) \in [keys \cup {key} -> STRING \cup {""}]
    BY <2>1 DEF Under
  <2>3. keys \cup {key} \in SUBSET STRING
    OBVIOUS
  <2>4. QED
    BY <2>2, <2>3
<1> HIDE DEF Maps
<1>4. step \in [Nat -> [Maps -> Maps]]
  <2>1. ASSUME NEW k \in Nat, NEW o \in Maps
        PROVE  (IF n - k \in 1 .. n /\ args[n - k].dashed
                  THEN Under(o, args[n - k].text, ValueAt(args, n - k)) ELSE o) \in Maps
    <3>1. CASE n - k \in 1 .. n
      <4>1. args[n - k].text \in STRING /\ ValueAt(args, n - k) \in STRING \cup {""}
        BY <3>1, ArgumentType
      <4>2. QED
        BY <1>3, <4>1
    <3>2. CASE ~(n - k \in 1 .. n)
      BY <3>2
    <3>3. QED
      BY <3>1, <3>2
  <2>2. QED
    BY <2>1
<1>5. PICK g : IsRecursive(g, Maps, NoOptions, step)
  <2> HIDE DEF step
  <2>1. QED
    BY <1>2, <1>4, Recursion
<1> DEFINE from == [i \in 2 .. n + 2 |-> IF i > n THEN NoOptions ELSE g[n + 1 - i]]
<1>6. \A i \in 2 .. n + 1 : from[i] = g[n + 1 - i]
  BY <1>1, <1>5 DEF IsRecursive
<1>7. ASSUME NEW i \in 2 .. n
      PROVE  from[i] = IF args[i].dashed THEN Under(from[i + 1], args[i].text, ValueAt(args, i))
                                         ELSE from[i + 1]
  <2> DEFINE k == n - i
  <2>1. k \in Nat /\ n - k = i /\ i \in 1 .. n /\ k + 1 = n + 1 - i /\ k = n + 1 - (i + 1)
    BY <1>1
  <2>2. from[i] = g[k + 1] /\ from[i + 1] = g[k]
    <3>1. i \in 2 .. n + 1 /\ i + 1 \in 2 .. n + 1
      BY <1>1
    <3> HIDE DEF from
    <3>2. from[i] = g[n + 1 - i] /\ from[i + 1] = g[n + 1 - (i + 1)]
      BY <1>6, <3>1
    <3>3. QED
      BY <2>1, <3>2
  <2>3. g[k] \in Maps /\ g[k + 1] = step[k][g[k]]
    BY <1>5, <2>1 DEF IsRecursive
  <2>4. step[k][g[k]] = IF args[i].dashed THEN Under(g[k], args[i].text, ValueAt(args, i)) ELSE g[k]
    BY <2>1, <2>3
  <2>5. QED
    BY <2>2, <2>3, <2>4
<1>8. \A i \in {n + 1, n + 2} : i \in 2 .. n + 2 => from[i] = NoOptions
  BY <1>1
<1> HIDE DEF from, step
<1>9. ASSUME NEW i \in 2 .. n, HasValue(args, i)
      PROVE  from[i + 2] = from[i + 1]
  <2>1. i + 1 \in 2 .. n /\ ~args[i + 1].dashed /\ (i + 1) + 1 = i + 2
    BY <1>1, <1>9 DEF HasValue
  <2>2. QED
    BY <1>7, <2>1
<1>10. ASSUME NEW i \in 2 .. n + 2
       PROVE  from[i] = IF i > n THEN NoOptions
                        ELSE IF ~args[i].dashed THEN from[i + 1]
                        ELSE Under(from[IF HasValue(args, i) THEN i + 2 ELSE i + 1],
                                   args[i].text, ValueAt(args, i))
  <2>1. CASE i > n
    BY <1>1, <1>8, <2>1
  <2>2. CASE ~(i > n)
    <3>1. i \in 2 .. n
      BY <1>1, <2>2
    <3>2. QED
      BY <1>7, <1>9, <2>2, <3>1
  <2>3. QED
    BY <2>1, <2>2
<1>11. Fixed(from)
  BY <1>10 DEF from
<1> DEFINE chosen == CHOOSE f : Fixed(f)
<1>12. Fixed(chosen)
  <2> HIDE DEF Fixed
  <2>1. QED
    BY <1>11
<1>13. Options(args) = chosen[2]
  BY DEF Options
<1> HIDE DEF chosen
<1>14. OptionsFrom(args, chosen)
  BY <1>12 DEF OptionsFrom
<1>15. QED
  BY <1>13, <1>14

(* The arguments from i on set the key last at j.                          *)
SetsLast(args, i, j, key) ==
  /\ j \in i .. Len(args) /\ Sets(args, j, key)
  /\ \A m \in i .. Len(args) : Sets(args, m, key) => m <= j

(* These are the options that the arguments from i on set, for this key.   *)
AsSet(args, i, given, key) ==
  IF key \in DOMAIN given
    THEN \E j \in Nat : SetsLast(args, i, j, key) /\ given[key] = ValueAt(args, j)
    ELSE \A j \in i .. Len(args) : ~Sets(args, j, key)

(* An argument that does not set the key may be put before.                *)
LEMMA AsSetSkip ==
  ASSUME NEW args \in Seq(Argument), NEW i \in 1 .. Len(args), NEW given, NEW key,
         AsSet(args, i + 1, given, key), ~Sets(args, i, key)
  PROVE  AsSet(args, i, given, key)
<1>1. Len(args) \in Nat
  BY ArgumentType
<1>2. \A j \in i .. Len(args) : j = i \/ j \in i + 1 .. Len(args)
  BY <1>1
<1>3. \A j \in i + 1 .. Len(args) : j \in i .. Len(args)
  BY <1>1
<1>4. CASE key \in DOMAIN given
  <2>1. PICK j \in Nat : SetsLast(args, i + 1, j, key) /\ given[key] = ValueAt(args, j)
    BY <1>4 DEF AsSet
  <2>2. SetsLast(args, i, j, key)
    BY <1>2, <1>3, <2>1 DEF SetsLast
  <2>3. QED
    BY <1>4, <2>1, <2>2 DEF AsSet
<1>5. CASE key \notin DOMAIN given
  BY <1>2, <1>5 DEF AsSet
<1>6. QED
  BY <1>4, <1>5

(* An option is added where nothing behind it sets it.                     *)
LEMMA AsSetAdd ==
  ASSUME NEW args \in Seq(Argument), NEW i \in 1 .. Len(args), NEW given, NEW key,
         AsSet(args, i + 1, given, key), args[i].dashed
  PROVE  AsSet(args, i, Under(given, args[i].text, ValueAt(args, i)), key)
<1> DEFINE more == Under(given, args[i].text, ValueAt(args, i))
<1>1. Len(args) \in Nat
  BY ArgumentType
<1>2. \A j \in i .. Len(args) : j = i \/ j \in i + 1 .. Len(args)
  BY <1>1
<1>3. \A j \in i + 1 .. Len(args) : j \in i .. Len(args) /\ i <= j
  BY <1>1
<1>4. /\ DOMAIN more = DOMAIN given \cup {args[i].text}
      /\ \A k \in DOMAIN more : more[k] = IF k \in DOMAIN given THEN given[k] ELSE ValueAt(args, i)
  BY DEF Under
<1> HIDE DEF more
<1>5. CASE key \in DOMAIN given
  <2>1. PICK j \in Nat : SetsLast(args, i + 1, j, key) /\ given[key] = ValueAt(args, j)
    BY <1>5 DEF AsSet
  <2>2. SetsLast(args, i, j, key)
    BY <1>2, <1>3, <2>1 DEF SetsLast
  <2>3. QED
    BY <1>4, <1>5, <2>1, <2>2 DEF AsSet, more
<1>6. CASE key \notin DOMAIN given /\ key = args[i].text
  <2>1. \A j \in i + 1 .. Len(args) : ~Sets(args, j, key)
    BY <1>6 DEF AsSet
  <2>2. SetsLast(args, i, i, key)
    <3>1. i \in i .. Len(args) /\ i <= i
      BY <1>1
    <3>2. Sets(args, i, key)
      BY <1>6 DEF Sets
    <3>3. QED
      BY <1>2, <2>1, <3>1, <3>2 DEF SetsLast
  <2>3. QED
    BY <1>4, <1>6, <2>2 DEF AsSet, more
<1>7. CASE key \notin DOMAIN given /\ key # args[i].text
  <2>1. ~Sets(args, i, key) /\ key \notin DOMAIN more
    BY <1>4, <1>7 DEF Sets
  <2>2. \A j \in i + 1 .. Len(args) : ~Sets(args, j, key)
    BY <1>7 DEF AsSet
  <2>3. QED
    BY <1>2, <2>1, <2>2 DEF AsSet, more
<1>8. QED
  BY <1>5, <1>6, <1>7

(* The options are what the arguments set last.                            *)
LEMMA OptionsAsSet ==
  ASSUME NEW args \in Seq(Argument), NEW key
  PROVE  AsSet(args, 2, Options(args), key)
<1> DEFINE n == Len(args)
<1>1. n \in Nat
  BY ArgumentType
<1>2. PICK from : OptionsFrom(args, from) /\ Options(args) = from[2]
  BY OptionsEquation
<1> DEFINE Right(i) == AsSet(args, i, from[i], key)
           Done == {k \in Nat : \A i \in 2 .. n + 2 : i + k >= n + 1 => Right(i)}
<1>3. ASSUME NEW i \in 2 .. n + 2, i > n PROVE Right(i)
  <2>1. from[i] = NoOptions
    BY <1>2, <1>3 DEF OptionsFrom
  <2>2. \A j \in i .. n : FALSE
    BY <1>1, <1>3
  <2>3. QED
    BY <2>1, <2>2 DEF AsSet, NoOptions
<1>4. ASSUME NEW i \in 2 .. n, \A j \in i + 1 .. n + 2 : Right(j)
      PROVE  Right(i)
  <2> DEFINE next == IF HasValue(args, i) THEN i + 2 ELSE i + 1
  <2>1. i \in 1 .. n /\ i \in 2 .. n + 2 /\ ~(i > n) /\ i + 1 \in i + 1 .. n + 2 /\ i + 2 \in i + 1 .. n + 2
    BY <1>1
  <2>2. CASE ~args[i].dashed
    <3>1. from[i] = from[i + 1]
      BY <1>2, <2>1, <2>2 DEF OptionsFrom
    <3>2. ~Sets(args, i, key)
      BY <2>2 DEF Sets
    <3>3. AsSet(args, i + 1, from[i + 1], key)
      BY <1>4, <2>1
    <3>4. QED
      BY <2>1, <3>1, <3>2, <3>3, AsSetSkip
  <2>3. CASE args[i].dashed
    <3>1. from[i] = Under(from[next], args[i].text, ValueAt(args, i))
      BY <1>2, <2>1, <2>3 DEF OptionsFrom
    <3>2. AsSet(args, i + 1, from[next], key)
      <4>1. CASE ~HasValue(args, i)
        BY <1>4, <2>1, <4>1
      <4>2. CASE HasValue(args, i)
        <5>1. i + 1 \in 1 .. n /\ ~Sets(args, i + 1, key) /\ (i + 1) + 1 = i + 2
          BY <1>1, <4>2 DEF HasValue, Sets
        <5>2. AsSet(args, i + 2, from[i + 2], key)
          BY <1>4, <2>1
        <5>3. AsSet(args, i + 1, from[i + 2], key)
          BY <5>1, <5>2, AsSetSkip
        <5>4. QED
          BY <4>2, <5>3
      <4>3. QED
        BY <4>1, <4>2
    <3> HIDE DEF next
    <3>3. QED
      BY <2>1, <2>3, <3>1, <3>2, AsSetAdd
  <2>4. QED
    BY <2>2, <2>3
<1> HIDE DEF Right
<1>5. 0 \in Done
  BY <1>1, <1>3
<1>6. ASSUME NEW k \in Nat, k \in Done PROVE k + 1 \in Done
  <2> SUFFICES ASSUME NEW i \in 2 .. n + 2, i + (k + 1) >= n + 1 PROVE Right(i)
    OBVIOUS
  <2>1. CASE i > n
    BY <1>3, <2>1
  <2>2. CASE ~(i > n)
    <3>1. i \in 2 .. n /\ \A j \in i + 1 .. n + 2 : j \in 2 .. n + 2 /\ j + k >= n + 1
      BY <1>1, <2>2
    <3>2. QED
      BY <1>4, <1>6, <3>1
  <2>3. QED
    BY <2>1, <2>2
<1>7. Nat \subseteq Done
  <2> HIDE DEF Done
  <2>1. QED
    BY <1>5, <1>6, SetInduction
<1>8. Right(2)
  <2>1. 2 \in 2 .. n + 2 /\ 2 + n >= n + 1
    BY <1>1
  <2>2. n \in Done
    <3> HIDE DEF Done
    <3>1. QED
      BY <1>1, <1>7
  <2>3. QED
    BY <2>1, <2>2
<1>9. QED
  BY <1>2, <1>8 DEF Right

(* What a client has for its options is what Parse made of its arguments.  *)
ParsedOnce ==
  /\ argv \in Argvs
  /\ options = [c \in Clients |-> IF Parses(argv[c]) THEN Options(argv[c]) ELSE NoOptions]

(* That is what was given.                                                 *)
LEMMA ParsedAsGiven ==
  ASSUME ParsedOnce
  PROVE  OptionsAsGiven
<1> SUFFICES ASSUME NEW c \in Clients, Parses(argv[c]), NEW key
             PROVE  LET given == {i \in 2 .. Len(argv[c]) :
                                    argv[c][i] = [dashed |-> TRUE, text |-> key]}
                    IN  IF given = {}
                          THEN \A default \in {"", "tcp"} : Option(c, key, default) = default
                          ELSE \E i \in given : /\ \A j \in given : j <= i
                                                /\ Option(c, key, "tcp") = ValueAt(argv[c], i)
  BY DEF OptionsAsGiven
<1> DEFINE args == argv[c]
           given == {i \in 2 .. Len(args) : args[i] = [dashed |-> TRUE, text |-> key]}
<1>1. args \in Seq(Argument)
  BY ReplayCommandAssumption DEF ParsedOnce
<1>2. options[c] = Options(args)
  BY DEF ParsedOnce
<1>3. given = {i \in 2 .. Len(args) : Sets(args, i, key)}
  <2>1. \A i \in 2 .. Len(args) : args[i] \in Argument
    <3> HIDE DEF args
    <3>1. Len(args) \in Nat /\ \A i \in 1 .. Len(args) : args[i] \in Argument
      BY <1>1, ArgumentType
    <3>2. \A i \in 2 .. Len(args) : i \in 1 .. Len(args)
      BY <3>1
    <3>3. QED
      BY <3>1, <3>2
  <2>2. \A a \in Argument : a = [dashed |-> TRUE, text |-> key] <=> a.dashed /\ a.text = key
    BY DEF Argument
  <2>3. QED
    BY <2>1, <2>2 DEF Sets
<1>4. AsSet(args, 2, options[c], key)
  BY <1>1, <1>2, OptionsAsSet
<1> HIDE DEF args, given
<1>5. CASE key \in DOMAIN options[c]
  <2>1. PICK i \in Nat : SetsLast(args, 2, i, key) /\ options[c][key] = ValueAt(args, i)
    BY <1>4, <1>5 DEF AsSet
  <2>2. i \in given /\ \A j \in given : j <= i
    BY <1>3, <2>1 DEF SetsLast
  <2>3. QED
    BY <1>5, <2>1, <2>2 DEF Option, GetOr, args, given
<1>6. CASE key \notin DOMAIN options[c]
  <2>1. given = {}
    BY <1>3, <1>4, <1>6 DEF AsSet
  <2>2. QED
    BY <1>6, <2>1 DEF Option, GetOr, args, given
<1>7. QED
  BY <1>5, <1>6

-----------------------------------------------------------------------------
(* The inductive invariant.                                                *)

Datagrams == [from : Clients, index : Nat, size : Nat]

Cell == {Unset} \cup (Clients \X Nat \X Nat)

Report == [datagram : Datagrams, n : Nat, fields : Seq(Cell)]

(* The datagrams that left, wherever they are now.                         *)
Everywhere == in_flight \cup Queued \cup Reported \cup lost

Shape ==
  /\ pc \in [Clients -> {"main", "running", "exited", "aborted"}]
  /\ exit_code \in [Clients -> {0, 1}]
  /\ position \in [Clients -> Nat] /\ sent_count \in [Clients -> Nat]
  /\ queue \in Seq(Datagrams) /\ reports \in Seq(Report)
  /\ Everywhere \subseteq Datagrams /\ IsFiniteSet(Everywhere)
  /\ buf \in [1 .. BufSize -> Cell]

(* A replay that runs, or has sent, has a capture and a place in it.       *)
PositionOK ==
  \A c \in Clients :
    /\ pc[c] = "main" => position[c] = 0
    /\ (pc[c] = "running" \/ position[c] > 0) =>
         Pcap(c) \in DOMAIN Files /\ position[c] <= Len(Capture(c))
    /\ sent_count[c] <= position[c]

(* What left is what this client attempted, and its size.                  *)
DatagramOK(d) ==
  d.index \in 1 .. position[d.from] /\ d.size = Capture(d.from)[d.index].size

LeftOK == \A d \in Everywhere : DatagramOK(d)

(* As many datagrams left as were counted, whatever the server did.        *)
CountOK ==
  \A c \in Clients :
    IF OverTcp(c) \/ ~ReachesServer(c) THEN Somewhere(c) = {}
                                       ELSE Cardinality(Somewhere(c)) = sent_count[c]

(* The bytes of buf are of datagrams received, each at its place.          *)
Received(k, cell, count) ==
  \/ cell = Unset
  \/ \E j \in 1 .. count : cell = <<reports[j].datagram.from, reports[j].datagram.index, k>>

BufOK == \A k \in 1 .. BufSize : Received(k, buf[k], Len(reports))

ServerOK ==
  /\ duplicated \subseteq Everywhere
  /\ Len(queue) <= QueueCap
  /\ server \in {"up", "down"}
  /\ \A i \in DOMAIN reports : Len(reports[i].fields) \in {0, ReportEnd}

IInv ==
  /\ ParsedOnce
  /\ Shape /\ PositionOK /\ LeftOK /\ CountOK
  /\ ServerOK /\ BufOK /\ ReportsAreOwn

-----------------------------------------------------------------------------
Of(t) == {t[i] : i \in DOMAIN t}

(* The elements of a sequence, when one is added or the first is taken.    *)
LEMMA Elements ==
  ASSUME NEW S, NEW s \in Seq(S)
  PROVE  /\ \A e \in S : Of(Append(s, e)) = Of(s) \cup {e}
         /\ s # <<>> => /\ Of(s) = {Head(s)} \cup Of(Tail(s))
                        /\ Head(s) \in S /\ Tail(s) \in Seq(S)
         /\ Of(s) \subseteq S
<1> USE DEF Of
<1>1. Len(s) \in Nat /\ DOMAIN s = 1 .. Len(s) /\ \A i \in 1 .. Len(s) : s[i] \in S
  OBVIOUS
<1>2. ASSUME NEW e \in S PROVE Of(Append(s, e)) = Of(s) \cup {e}
  <2>1. /\ DOMAIN Append(s, e) = 1 .. Len(s) + 1
        /\ Append(s, e)[Len(s) + 1] = e
        /\ \A i \in 1 .. Len(s) : Append(s, e)[i] = s[i]
    BY <1>1
  <2>2. 1 .. Len(s) + 1 = (1 .. Len(s)) \cup {Len(s) + 1}
    BY <1>1
  <2>3. QED
    BY <1>1, <2>1, <2>2
<1>3. ASSUME s # <<>>
      PROVE  Of(s) = {Head(s)} \cup Of(Tail(s)) /\ Head(s) \in S /\ Tail(s) \in Seq(S)
  <2>1. /\ Len(s) > 0 /\ Head(s) = s[1] /\ Head(s) \in S /\ Tail(s) \in Seq(S)
        /\ DOMAIN Tail(s) = 1 .. Len(s) - 1
        /\ \A i \in 1 .. Len(s) - 1 : Tail(s)[i] = s[i + 1]
    BY <1>3
  <2>2. \A i \in 1 .. Len(s) : i = 1 \/ \E j \in 1 .. Len(s) - 1 : i = j + 1
    <3>1. \A i \in 1 .. Len(s) : i = 1 \/ (i - 1 \in 1 .. Len(s) - 1 /\ i = (i - 1) + 1)
      BY <1>1
    <3>2. QED
      BY <3>1
  <2>3. 1 \in 1 .. Len(s) /\ \A j \in 1 .. Len(s) - 1 : j + 1 \in 1 .. Len(s)
    BY <1>1, <2>1
  <2>4. \A e : e \in Of(s) <=> e \in {Head(s)} \cup Of(Tail(s))
    <3>1. ASSUME NEW e, e \in Of(s) PROVE e \in {Head(s)} \cup Of(Tail(s))
      <4>1. PICK i \in 1 .. Len(s) : e = s[i]
        BY <1>1, <3>1
      <4>2. CASE i = 1
        BY <2>1, <4>1, <4>2
      <4>3. CASE i # 1
        <5>1. PICK j \in 1 .. Len(s) - 1 : i = j + 1
          BY <2>2, <4>3
        <5>2. j \in DOMAIN Tail(s) /\ Tail(s)[j] = e
          BY <2>1, <4>1, <5>1
        <5>3. QED
          BY <5>2
      <4>4. QED
        BY <4>2, <4>3
    <3>2. Head(s) \in Of(s)
      BY <1>1, <2>1, <2>3
    <3>3. ASSUME NEW e, e \in Of(Tail(s)) PROVE e \in Of(s)
      <4>1. PICK j \in 1 .. Len(s) - 1 : e = Tail(s)[j]
        BY <2>1, <3>3
      <4>2. e = s[j + 1] /\ j + 1 \in DOMAIN s
        BY <1>1, <2>1, <2>3, <4>1
      <4>3. QED
        BY <4>2
    <3> HIDE DEF Of
    <3>4. QED
      BY <3>1, <3>2, <3>3
  <2>5. QED
    BY <2>1, <2>4
<1>4. Of(s) \subseteq S
  BY <1>1
<1>5. QED
  BY <1>2, <1>3, <1>4

-----------------------------------------------------------------------------
(* What the steps do.                                                      *)

(* A client does not change its mind about its options.                    *)
LEMMA OptionsStay ==
  ASSUME Next \/ UNCHANGED vars
  PROVE  /\ argv' = argv /\ options' = options
         /\ \A c \in Clients : /\ Pcap(c)' = Pcap(c) /\ Capture(c)' = Capture(c)
                               /\ OverTcp(c)' = OverTcp(c) /\ ReachesServer(c)' = ReachesServer(c)
<1>1. argv' = argv /\ options' = options
  BY DEF Next, Client, ClientStep, ExitMain, Exit, AbortReplay, RefuseReplay, StartReplay,
         SendDatagram, SendSegment, Attempted, CrashOnBarePacket, EndReplay,
         Network, Deliver, Drop, Recv, StopServer, vars, clientVars
<1>2. QED
  BY <1>1 DEF Pcap, Capture, OverTcp, ReachesServer, Target, Option

(* A client moves on without a send.                                       *)
Moves(c) ==
  /\ pc' = [pc EXCEPT ![c] = pc'[c]]
  /\ pc'[c] \in {"running", "exited", "aborted"}
  /\ pc'[c] = "running" => pc[c] = "main" /\ Pcap(c) \in DOMAIN Files
  /\ exit_code' \in [Clients -> {0, 1}]
  /\ UNCHANGED <<position, sent_count, networkVars, serverVars>>

(* A client sends, and the datagram may be in flight then.                 *)
Sends(c, counted) ==
  /\ MorePackets(c) /\ NextPacket(c).has_buffer
  /\ Attempted(c, counted)
  /\ in_flight' = in_flight \cup {d \in {Datagram(c)} : counted /\ ~OverTcp(c) /\ ReachesServer(c)}
  /\ UNCHANGED <<duplicated, lost, serverVars>>

(* A client that exits moves.                                              *)
LEMMA ExitMoves ==
  ASSUME Shape, NEW c \in Clients, NEW code \in {0, 1}, Exit(c, code)
  PROVE  Moves(c)
BY DEF Shape, Exit, Moves

(* Every step of a client is one of these.                                 *)
LEMMA ClientSteps ==
  ASSUME Shape, NEW c \in Clients, Client(c)
  PROVE  Moves(c) \/ \E counted \in BOOLEAN : Sends(c, counted)
<1>1. CASE ExitMain(c) \/ RefuseReplay(c) \/ EndReplay(c)
  <2>1. \E code \in {0, 1} : Exit(c, code)
    BY <1>1 DEF ExitMain, RefuseReplay, EndReplay
  <2>2. QED
    BY <2>1, ExitMoves
<1>2. CASE StartReplay(c)
  <2>1. CASE Exit(c, 0)
    BY <2>1, ExitMoves
  <2>2. CASE ~Exit(c, 0)
    BY <1>2, <2>2 DEF StartReplay, InReplay, Moves, Shape
  <2>3. QED
    BY <2>1, <2>2
<1>3. CASE AbortReplay(c)
  BY <1>3 DEF AbortReplay, Moves, Shape
<1>4. CASE CrashOnBarePacket(c)
  BY <1>4 DEF CrashOnBarePacket, Moves, Shape
<1>5. CASE SendDatagram(c)
  <2>1. CASE Attempted(c, TRUE) /\ in_flight' = in_flight \cup {d \in {Datagram(c)} : ReachesServer(c)}
    <3>1. Sends(c, TRUE)
      BY <1>5, <2>1 DEF SendDatagram, Sends
    <3>2. QED
      BY <3>1
  <2>2. CASE Attempted(c, FALSE) /\ UNCHANGED in_flight
    <3>1. Sends(c, FALSE)
      BY <1>5, <2>2 DEF SendDatagram, Sends
    <3>2. QED
      BY <3>1
  <2>3. QED
    BY <1>5, <2>1, <2>2 DEF SendDatagram
<1>6. CASE SendSegment(c)
  <2>1. CASE \E counted \in BOOLEAN : Attempted(c, counted)
    <3>1. PICK counted \in BOOLEAN : Attempted(c, counted)
      BY <2>1
    <3>2. Sends(c, counted)
      BY <1>6, <3>1 DEF SendSegment, Sends, networkVars
    <3>3. QED
      BY <3>2
  <2>2. CASE /\ pc' = [pc EXCEPT ![c] = "aborted"]
             /\ UNCHANGED <<argv, options, exit_code, position, sent_count>>
    BY <1>6, <2>2 DEF SendSegment, Moves, Shape
  <2>3. QED
    BY <1>6, <2>1, <2>2 DEF SendSegment
<1>7. QED
  BY <1>1, <1>2, <1>3, <1>4, <1>5, <1>6 DEF Client, ClientStep

(* The packet a client sends, and the datagram.                            *)
LEMMA NextDatagram ==
  ASSUME Shape, PositionOK, NEW c \in Clients, NEW counted \in BOOLEAN, Sends(c, counted)
  PROVE  /\ Len(Capture(c)) \in Nat
         /\ position[c] + 1 \in 1 .. Len(Capture(c))
         /\ Datagram(c) \in Datagrams
         /\ Datagram(c).from = c /\ Datagram(c).index = position[c] + 1
         /\ Datagram(c).size = Capture(c)[position[c] + 1].size
<1>1. position[c] \in Nat /\ Pcap(c) \in DOMAIN Files /\ position[c] < Len(Capture(c))
  BY DEF Shape, PositionOK, Sends, MorePackets
<1>2. Capture(c) \in Seq(Packet)
  BY <1>1, ReplayCommandAssumption DEF Capture
<1>3. Len(Capture(c)) \in Nat /\ position[c] + 1 \in 1 .. Len(Capture(c))
  BY <1>1, <1>2
<1>4. Capture(c)[position[c] + 1] \in Packet
  BY <1>2, <1>3
<1>5. NextPacket(c).size \in Nat
  BY <1>4 DEF NextPacket, Packet
<1>6. QED
  BY <1>1, <1>3, <1>5 DEF Datagram, Datagrams, NextPacket

(* The steps of the network and of the server leave every datagram         *)
(* somewhere.                                                              *)
LEMMA EverywhereStays ==
  ASSUME Shape, Network \/ Recv \/ StopServer
  PROVE  Everywhere' = Everywhere
<1>1. /\ queue \in Seq(Datagrams) /\ reports \in Seq(Report)
      /\ in_flight \subseteq Datagrams
  BY DEF Shape, Everywhere
<1> USE DEF Everywhere
<1>2. ASSUME NEW d \in in_flight, Deliver(d)
      PROVE  Everywhere' = Everywhere
  <2>1. Queued' = Queued \cup {d}
    <3>1. Queued = Of(queue) /\ Queued' = Of(Append(queue, d))
      BY <1>2 DEF Deliver, Queued, Of
    <3>2. QED
      BY <1>1, <3>1, Elements
  <2>2. Reported' = Reported /\ lost' = lost /\ in_flight' \in {in_flight, in_flight \ {d}}
    BY <1>2 DEF Deliver, Reported
  <2>3. QED
    BY <2>1, <2>2
<1>3. ASSUME NEW d \in in_flight, Drop(d)
      PROVE  Everywhere' = Everywhere
  BY <1>3 DEF Drop, Queued, Reported, serverVars
<1>4. CASE Recv
  <2>1. Queued = {Head(queue)} \cup Queued' /\ Head(queue) \in Datagrams
    <3>1. queue # <<>> /\ queue' = Tail(queue)
      BY <1>4 DEF Recv
    <3>2. Queued = Of(queue) /\ Queued' = Of(Tail(queue))
      BY <3>1 DEF Queued, Of
    <3>3. QED
      BY <1>1, <3>1, <3>2, Elements
  <2>2. Reported' = Reported \cup {Head(queue)}
    <3>1. PICK r : reports' = Append(reports, r) /\ r.datagram = Head(queue)
      BY <1>4 DEF Recv
    <3>2. /\ DOMAIN reports = 1 .. Len(reports) /\ Len(reports) \in Nat
          /\ DOMAIN reports' = 1 .. Len(reports) + 1
          /\ reports'[Len(reports) + 1] = r
          /\ \A i \in 1 .. Len(reports) : reports'[i] = reports[i]
      BY <1>1, <3>1
    <3>3. DOMAIN reports' = DOMAIN reports \cup {Len(reports) + 1}
      BY <3>2
    <3>4. QED
      BY <3>1, <3>2, <3>3 DEF Reported
  <2>3. in_flight' = in_flight /\ lost' = lost
    BY <1>4 DEF Recv, networkVars
  <2>4. QED
    BY <2>1, <2>2, <2>3
<1>5. CASE StopServer
  <2>1. Queued' = {} /\ lost' = lost \cup Queued /\ in_flight' = in_flight /\ Reported' = Reported
    BY <1>5 DEF StopServer, Queued, Reported
  <2>2. QED
    BY <2>1
<1>6. QED
  BY <1>2, <1>3, <1>4, <1>5 DEF Network

(* What a client's step puts on its way.                                   *)
LEMMA EverywhereOfClients ==
  ASSUME NEW c \in Clients
  PROVE  /\ Moves(c) => Everywhere' = Everywhere
         /\ \A counted \in BOOLEAN : Sends(c, counted) =>
              Everywhere' = Everywhere \cup
                {d \in {Datagram(c)} : counted /\ ~OverTcp(c) /\ ReachesServer(c)}
BY DEF Moves, Sends, Everywhere, Queued, Reported, networkVars, serverVars

-----------------------------------------------------------------------------
(* What the steps preserve.                                                *)

(* The sizes fit into each other.                                          *)
LEMMA SizesType ==
  /\ BufSize \in Nat /\ BufSize > 0 /\ ReportMin \in Nat /\ ReportEnd \in Nat
  /\ ReportMin > 0 /\ ReportMin <= ReportEnd /\ ReportEnd <= BufSize
BY ReplayCommandAssumption

(* The buffer after a datagram, and what is printed of it.                 *)
LEMMA RecvShape ==
  ASSUME Shape, Recv
  PROVE  \E d \in Datagrams, r \in Report :
           /\ buf' = Filled(d) /\ Filled(d) \in [1 .. BufSize -> Cell]
           /\ reports' = Append(reports, r)
           /\ r.datagram = d /\ r.n = Smaller(d.size, BufSize)
           /\ \/ r.fields = <<>>
              \/ /\ r.n >= ReportMin
                 /\ Len(r.fields) = ReportEnd
                 /\ \A k \in 1 .. ReportEnd : r.fields[k] = Filled(d)[k]
<1> DEFINE d == Head(queue)
           n == Smaller(d.size, BufSize)
           printed == IF n >= ReportMin /\ Magic(d) THEN SubSeq(Filled(d), 1, ReportEnd) ELSE <<>>
           r == [datagram |-> d, n |-> n, fields |-> printed]
<1>1. d \in Datagrams
  <2>1. queue # <<>> /\ queue \in Seq(Datagrams)
    BY DEF Recv, Shape
  <2>2. QED
    BY <2>1, Elements
<1>2. d.from \in Clients /\ d.index \in Nat /\ d.size \in Nat
  BY <1>1 DEF Datagrams
<1>3. buf' = Filled(d) /\ reports' = Append(reports, r)
  BY DEF Recv
<1> HIDE DEF d
<1>4. Filled(d) \in [1 .. BufSize -> Cell]
  <2>1. \A k \in 1 .. BufSize : <<d.from, d.index, k>> \in Cell /\ buf[k] \in Cell
    BY <1>2, SizesType DEF Cell, Shape
  <2>2. QED
    BY <2>1 DEF Filled
<1>5. n \in Nat
  BY <1>2, SizesType DEF Smaller
<1>6. /\ SubSeq(Filled(d), 1, ReportEnd) \in Seq(Cell)
      /\ Len(SubSeq(Filled(d), 1, ReportEnd)) = ReportEnd
      /\ \A k \in 1 .. ReportEnd : SubSeq(Filled(d), 1, ReportEnd)[k] = Filled(d)[k]
  <2> DEFINE f == Filled(d)
  <2>1. f \in Seq(Cell) /\ Len(f) = BufSize
    <3>1. f \in Seq(Cell)
      BY <1>4, SizesType, SeqDef
    <3>2. DOMAIN f = 1 .. BufSize /\ DOMAIN f = 1 .. Len(f) /\ Len(f) \in Nat
      BY <1>4, <3>1, LenProperties
    <3>3. QED
      BY <3>1, <3>2, SizesType
  <2> HIDE DEF f
  <2>2. \A k \in 1 .. ReportEnd : k \in 1 .. Len(f) /\ f[k] \in Cell /\ 1 + k - 1 = k
    BY <2>1, SizesType
  <2>3. /\ SubSeq(f, 1, ReportEnd) \in Seq(Cell)
        /\ Len(SubSeq(f, 1, ReportEnd)) = ReportEnd
    BY <2>2, SizesType, SubSeqProperties
  <2>4. \A k \in 1 .. ReportEnd : SubSeq(f, 1, ReportEnd)[k] = f[k]
    BY <2>1, <2>2, SizesType, SubSeqProperties
  <2>5. QED
    BY <2>3, <2>4 DEF f
<1>7. printed \in Seq(Cell)
  BY <1>6
<1>8. r \in Report
  BY <1>1, <1>5, <1>7 DEF Report
<1>9. QED
  BY <1>3, <1>4, <1>6, <1>8, <1>1

(* Every step is one of these.                                             *)
LEMMA Steps ==
  ASSUME Shape, Next
  PROVE  \/ \E c \in Clients : Moves(c)
         \/ \E c \in Clients, counted \in BOOLEAN : Sends(c, counted)
         \/ Network \/ Recv \/ StopServer
BY ClientSteps DEF Next

(* The steps that are no client's leave the clients alone.                 *)
LEMMA ClientsStay ==
  ASSUME Network \/ Recv \/ StopServer
  PROVE  UNCHANGED <<pc, exit_code, position, sent_count>>
BY DEF Network, Deliver, Drop, Recv, StopServer, clientVars

(* Every step keeps the shape of the state.                                *)
LEMMA ShapeStep ==
  ASSUME Shape, PositionOK, Next
  PROVE  Shape'
<1>1. ASSUME NEW c \in Clients, Moves(c) PROVE Shape'
  <2>1. Everywhere' = Everywhere
    BY <1>1, EverywhereOfClients
  <2>2. QED
    BY <1>1, <2>1 DEF Moves, Shape, serverVars
<1>2. ASSUME NEW c \in Clients, NEW counted \in BOOLEAN, Sends(c, counted) PROVE Shape'
  <2> DEFINE more == {d \in {Datagram(c)} : counted /\ ~OverTcp(c) /\ ReachesServer(c)}
  <2>1. Everywhere' = Everywhere \cup more
    BY <1>2, EverywhereOfClients
  <2>2. more \subseteq Datagrams
    BY <1>2, NextDatagram
  <2>3. IsFiniteSet(more)
    <3>1. more \in SUBSET {Datagram(c)}
      OBVIOUS
    <3> HIDE DEF more
    <3>2. IsFiniteSet({Datagram(c)})
      BY FS_Singleton
    <3>3. QED
      BY <3>1, <3>2, FS_Subset
  <2> HIDE DEF more
  <2>4. Everywhere' \subseteq Datagrams /\ IsFiniteSet(Everywhere')
    BY <2>1, <2>2, <2>3, FS_Union DEF Shape
  <2>5. position' \in [Clients -> Nat] /\ sent_count' \in [Clients -> Nat]
    BY <1>2 DEF Sends, Attempted, Shape
  <2>6. UNCHANGED <<pc, exit_code, queue, reports, buf>>
    BY <1>2 DEF Sends, Attempted, serverVars
  <2>7. QED
    BY <2>4, <2>5, <2>6 DEF Shape
<1>3. CASE Network
  <2>1. UNCHANGED <<pc, exit_code, position, sent_count, reports, buf>> /\ Everywhere' = Everywhere
    BY <1>3, ClientsStay, EverywhereStays DEF Network, Deliver, Drop, serverVars
  <2>2. queue' \in Seq(Datagrams)
    <3>1. ASSUME NEW d \in in_flight, Deliver(d) PROVE queue' \in Seq(Datagrams)
      <4>1. d \in Datagrams /\ queue \in Seq(Datagrams) /\ queue' = Append(queue, d)
        BY <3>1 DEF Deliver, Shape, Everywhere
      <4>2. QED
        BY <4>1
    <3>2. ASSUME NEW d \in in_flight, Drop(d) PROVE queue' \in Seq(Datagrams)
      BY <3>2 DEF Drop, Shape, serverVars
    <3>3. QED
      BY <1>3, <3>1, <3>2 DEF Network
  <2>3. QED
    BY <2>1, <2>2 DEF Shape
<1>4. CASE Recv
  <2>1. UNCHANGED <<pc, exit_code, position, sent_count>> /\ Everywhere' = Everywhere
    BY <1>4, ClientsStay, EverywhereStays
  <2>2. queue' \in Seq(Datagrams)
    <3>1. queue # <<>> /\ queue' = Tail(queue) /\ queue \in Seq(Datagrams)
      BY <1>4 DEF Recv, Shape
    <3>2. QED
      BY <3>1, Elements
  <2>3. reports' \in Seq(Report) /\ buf' \in [1 .. BufSize -> Cell]
    <3>1. reports \in Seq(Report)
      BY DEF Shape
    <3>2. PICK d \in Datagrams, r \in Report :
            /\ buf' = Filled(d) /\ Filled(d) \in [1 .. BufSize -> Cell]
            /\ reports' = Append(reports, r)
      BY <1>4, RecvShape
    <3>3. QED
      BY <3>1, <3>2
  <2>4. QED
    BY <2>1, <2>2, <2>3 DEF Shape
<1>5. CASE StopServer
  <2>1. UNCHANGED <<pc, exit_code, position, sent_count>> /\ Everywhere' = Everywhere
    BY <1>5, ClientsStay, EverywhereStays
  <2>2. queue' = <<>> /\ UNCHANGED <<reports, buf>>
    BY <1>5 DEF StopServer
  <2>3. QED
    BY <2>1, <2>2 DEF Shape
<1>6. QED
  BY <1>1, <1>2, <1>3, <1>4, <1>5, Steps

(* A replay goes no further than its capture, and counts no more than it   *)
(* sends.                                                                  *)
LEMMA PositionStep ==
  ASSUME Shape, PositionOK, Next
  PROVE  PositionOK'
<1>1. \A c \in Clients : Pcap(c)' = Pcap(c) /\ Capture(c)' = Capture(c)
  BY OptionsStay
<1>2. ASSUME NEW c \in Clients, Moves(c) PROVE PositionOK'
  <2>1. pc[c] = "main" /\ pc'[c] = "running" => 0 <= Len(Capture(c))
    <3>1. Pcap(c) \in DOMAIN Files => Capture(c) \in Seq(Packet)
      BY ReplayCommandAssumption DEF Capture
    <3>2. QED
      BY <1>2, <3>1 DEF Moves
  <2>2. QED
    BY <1>1, <1>2, <2>1 DEF Moves, PositionOK, Shape
<1>3. ASSUME NEW c \in Clients, NEW counted \in BOOLEAN, Sends(c, counted) PROVE PositionOK'
  <2>1. position[c] + 1 \in 1 .. Len(Capture(c))
    BY <1>3, NextDatagram
  <2>2. pc[c] = "running"
    BY <1>3 DEF Sends, MorePackets
  <2>3. QED
    BY <1>1, <1>3, <2>1, <2>2 DEF Sends, Attempted, PositionOK, Shape
<1>4. CASE Network \/ Recv \/ StopServer
  BY <1>1, <1>4, ClientsStay DEF PositionOK
<1>5. QED
  BY <1>2, <1>3, <1>4, Steps

(* A datagram keeps its place in the capture; a new one gets the next.     *)
LEMMA LeftStep ==
  ASSUME Shape, PositionOK, LeftOK, Next
  PROVE  LeftOK'
<1>1. \A c \in Clients : Capture(c)' = Capture(c)
  BY OptionsStay
<1>2. \A d \in Everywhere : d.from \in Clients
  BY DEF Shape, Datagrams
<1>3. ASSUME Everywhere' = Everywhere, position' = position PROVE LeftOK'
  BY <1>1, <1>2, <1>3 DEF LeftOK, DatagramOK
<1>4. ASSUME NEW c \in Clients, NEW counted \in BOOLEAN, Sends(c, counted) PROVE LeftOK'
  <2>1. Everywhere' \subseteq Everywhere \cup {Datagram(c)}
    BY <1>4, EverywhereOfClients
  <2>2. position' = [position EXCEPT ![c] = position[c] + 1]
    BY <1>4 DEF Sends, Attempted
  <2>3. position \in [Clients -> Nat]
    BY DEF Shape
  <2>4. ASSUME NEW d \in Everywhere PROVE DatagramOK(d)'
    <3>1. d.from \in Clients /\ d.index \in 1 .. position[d.from]
      BY <1>2 DEF LeftOK, DatagramOK
    <3>2. d.index \in 1 .. position'[d.from]
      BY <2>2, <2>3, <3>1
    <3>3. QED
      BY <1>1, <3>1, <3>2 DEF LeftOK, DatagramOK
  <2>5. ASSUME NEW d, d = Datagram(c) PROVE DatagramOK(d)'
    <3>1. /\ d.from = c /\ d.index = position[c] + 1
          /\ d.size = Capture(c)[position[c] + 1].size
      BY <1>4, <2>5, NextDatagram
    <3>2. d.index \in 1 .. position'[c]
      BY <2>2, <2>3, <3>1
    <3>3. Capture(d.from)' = Capture(c)
      BY <1>1, <3>1
    <3>4. QED
      BY <3>1, <3>2, <3>3 DEF DatagramOK
  <2>6. QED
    BY <2>1, <2>4, <2>5 DEF LeftOK
<1>5. ASSUME NEW c \in Clients, Moves(c) PROVE LeftOK'
  BY <1>3, <1>5, EverywhereOfClients DEF Moves
<1>6. CASE Network \/ Recv \/ StopServer
  BY <1>3, <1>6, EverywhereStays, ClientsStay
<1>7. QED
  BY <1>4, <1>5, <1>6, Steps

(* A send that counts puts one more datagram on its way, no other step     *)
(* does.                                                                   *)
LEMMA CountStep ==
  ASSUME Shape, PositionOK, LeftOK, CountOK, Next
  PROVE  CountOK'
<1>1. \A c \in Clients : OverTcp(c)' = OverTcp(c) /\ ReachesServer(c)' = ReachesServer(c)
  BY OptionsStay
<1>2. \A c \in Clients : /\ Somewhere(c) = {d \in Everywhere : d.from = c}
                         /\ Somewhere(c)' = {d \in Everywhere' : d.from = c}
  BY DEF Somewhere, Everywhere
<1>3. ASSUME Everywhere' = Everywhere, sent_count' = sent_count PROVE CountOK'
  BY <1>1, <1>2, <1>3 DEF CountOK
<1>4. ASSUME NEW c \in Clients, NEW counted \in BOOLEAN, Sends(c, counted) PROVE CountOK'
  <2>1. /\ Datagram(c) \in Datagrams /\ Datagram(c).from = c
        /\ Datagram(c).index = position[c] + 1
    BY <1>4, NextDatagram
  <2>2. sent_count' = [sent_count EXCEPT ![c] = sent_count[c] + (IF counted THEN 1 ELSE 0)]
    BY <1>4 DEF Sends, Attempted
  <2>3. Everywhere' = Everywhere \cup
          {d \in {Datagram(c)} : counted /\ ~OverTcp(c) /\ ReachesServer(c)}
    BY <1>4, EverywhereOfClients
  <2> SUFFICES ASSUME NEW e \in Clients
               PROVE  IF OverTcp(e) \/ ~ReachesServer(e)
                        THEN Somewhere(e)' = {} ELSE Cardinality(Somewhere(e)') = sent_count'[e]
    BY <1>1 DEF CountOK
  <2>4. CASE OverTcp(e) \/ ~ReachesServer(e)
    <3>1. Somewhere(e) = {}
      BY <2>4 DEF CountOK
    <3>2. Somewhere(e)' = {}
      BY <1>2, <2>1, <2>3, <2>4, <3>1
    <3>3. QED
      BY <2>4, <3>2
  <2>5. CASE ~(OverTcp(e) \/ ~ReachesServer(e))
    <3>1. Cardinality(Somewhere(e)) = sent_count[e] /\ sent_count[e] \in Nat
      BY <2>5 DEF CountOK, Shape
    <3>2. CASE e # c \/ ~counted
      <4>1. Somewhere(e)' = Somewhere(e)
        BY <1>2, <2>1, <2>3, <3>2
      <4>2. sent_count'[e] = sent_count[e]
        BY <2>2, <3>1, <3>2 DEF Shape
      <4>3. QED
        BY <2>5, <3>1, <4>1, <4>2
    <3>3. CASE e = c /\ counted
      <4>1. Somewhere(e)' = Somewhere(e) \cup {Datagram(c)}
        BY <1>2, <2>1, <2>3, <2>5, <3>3
      <4>2. Datagram(c) \notin Somewhere(e)
        <5>1. position[c] \in Nat
          BY DEF Shape
        <5>2. \A d \in Somewhere(e) : d.index \in 1 .. position[c]
          BY <1>2, <3>3 DEF LeftOK, DatagramOK
        <5>3. QED
          BY <2>1, <5>1, <5>2
      <4>3. IsFiniteSet(Somewhere(e))
        BY <1>2, FS_Subset DEF Shape
      <4>4. Cardinality(Somewhere(e)') = sent_count[e] + 1
        BY <3>1, <4>1, <4>2, <4>3, FS_AddElement
      <4>5. sent_count'[e] = sent_count[e] + 1
        BY <2>2, <3>3 DEF Shape
      <4>6. QED
        BY <2>5, <4>4, <4>5
    <3>4. QED
      BY <3>2, <3>3
  <2>6. QED
    BY <2>4, <2>5
<1>5. ASSUME NEW c \in Clients, Moves(c) PROVE CountOK'
  BY <1>3, <1>5, EverywhereOfClients DEF Moves
<1>6. CASE Network \/ Recv \/ StopServer
  BY <1>3, <1>6, EverywhereStays, ClientsStay
<1>7. QED
  BY <1>4, <1>5, <1>6, Steps

(* The network keeps a datagram only while it is somewhere, and the queue  *)
(* holds no more than it may.                                              *)
LEMMA ServerStep ==
  ASSUME Shape, PositionOK, ServerOK, Next
  PROVE  ServerOK'
<1> USE DEF ServerOK
<1>1. ASSUME NEW c \in Clients, Moves(c) PROVE ServerOK'
  BY <1>1, EverywhereOfClients DEF Moves, networkVars, serverVars
<1>2. ASSUME NEW c \in Clients, NEW counted \in BOOLEAN, Sends(c, counted) PROVE ServerOK'
  <2>1. Everywhere \subseteq Everywhere'
    BY <1>2, EverywhereOfClients
  <2>2. QED
    BY <1>2, <2>1 DEF Sends, serverVars
<1>3. ASSUME NEW d \in in_flight, Deliver(d) PROVE ServerOK'
  <2>1. Everywhere' = Everywhere /\ d \in Everywhere
    BY <1>3, EverywhereStays DEF Network, Everywhere
  <2>2. duplicated' \subseteq duplicated \cup {d} /\ UNCHANGED <<server, reports>>
    BY <1>3 DEF Deliver
  <2>3. Len(queue') <= QueueCap
    <3>1. queue \in Seq(Datagrams) /\ d \in Datagrams /\ QueueCap \in Nat
      BY ReplayCommandAssumption DEF Shape, Everywhere
    <3>2. queue' = Append(queue, d) /\ Len(queue) < QueueCap
      BY <1>3 DEF Deliver
    <3>3. QED
      BY <3>1, <3>2
  <2>4. QED
    BY <2>1, <2>2, <2>3
<1>4. ASSUME NEW d \in in_flight, Drop(d) PROVE ServerOK'
  <2>1. Everywhere' = Everywhere
    BY <1>4, EverywhereStays DEF Network
  <2>2. QED
    BY <1>4, <2>1 DEF Drop, serverVars
<1>5. CASE Recv
  <2>1. Everywhere' = Everywhere /\ UNCHANGED <<duplicated, server>>
    BY <1>5, EverywhereStays DEF Recv, networkVars
  <2>2. Len(queue') <= QueueCap
    <3>1. queue # <<>> /\ queue' = Tail(queue) /\ queue \in Seq(Datagrams) /\ QueueCap \in Nat
      BY <1>5, ReplayCommandAssumption DEF Recv, Shape
    <3>2. QED
      BY <3>1
  <2>3. \A i \in DOMAIN reports' : Len(reports'[i].fields) \in {0, ReportEnd}
    <3>1. PICK r \in Report :
            /\ reports' = Append(reports, r)
            /\ r.fields = <<>> \/ Len(r.fields) = ReportEnd
      BY <1>5, RecvShape
    <3>2. /\ DOMAIN reports = 1 .. Len(reports) /\ Len(reports) \in Nat
          /\ DOMAIN reports' = 1 .. Len(reports) + 1
          /\ reports'[Len(reports) + 1] = r
          /\ \A i \in 1 .. Len(reports) : reports'[i] = reports[i]
      BY <3>1 DEF Shape
    <3>3. Len(r.fields) \in {0, ReportEnd}
      BY <3>1
    <3>4. QED
      BY <3>2, <3>3
  <2>4. QED
    BY <2>1, <2>2, <2>3
<1>6. CASE StopServer
  <2>1. Everywhere' = Everywhere
    BY <1>6, EverywhereStays
  <2>2. queue' = <<>> /\ server' = "down" /\ UNCHANGED <<duplicated, reports>>
    BY <1>6 DEF StopServer
  <2>3. 0 <= QueueCap
    BY ReplayCommandAssumption
  <2>4. QED
    BY <2>1, <2>2, <2>3
<1>7. QED
  BY <1>1, <1>2, <1>3, <1>4, <1>5, <1>6, Steps DEF Network

(* The steps that receive nothing leave buf and the reports alone.         *)
LEMMA OnlyRecvReports ==
  ASSUME Shape, Next, ~Recv
  PROVE  UNCHANGED <<buf, reports>>
<1>1. ASSUME NEW c \in Clients, Moves(c) PROVE UNCHANGED <<buf, reports>>
  BY <1>1 DEF Moves, serverVars
<1>2. ASSUME NEW c \in Clients, NEW counted \in BOOLEAN, Sends(c, counted)
      PROVE  UNCHANGED <<buf, reports>>
  BY <1>2 DEF Sends, serverVars
<1>3. CASE Network \/ StopServer
  BY <1>3 DEF Network, Deliver, Drop, StopServer, serverVars
<1>4. QED
  BY <1>1, <1>2, <1>3, Steps

(* The history after a datagram: one more report, and the same before.     *)
LEMMA ReportAdded ==
  ASSUME Shape, NEW r \in Report, reports' = Append(reports, r)
  PROVE  /\ Len(reports) \in Nat /\ DOMAIN reports = 1 .. Len(reports)
         /\ Len(reports') = Len(reports) + 1 /\ DOMAIN reports' = 1 .. Len(reports) + 1
         /\ reports'[Len(reports) + 1] = r
         /\ \A i \in 1 .. Len(reports) : reports'[i] = reports[i]
         /\ \A i \in 1 .. Len(reports) + 1 : i \in 1 .. Len(reports) \/ i = Len(reports) + 1
         /\ \A k, cell : Received(k, cell, Len(reports)) => Received(k, cell, Len(reports))'
<1>1. reports \in Seq(Report)
  BY DEF Shape
<1>2. /\ Len(reports) \in Nat /\ DOMAIN reports = 1 .. Len(reports)
      /\ Len(reports') = Len(reports) + 1 /\ DOMAIN reports' = 1 .. Len(reports) + 1
      /\ reports'[Len(reports) + 1] = r
      /\ \A i \in 1 .. Len(reports) : reports'[i] = reports[i]
  BY <1>1
<1>3. /\ \A i \in 1 .. Len(reports) + 1 : i \in 1 .. Len(reports) \/ i = Len(reports) + 1
      /\ \A i \in 1 .. Len(reports) : i \in 1 .. Len(reports) + 1
  BY <1>2
<1>4. QED
  BY <1>2, <1>3 DEF Received

(* A byte of buf is of the last datagram, or was there before.             *)
LEMMA BufStep ==
  ASSUME Shape, BufOK, Next
  PROVE  BufOK'
<1>1. CASE Recv
  <2>1. PICK d \in Datagrams, r \in Report :
          buf' = Filled(d) /\ reports' = Append(reports, r) /\ r.datagram = d
    BY <1>1, RecvShape
  <2> SUFFICES ASSUME NEW k \in 1 .. BufSize PROVE Received(k, buf[k], Len(reports))'
    BY DEF BufOK
  <2>2. CASE k <= d.size
    <3>1. buf'[k] = <<d.from, d.index, k>>
      BY <2>1, <2>2 DEF Filled
    <3>2. Len(reports') \in 1 .. Len(reports') /\ reports'[Len(reports')].datagram = d
      BY <2>1, ReportAdded
    <3>3. QED
      BY <3>1, <3>2 DEF Received
  <2>3. CASE ~(k <= d.size)
    <3>1. buf'[k] = buf[k]
      BY <2>1, <2>3 DEF Filled
    <3>2. Received(k, buf[k], Len(reports))
      BY DEF BufOK
    <3>3. \A cell : Received(k, cell, Len(reports)) => Received(k, cell, Len(reports))'
      BY <2>1, ReportAdded
    <3>4. PICK cell : cell = buf[k]
      OBVIOUS
    <3>5. Received(k, cell, Len(reports))'
      BY <3>2, <3>3, <3>4
    <3>6. QED
      BY <3>1, <3>4, <3>5 DEF Received
  <2>4. QED
    BY <2>2, <2>3
<1>2. CASE ~Recv
  BY <1>2, OnlyRecvReports DEF BufOK, Received
<1>3. QED
  BY <1>1, <1>2

(* A message that is printed brings its first bytes; what is not its own   *)
(* was in buf before.                                                      *)
LEMMA OwnStep ==
  ASSUME Shape, BufOK, ReportsAreOwn, Next
  PROVE  ReportsAreOwn'
<1> DEFINE Own(q, i, k) ==
             LET d    == q[i].datagram
                 cell == q[i].fields[k]
             IN  \/ cell = <<d.from, d.index, k>>
                 \/ /\ k > ReportMin /\ k > q[i].n
                    /\ \/ cell = Unset
                       \/ \E j \in 1 .. i - 1 : LET e == q[j].datagram
                                               IN  cell = <<e.from, e.index, k>>
<1>1. \A i \in DOMAIN reports : \A k \in DOMAIN reports[i].fields : Own(reports, i, k)
  BY DEF ReportsAreOwn
<1>2. SUFFICES \A i \in DOMAIN reports' : \A k \in DOMAIN reports'[i].fields : Own(reports', i, k)
  BY DEF ReportsAreOwn
<1>3. CASE Recv
  <2>1. PICK d \in Datagrams, r \in Report :
          /\ reports' = Append(reports, r)
          /\ r.datagram = d /\ r.n = Smaller(d.size, BufSize)
          /\ \/ r.fields = <<>>
             \/ /\ r.n >= ReportMin
                /\ Len(r.fields) = ReportEnd
                /\ \A k \in 1 .. ReportEnd : r.fields[k] = Filled(d)[k]
    BY <1>3, RecvShape
  <2> DEFINE last == Len(reports) + 1
  <2>2. /\ Len(reports) \in Nat /\ DOMAIN reports = 1 .. Len(reports)
        /\ DOMAIN reports' = 1 .. last /\ reports'[last] = r
        /\ \A i \in 1 .. Len(reports) : reports'[i] = reports[i]
        /\ \A i \in 1 .. last : i \in 1 .. Len(reports) \/ i = last
    BY <2>1, ReportAdded
  <2>3. ASSUME NEW i \in 1 .. Len(reports), NEW k \in DOMAIN reports'[i].fields
        PROVE  Own(reports', i, k)
    <3>1. Own(reports, i, k) /\ reports'[i] = reports[i]
      BY <1>1, <2>2
    <3>2. \A j \in 1 .. i - 1 : reports'[j] = reports[j]
      BY <2>2
    <3>3. QED
      BY <3>1, <3>2
  <2>4. ASSUME NEW k \in DOMAIN r.fields PROVE Own(reports', last, k)
    <3>1. /\ r.n >= ReportMin /\ k \in 1 .. ReportEnd /\ r.fields[k] = Filled(d)[k]
      <4>1. r.fields \in Seq(Cell)
        BY DEF Report
      <4>2. r.fields # <<>>
        OBVIOUS
      <4>3. DOMAIN r.fields = 1 .. Len(r.fields)
        BY <4>1
      <4>4. QED
        BY <2>1, <4>2, <4>3
    <3>2. k \in 1 .. BufSize /\ d.size \in Nat
      BY <3>1, SizesType DEF Datagrams
    <3>3. CASE k <= d.size
      <4>1. r.fields[k] = <<d.from, d.index, k>>
        BY <3>1, <3>2, <3>3 DEF Filled
      <4>2. QED
        BY <2>1, <2>2, <4>1
    <3>4. CASE ~(k <= d.size)
      <4>1. r.fields[k] = buf[k]
        BY <3>1, <3>2, <3>4 DEF Filled
      <4>2. r.n = d.size /\ k > r.n /\ k > ReportMin
        BY <2>1, <3>1, <3>2, <3>4, SizesType DEF Smaller
      <4>3. Received(k, buf[k], Len(reports))
        BY <3>2 DEF BufOK
      <4>4. Len(reports) = last - 1
        BY <2>2
      <4>5. \A j \in 1 .. last - 1 : reports'[j] = reports[j]
        BY <2>2, <4>4
      <4>6. QED
        BY <2>2, <4>1, <4>2, <4>3, <4>4, <4>5 DEF Received
    <3>5. QED
      BY <3>3, <3>4
  <2> HIDE DEF Own
  <2>5. QED
    BY <2>2, <2>3, <2>4
<1>4. CASE ~Recv
  <2>1. reports' = reports
    BY <1>4, OnlyRecvReports
  <2> HIDE DEF Own
  <2>2. QED
    BY <1>1, <2>1
<1>5. QED
  BY <1>3, <1>4

-----------------------------------------------------------------------------
(* The invariant, and the theorems.                                        *)

(* At the start nothing has left.                                          *)
LEMMA Initially ==
  ASSUME Init
  PROVE  IInv
<1>1. /\ argv \in Argvs /\ in_flight = {} /\ lost = {} /\ duplicated = {}
      /\ queue = <<>> /\ reports = <<>> /\ server = "up"
      /\ pc = [c \in Clients |-> "main"] /\ exit_code = [c \in Clients |-> 0]
      /\ position = [c \in Clients |-> 0] /\ sent_count = [c \in Clients |-> 0]
      /\ buf = [k \in 1 .. BufSize |-> Unset]
  BY DEF Init
<1>2. ParsedOnce
  BY DEF Init, ParsedOnce
<1>3. Everywhere = {}
  BY <1>1 DEF Everywhere, Queued, Reported
<1>4. Shape
  <2>1. IsFiniteSet(Everywhere)
    BY <1>3, FS_EmptySet
  <2>2. queue \in Seq(Datagrams) /\ reports \in Seq(Report)
    BY <1>1
  <2>3. buf \in [1 .. BufSize -> Cell]
    BY <1>1 DEF Cell
  <2>4. QED
    BY <1>1, <1>3, <2>1, <2>2, <2>3 DEF Shape
<1>5. PositionOK
  BY <1>1 DEF PositionOK
<1>6. LeftOK
  BY <1>3 DEF LeftOK
<1>7. CountOK
  <2>1. \A c \in Clients : Somewhere(c) = {}
    BY <1>3 DEF Somewhere, Everywhere
  <2>2. Cardinality({}) = 0
    BY FS_EmptySet
  <2>3. QED
    BY <1>1, <2>1, <2>2 DEF CountOK
<1>8. ServerOK
  BY <1>1, ReplayCommandAssumption DEF ServerOK
<1>9. BufOK
  BY <1>1 DEF BufOK, Received
<1>10. ReportsAreOwn
  BY <1>1 DEF ReportsAreOwn
<1>11. QED
  BY <1>1, <1>2, <1>4, <1>5, <1>6, <1>7, <1>8, <1>9, <1>10 DEF IInv

(* Every step keeps it.                                                    *)
LEMMA Step ==
  ASSUME IInv, Next
  PROVE  IInv'
<1>1. ParsedOnce'
  BY OptionsStay DEF IInv, ParsedOnce
<1>2. Shape' /\ PositionOK' /\ LeftOK' /\ CountOK'
  BY ShapeStep, PositionStep, LeftStep, CountStep DEF IInv
<1>3. ServerOK' /\ BufOK' /\ ReportsAreOwn'
  BY ServerStep, BufStep, OwnStep DEF IInv
<1>4. QED
  BY <1>1, <1>2, <1>3 DEF IInv

(* So does a step of others.                                               *)
LEMMA Stutter ==
  ASSUME IInv, UNCHANGED vars
  PROVE  IInv'
<1>1. UNCHANGED <<argv, options, pc, exit_code, position, sent_count, in_flight, duplicated,
                  queue, server, buf, reports, lost>>
  BY DEF vars, clientVars, networkVars, serverVars
<1>2. Everywhere' = Everywhere /\ \A c \in Clients : Somewhere(c)' = Somewhere(c)
  BY <1>1 DEF Everywhere, Queued, Reported, Somewhere
<1>3. \A c \in Clients : /\ Pcap(c)' = Pcap(c) /\ Capture(c)' = Capture(c)
                         /\ OverTcp(c)' = OverTcp(c) /\ ReachesServer(c)' = ReachesServer(c)
  BY OptionsStay
<1>4. ParsedOnce'
  BY <1>1 DEF IInv, ParsedOnce
<1>5. Shape'
  BY <1>1, <1>2 DEF IInv, Shape
<1>6. PositionOK' /\ CountOK'
  BY <1>1, <1>2, <1>3 DEF IInv, PositionOK, CountOK
<1>7. LeftOK'
  BY <1>1, <1>2, <1>3 DEF IInv, Shape, Datagrams, LeftOK, DatagramOK
<1>8. ServerOK' /\ BufOK' /\ ReportsAreOwn'
  BY <1>1, <1>2 DEF IInv, ServerOK, BufOK, Received, ReportsAreOwn
<1>9. QED
  BY <1>4, <1>5, <1>6, <1>7, <1>8 DEF IInv

(* The inductive invariant of the processes, the network and the server.   *)
THEOREM Invariance == Spec => []IInv
<1>1. Init => IInv
  BY Initially
<1>2. IInv /\ [Next]_vars => IInv'
  BY Step, Stutter
<1>3. QED
  BY <1>1, <1>2, PTL DEF Spec

(* A replay never leaves its capture, nothing is anywhere but what a       *)
(* client attempted, with the size it had there, and queue and buffer keep *)
(* their sizes, whoever sends what to whom.                                *)
THEOREM TypeCorrect == Spec => []TypeOK
<1>1. IInv => TypeOK
  <2> SUFFICES ASSUME IInv PROVE TypeOK
    OBVIOUS
  <2>1. ASSUME NEW c \in Clients
        PROVE  /\ position[c] > 0 => Pcap(c) \in DOMAIN Files /\ position[c] <= Len(Capture(c))
               /\ sent_count[c] \in 0 .. position[c]
    BY DEF IInv, Shape, PositionOK
  <2>2. ASSUME NEW c \in Clients, NEW d \in Somewhere(c)
        PROVE  d.index \in 1 .. position[c] /\ d.size = Capture(c)[d.index].size
    <3>1. d \in Everywhere /\ d.from = c
      BY DEF Somewhere, Everywhere
    <3>2. DatagramOK(d)
      BY <3>1 DEF IInv, LeftOK
    <3>3. QED
      BY <3>1, <3>2 DEF DatagramOK
  <2>3. duplicated \subseteq in_flight \cup lost \cup Reported \cup Queued
    BY DEF IInv, ServerOK, Everywhere
  <2>4. DOMAIN buf = 1 .. BufSize
    BY DEF IInv, Shape
  <2>5. QED
    BY <2>1, <2>2, <2>3, <2>4 DEF IInv, ParsedOnce, Shape, ServerOK, TypeOK
<1>2. QED
  BY <1>1, Invariance, PTL

(* Of every command line, an option has the value it was last given: no    *)
(* option is taken for a value and no value for an option.                 *)
THEOREM OptionsRight == Spec => []OptionsAsGiven
<1>1. IInv => OptionsAsGiven
  BY ParsedAsGiven DEF IInv
<1>2. QED
  BY <1>1, Invariance, PTL

(* What the server prints behind the end of a datagram is what an earlier  *)
(* one left there, and what it prints before is that datagram's own.       *)
THEOREM ReportsOwn == Spec => []ReportsAreOwn
<1>1. IInv => ReportsAreOwn
  BY DEF IInv
<1>2. QED
  BY <1>1, Invariance, PTL

(* The replay counts exactly the datagrams that left, however often they   *)
(* are delivered and wherever they are lost.                               *)
THEOREM CountedHaveLeft == Spec => []CountedLeft
<1>1. IInv => CountedLeft
  <2> SUFFICES ASSUME IInv, NEW c \in Clients
               PROVE  IF pc[c] = "main" \/ position[c] = 0 \/ OverTcp(c) \/ ~ReachesServer(c)
                        THEN Somewhere(c) = {}
                        ELSE Cardinality(Somewhere(c)) = sent_count[c]
    BY DEF CountedLeft
  <2>1. CASE OverTcp(c) \/ ~ReachesServer(c)
    BY <2>1 DEF IInv, CountOK
  <2>2. CASE ~(OverTcp(c) \/ ~ReachesServer(c))
    <3>1. Cardinality(Somewhere(c)) = sent_count[c]
      BY <2>2 DEF IInv, CountOK
    <3>2. ASSUME pc[c] = "main" \/ position[c] = 0 PROVE Somewhere(c) = {}
      <4>1. position[c] = 0
        BY <3>2 DEF IInv, PositionOK
      <4>2. \A d \in Somewhere(c) : d \in Everywhere /\ d.from = c
        BY DEF Somewhere, Everywhere
      <4>3. \A d \in Somewhere(c) : d.index \in 1 .. 0
        BY <4>1, <4>2 DEF IInv, LeftOK, DatagramOK
      <4>4. QED
        BY <4>3
    <3>3. QED
      BY <2>2, <3>1, <3>2
  <2>3. QED
    BY <2>1, <2>2
<1>2. QED
  BY <1>1, Invariance, PTL

=============================================================================
