---------------------------- MODULE DoctorProofs ----------------------------
(***************************************************************************)
(* Proofs about Doctor: a run of the tool that exits with success did all    *)
(* that it was asked to, on the targets it was asked for.                    *)
(***************************************************************************)
EXTENDS Doctor, NaturalLemmas, SequenceTheorems

-----------------------------------------------------------------------------
(* The lines of a run.                                                      *)

Joins(S) == \A s, t \in S : s \o t \in S

\* Whatever holds of the parts of a flattened sequence and is kept by \o holds of it.
LEMMA FlattenedIsIn ==
    ASSUME NEW Parts, Joins(Parts),
           NEW w, NEW n \in Nat \ {0}, Len(w) = n, \A k \in 1 .. n : w[k] \in Parts
    PROVE  FlattenSeq(w) \in Parts
<1>. DEFINE R == [at : Nat, sum : Parts]
            a == [at |-> 1, sum |-> w[1]]
            G == [s \in R |-> [at |-> s.at + 1,
                               sum |-> IF s.at + 1 \in 1 .. n THEN s.sum \o w[s.at + 1] ELSE s.sum]]
<1>1. a \in R
      OBVIOUS
<1>2. G \in [R -> R]
  <2>. SUFFICES ASSUME NEW s \in R
                PROVE  [at |-> s.at + 1,
                        sum |-> IF s.at + 1 \in 1 .. n THEN s.sum \o w[s.at + 1] ELSE s.sum] \in R
       OBVIOUS
  <2>1. s.sum \in Parts /\ s.at + 1 \in Nat
        OBVIOUS
  <2>2. (IF s.at + 1 \in 1 .. n THEN s.sum \o w[s.at + 1] ELSE s.sum) \in Parts
        BY <2>1 DEF Joins
  <2>. QED BY <2>1, <2>2
<1>3. \A s \in R : /\ G[s].at = s.at + 1
                   /\ s.at + 1 \in 1 .. n => G[s].sum = s.sum \o w[s.at + 1]
      OBVIOUS
<1>. HIDE DEF G
<1>4. a.at = 1 /\ a.sum = w[1] /\ \A s \in R : s.at \in Nat /\ s.sum \in Parts
      OBVIOUS
<1>. HIDE DEF R, a
<1>5. PICK x \in [Nat -> R] : x[0] = a /\ \A k \in Nat : x[k + 1] = G[x[k]]
      BY ONLY <1>1, <1>2, Recursion
<1>6. \A k \in Nat : x[k].at = k + 1
  <2>. DEFINE T == {k \in Nat : x[k].at = k + 1}
  <2>1. 0 \in T
        BY <1>4, <1>5
  <2>2. \A k \in Nat : k \in T => k + 1 \in T
    <3>. SUFFICES ASSUME NEW k \in Nat, k \in T PROVE k + 1 \in T
         OBVIOUS
    <3>1. x[k] \in R /\ x[k + 1] = G[x[k]] /\ x[k].at = k + 1
          BY <1>5
    <3>2. G[x[k]].at = x[k].at + 1
          BY <1>3, <3>1
    <3>3. x[k + 1].at = (k + 1) + 1
          BY <3>1, <3>2
    <3>. QED BY <3>3
  <2>. HIDE DEF T
  <2>3. Nat \subseteq T
        BY <2>1, <2>2, Induction
  <2>. QED BY <2>3 DEF T
<1>. DEFINE f == [k \in 1 .. Len(w) |-> x[k - 1].sum]
<1>7. f[1] = w[1]
      BY <1>4, <1>5
<1>8. \A k \in 2 .. n : f[k] = f[k - 1] \o w[k]
  <2>. SUFFICES ASSUME NEW k \in 2 .. n PROVE f[k] = f[k - 1] \o w[k]
       OBVIOUS
  <2>1. k - 2 \in Nat /\ (k - 2) + 1 = k - 1 /\ k - 1 \in 1 .. n /\ k \in 1 .. n /\ (k - 1) - 1 = k - 2
        OBVIOUS
  <2>2. x[k - 2] \in R /\ x[k - 2 + 1] = G[x[k - 2]] /\ x[k - 2].at = k - 1
        BY <1>5, <1>6, <2>1
  <2>3. G[x[k - 2]].sum = x[k - 2].sum \o w[k]
    <3>1. x[k - 2].at + 1 = k
          BY <2>1, <2>2
    <3>. QED BY <1>3, <2>1, <2>2, <3>1
  <2>4. f[k] = x[k - 1].sum /\ f[k - 1] = x[k - 2].sum
        BY <2>1
  <2>. HIDE DEF f
  <2>. QED BY <2>1, <2>2, <2>3, <2>4
<1>9. f = [k \in 1 .. Len(w) |-> f[k]]
      OBVIOUS
<1>. HIDE DEF f
<1>10. \A k \in 1 .. Len(w) : f[k] = IF k = 1 THEN w[k] ELSE f[k - 1] \o w[k]
  <2>. SUFFICES ASSUME NEW k \in 1 .. n PROVE f[k] = IF k = 1 THEN w[k] ELSE f[k - 1] \o w[k]
       OBVIOUS
  <2>1. k = 1 \/ k \in 2 .. n
        OBVIOUS
  <2>. QED BY <1>7, <1>8, <2>1
<1>. DEFINE Is(g) == g = [i \in 1 .. Len(w) |-> IF i = 1 THEN w[i] ELSE g[i - 1] \o w[i]]
            flat == CHOOSE g : Is(g)
<1>11. Is(f)
       BY <1>9, <1>10
<1>12. Is(flat)
       BY <1>11
<1>13. \A i \in 1 .. n : flat[i] = IF i = 1 THEN w[i] ELSE flat[i - 1] \o w[i]
       BY <1>12
<1>14. FlattenSeq(w) = flat[n]
       BY DEF FlattenSeq
<1>. HIDE DEF flat, Is
<1>15. \A i \in 1 .. n : flat[i] \in Parts
  <2>. DEFINE T == {i \in Nat : i + 1 \in 1 .. n => flat[i + 1] \in Parts}
  <2>1. 0 \in T
        BY <1>13
  <2>2. \A k \in Nat : k \in T => k + 1 \in T
    <3>. SUFFICES ASSUME NEW k \in Nat, k \in T, k + 2 \in 1 .. n PROVE flat[k + 2] \in Parts
         OBVIOUS
    <3>1. flat[k + 1] \in Parts /\ w[k + 2] \in Parts
          OBVIOUS
    <3>2. flat[k + 2] = flat[k + 1] \o w[k + 2]
      <4>1. k + 2 # 1 /\ (k + 2) - 1 = k + 1
            OBVIOUS
      <4>. QED BY <1>13, <4>1
    <3>. QED BY <3>1, <3>2 DEF Joins
  <2>. HIDE DEF T
  <2>3. Nat \subseteq T
        BY <2>1, <2>2, Induction
  <2>4. \A i \in 1 .. n : i - 1 \in Nat /\ (i - 1) + 1 = i
        OBVIOUS
  <2>. QED BY <2>3, <2>4 DEF T
<1>. QED BY <1>14, <1>15

\* A line that a run may have, and a list of them in which every command names the
\* target of the line before it.
RunLine == [verb : Slow \cup {"TARGET"}, name : Name, run : Nat]
Chains  == {s \in Seq(RunLine) : \A i \in 1 .. Len(s) :
               s[i].verb # "TARGET" => i > 1 /\ s[i].name = s[i - 1].name}

LEMMA ChainsJoin == Joins(Chains)
<1>. SUFFICES ASSUME NEW a \in Chains, NEW b \in Chains PROVE a \o b \in Chains
     BY DEF Joins
<1>1. /\ a \in Seq(RunLine) /\ b \in Seq(RunLine) /\ Len(a) \in Nat /\ Len(b) \in Nat
      /\ a \o b \in Seq(RunLine) /\ Len(a \o b) = Len(a) + Len(b)
      /\ \A i \in 1 .. Len(a) : (a \o b)[i] = a[i]
      /\ \A i \in 1 .. Len(b) : (a \o b)[Len(a) + i] = b[i]
      BY ConcatProperties DEF Chains
<1>. DEFINE c == a \o b
<1>2. ASSUME NEW i \in 1 .. Len(c), c[i].verb # "TARGET"
      PROVE  i > 1 /\ c[i].name = c[i - 1].name
  <2>1. CASE i <= Len(a)
    <3>1. i \in 1 .. Len(a) /\ c[i] = a[i]
          BY <1>1, <2>1
    <3>2. i > 1 /\ a[i].name = a[i - 1].name
          BY <1>2, <3>1 DEF Chains
    <3>3. i - 1 \in 1 .. Len(a)
          BY <1>1, <3>1, <3>2
    <3>4. c[i - 1] = a[i - 1]
          BY <1>1, <3>3
    <3>. QED BY <3>1, <3>2, <3>4
  <2>2. CASE i > Len(a)
    <3>. DEFINE j == i - Len(a)
    <3>1. j \in 1 .. Len(b) /\ Len(a) + j = i
          BY <1>1, <2>2
    <3>2. c[i] = b[j]
          BY <1>1, <3>1
    <3>3. j > 1 /\ b[j].name = b[j - 1].name
          BY <1>2, <3>1, <3>2 DEF Chains
    <3>4. j - 1 \in 1 .. Len(b) /\ Len(a) + (j - 1) = i - 1
          BY <1>1, <3>1, <3>3
    <3>5. c[i - 1] = b[j - 1]
          BY <1>1, <3>4
    <3>. QED BY <1>1, <3>1, <3>2, <3>3, <3>5
  <2>. QED BY <1>1, <2>1, <2>2
<1>. QED BY <1>1, <1>2 DEF Chains

LEMMA LinesAreChains ==
    ASSUME NEW list \in Lists, NEW script \in Scripts, NEW run \in Nat
    PROVE  Lines(list, script, run) \in Chains
<1>. DEFINE part(i) == <<Line("TARGET", list[i], run)>>
                       \o [j \in DOMAIN script |-> Line(script[j], list[i], run)]
            w == [i \in DOMAIN list |-> part(i)]
<1>1. /\ list \in Seq(Name) /\ script \in Seq(Slow)
      /\ Len(list) \in Nat /\ DOMAIN list = 1 .. Len(list)
      /\ Len(script) \in Nat /\ DOMAIN script = 1 .. Len(script)
      BY LenProperties, DoctorConstants DEF Slow
<1>2. ASSUME NEW i \in 1 .. Len(list)
      PROVE  part(i) \in Chains
  <2>. DEFINE h == <<Line("TARGET", list[i], run)>>
              t == [j \in DOMAIN script |-> Line(script[j], list[i], run)]
  <2>1. list[i] \in Name /\ \A j \in 1 .. Len(script) : script[j] \in Slow
        BY <1>1
  <2>2. h \in Seq(RunLine) /\ Len(h) = 1 /\ h[1].verb = "TARGET" /\ h[1].name = list[i]
        BY <2>1 DEF Line, RunLine
  <2>3. t \in Seq(RunLine) /\ Len(t) = Len(script)
        /\ \A j \in 1 .. Len(script) : t[j].name = list[i]
    <3>1. \A j \in 1 .. Len(script) : Line(script[j], list[i], run) \in RunLine
          BY <2>1 DEF Line, RunLine
    <3>2. t = [j \in 1 .. Len(script) |-> Line(script[j], list[i], run)]
          BY <1>1
    <3>3. t \in [1 .. Len(script) -> RunLine]
          BY <3>1, <3>2
    <3>4. \A j \in 1 .. Len(script) : t[j].name = list[i]
          BY <3>2 DEF Line
    <3>. HIDE DEF t
    <3>5. t \in Seq(RunLine) /\ Len(t) = Len(script)
          BY <1>1, <3>3
    <3>. QED BY <3>4, <3>5
  <2>. HIDE DEF h, t
  <2>4. /\ h \o t \in Seq(RunLine) /\ Len(h \o t) = 1 + Len(script)
        /\ (h \o t)[1] = h[1] /\ \A j \in 1 .. Len(script) : (h \o t)[1 + j] = t[j]
    <3>1. /\ h \o t \in Seq(RunLine) /\ Len(h \o t) = Len(h) + Len(t)
          /\ \A k \in 1 .. Len(h) : (h \o t)[k] = h[k]
          /\ \A j \in 1 .. Len(t) : (h \o t)[Len(h) + j] = t[j]
          BY <2>2, <2>3, ConcatProperties
    <3>2. 1 \in 1 .. Len(h)
          BY <2>2
    <3>. QED BY <2>2, <2>3, <3>1, <3>2
  <2>5. \A j \in 1 .. 1 + Len(script) : (h \o t)[j].name = list[i]
    <3>. SUFFICES ASSUME NEW j \in 1 .. 1 + Len(script) PROVE (h \o t)[j].name = list[i]
         OBVIOUS
    <3>1. CASE j = 1
          BY <2>2, <2>4, <3>1
    <3>2. CASE j # 1
      <4>1. j - 1 \in 1 .. Len(script) /\ 1 + (j - 1) = j
            BY <1>1, <3>2
      <4>. QED BY <2>3, <2>4, <4>1
    <3>. QED BY <3>1, <3>2
  <2>6. h \o t \in Chains
    <3>1. \A j \in 1 .. Len(h \o t) : j # 1 => j > 1 /\ j - 1 \in 1 .. 1 + Len(script)
          BY <1>1, <2>4
    <3>. QED BY <1>1, <2>2, <2>4, <2>5, <3>1 DEF Chains
  <2>. QED BY <2>6 DEF h, t
<1>. HIDE DEF part
<1>3. Lines(list, script, run) = FlattenSeq(w)
      BY DEF Lines, part
<1>4. w = [i \in 1 .. Len(list) |-> part(i)]
      BY <1>1
<1>5. Len(w) = Len(list) /\ \A i \in 1 .. Len(list) : w[i] \in Chains
  <2>1. w \in Seq(Chains) /\ Len(w) = Len(list)
        BY <1>1, <1>2, <1>4
  <2>. QED BY <1>2, <1>4, <2>1
<1>6. CASE Len(list) = 0
  <2>1. w = <<>>
        BY <1>4, <1>6
  <2>2. FlattenSeq(w) = <<>>
    <3>. HIDE DEF w
    <3>. QED BY <2>1 DEF FlattenSeq
  <2>. QED BY <1>3, <2>2 DEF Chains
<1>7. CASE Len(list) # 0
  <2>. HIDE DEF w
  <2>. QED BY <1>1, <1>3, <1>5, <1>7, ChainsJoin, FlattenedIsIn
<1>. QED BY <1>6, <1>7

-----------------------------------------------------------------------------
(* A run, and where its session with the device can be.                     *)

Said   == [kind : {"READY", "ERROR", "RESULT", "LIST_ERROR", "FILE_ERROR", "DUMP_END"}, ok : BOOLEAN]
Error  == <<Say("ERROR", FALSE)>>
\* No dump ends well in these lines.
NoneEnds(lines) == /\ lines \in Seq(Said)
                   /\ \A i \in 1 .. Len(lines) : lines[i].kind = "DUMP_END" => ~lines[i].ok
Probe   == Line("PROBE", NoName, runs)
Trigger == Line("TRIGGER", NoName, runs)

\* What is left to send: commands for the target of the line before them.
TodoFact ==
    /\ todo \in Seq(RunLine)
    /\ \A i \in 1 .. Len(todo) : /\ todo[i] \in asked
                                 /\ todo[i].verb # "TARGET" =>
                                        todo[i].name = IF i = 1 THEN sent.name ELSE todo[i - 1].name
    /\ runs \in Nat

\* The line that is being answered.
SentFact ==
    /\ sent = NoLine \/ (sent \in RunLine /\ sent \in asked)
    /\ host \in {"off", "probe", "enter"} => sent = NoLine
    /\ host \in {"answer", "dump", "ready"} => sent # NoLine
    /\ host \in {"probe", "enter"} => asked = ToSet(todo)
    /\ host = "answer" => sent.verb \notin Dump
    /\ host \in {"dump", "ready"} => sent.verb \in Dump

RunFacts ==
    /\ host \in {"off", "probe", "enter", "send", "answer", "dump", "ready", "close"}
    /\ dev \in {"app", "read", "busy"}
    /\ TodoFact /\ SentFact

\* The run may still succeed, and nothing speaks against taking its word for it.
Trusted ==
    /\ allOk /\ quiet
    /\ \A line \in asked : line.name \notin Rejected

\* No line of the run is lost: it is still to be sent, is being answered, or is done.
Owed ==
    \A line \in asked : \/ line.verb = "TARGET" \/ Done(line) \/ line \in ToSet(todo)
                        \/ host \in {"answer", "dump"} /\ line = sent

\* A line is the only thing under way, to the device or in dispatch().
Carried(line) ==
    /\ tx = <<>>
    /\ \/ dev = "read" /\ rx = <<line>>
       \/ dev = "busy" /\ doing = line /\ rx = <<>>
Parked    == dev = "read" /\ rx = <<>>
OnTarget  == target = sent.name
Asked     == Carried(sent) /\ (sent.verb # "TARGET" => OnTarget)

AtProbe  == host = "probe" =>
    \/ dev = "app" /\ rx \in {<<>>, <<Probe>>} /\ tx = <<>>
    \/ Carried(Probe)
    \/ Parked /\ tx \in {Error \o Ready, Ready}
AtEnter  == host = "enter" =>
    \/ dev = "app" /\ rx \in {<<Probe, Trigger>>, <<Trigger>>} /\ tx = <<>>
    \/ Parked /\ tx = Ready
AtSend   == host = "send" => Parked /\ tx = <<>> /\ (sent # NoLine => OnTarget)
AtAnswer == host = "answer" =>
    \/ Asked /\ heard = "nothing"
    \/ /\ Parked /\ OnTarget
       /\ \/ tx = Ready /\ (sent.verb = "TARGET" \/ (Succeeded => Done(sent)))
          \/ \E ok \in BOOLEAN : tx = <<Say("RESULT", ok)>> \o Ready /\ (ok => Done(sent))
AtDump   == host = "dump" =>
    \/ Asked
    \/ /\ Parked /\ OnTarget
       /\ \/ tx = <<Say("DUMP_END", TRUE)>> \o Ready /\ Done(sent)
          \/ NoneEnds(tx)
AtReady  == host = "ready" => Parked /\ OnTarget /\ tx = Ready /\ Done(sent)
\* A run that gives up does so after a failure.
AtClose  == host # "close"

\* The session of a trusted run is where the tool believes it to be.
InStep == AtProbe /\ AtEnter /\ AtSend /\ AtAnswer /\ AtDump /\ AtReady /\ AtClose

DoctorInv ==
    /\ RunFacts
    /\ Trusted => Owed /\ InStep
    /\ SuccessIsTrue

-----------------------------------------------------------------------------
(* Short lists of lines.                                                    *)

LEMMA OneLine ==
    ASSUME NEW a
    PROVE  /\ Append(<<>>, a) = <<a>> /\ <<>> \o <<a>> = <<a>> /\ <<a>> # <<>>
           /\ Head(<<a>>) = a /\ Tail(<<a>>) = <<>> /\ Len(<<a>>) = 1
<1>1. Len(<<a>>) = 1 /\ <<a>>[1] = a /\ <<a>> \in Seq({a}) /\ <<>> \in Seq({a})
      OBVIOUS
<1>2. Append(<<>>, a) = <<a>>
      BY <1>1
<1>3. <<>> \o <<a>> = <<a>>
      BY <1>1
<1>4. <<a>> # <<>>
      BY <1>1
<1>5. Head(<<a>>) = a
      BY <1>1
<1>6. Tail(<<a>>) = <<>>
      BY <1>1
<1>. QED BY <1>1, <1>2, <1>3, <1>4, <1>5, <1>6

LEMMA TwoLong ==
    ASSUME NEW S, NEW s \in Seq(S), NEW t \in Seq(S), Len(s) = 2, Len(t) = 2,
           s[1] = t[1], s[2] = t[2]
    PROVE  s = t
<1>1. \A i \in 1 .. Len(s) : i = 1 \/ i = 2
      OBVIOUS
<1>2. \A i \in 1 .. Len(s) : s[i] = t[i]
      BY <1>1
<1>. QED BY <1>2, SeqEqual

LEMMA TwoLines ==
    ASSUME NEW a, NEW b
    PROVE  /\ Append(<<a>>, b) = <<a, b>> /\ <<a>> \o <<b>> = <<a, b>> /\ <<a, b>> # <<>>
           /\ Head(<<a, b>>) = a /\ Tail(<<a, b>>) = <<b>>
<1>1. Len(<<a, b>>) = 2 /\ <<a, b>>[1] = a /\ <<a, b>>[2] = b /\ <<a, b>> \in Seq({a, b})
      OBVIOUS
<1>2. <<a>> \in Seq({a, b}) /\ <<b>> \in Seq({a, b}) /\ Len(<<a>>) = 1 /\ Len(<<b>>) = 1
      OBVIOUS
<1>3. Append(<<a>>, b) = <<a, b>>
  <2>. DEFINE s == Append(<<a>>, b)
  <2>1. s \in Seq({a, b}) /\ Len(s) = 2 /\ s[1] = a /\ s[2] = b
        BY <1>2, AppendProperties
  <2>. HIDE DEF s
  <2>. QED BY <1>1, <2>1, TwoLong DEF s
<1>4. <<a>> \o <<b>> = <<a, b>>
  <2>. DEFINE s == <<a>> \o <<b>>
  <2>1. s \in Seq({a, b}) /\ Len(s) = 2 /\ s[1] = a /\ s[2] = b
        BY <1>2, ConcatProperties
  <2>. HIDE DEF s
  <2>. QED BY <1>1, <2>1, TwoLong DEF s
<1>5. <<a, b>> # <<>>
      BY <1>1
<1>6. Head(<<a, b>>) = a
      BY <1>1
<1>7. Tail(<<a, b>>) = <<b>>
      BY <1>1, <1>2
<1>. QED BY <1>3, <1>4, <1>5, <1>6, <1>7

-----------------------------------------------------------------------------
(* The lines of the run, in every step.                                     *)

LEMMA DevKept ==
    ASSUME [Next]_vars, dev \in {"app", "read", "busy"}
    PROVE  dev' \in {"app", "read", "busy"}
<1>1. CASE DeviceStep
  <2>1. CASE Dispatch
        BY <2>1 DEF Dispatch, Answers, Restart, Park
  <2>. QED BY <1>1, <2>1 DEF DeviceStep, AppReads, ReadLine, IdleExit, Restart, Park, device
<1>2. CASE TimeOut
      BY <1>2 DEF TimeOut, Wake, Park, device
<1>. QED BY <1>1, <1>2 DEF Next, HostStep, Send, Hear, Close, Die, Connect, vars, device

LEMMA DoctorStart == ASSUME Init PROVE DoctorInv
<1>1. TodoFact
      BY DEF Init, TodoFact
<1>2. SentFact
      BY DEF Init, SentFact, NoLine
<1>3. RunFacts
      BY <1>1, <1>2 DEF Init, RunFacts
<1>4. ~Trusted
      BY DEF Init, Trusted
<1>5. SuccessIsTrue
      BY DEF Init, SuccessIsTrue, NoExit
<1>. QED BY <1>3, <1>4, <1>5 DEF DoctorInv

\* The device does not touch what the tool knows, and takes back no command it has run.
LEMMA DeviceFrame ==
    ASSUME DeviceStep
    PROVE  /\ host' = host /\ todo' = todo /\ sent' = sent /\ heard' = heard /\ allOk' = allOk
           /\ runs' = runs /\ quiet' = quiet /\ asked' = asked /\ exit' = exit
           /\ ran \subseteq ran'
<1>1. CASE AppReads
      BY <1>1 DEF AppReads, tool, watch
<1>2. CASE ReadLine
      BY <1>2 DEF ReadLine, tool, watch
<1>3. CASE IdleExit
      BY <1>3 DEF IdleExit, tool, watch
<1>4. CASE Dispatch
  <2>1. ran \subseteq ran'
        BY <1>4 DEF Dispatch
  <2>. QED BY <1>4, <2>1 DEF Dispatch, tool
<1>. QED BY <1>1, <1>2, <1>3, <1>4 DEF DeviceStep

LEMMA LineOrNone ==
    /\ NoLine \notin RunLine
    /\ \A line \in RunLine : /\ line.name # NoName /\ line.name \in Name
                             /\ line.verb \in Slow \cup {"TARGET"}
BY DoctorConstants DEF NoLine, RunLine

\* Whatever is left to send came in at Connect, in the order of Lines.
LEMMA TodoAtConnect ==
    ASSUME RunFacts, Connect
    PROVE  RunFacts' /\ asked' = ToSet(todo')
<1>1. PICK list \in Lists, script \in Scripts : todo' = Lines(list, script, runs')
      BY DEF Connect
<1>2. runs \in Nat /\ sent = NoLine /\ host = "off"
      BY DEF Connect, RunFacts, TodoFact, SentFact
<1>3. host' = "probe" /\ sent' = NoLine /\ runs' = runs + 1 /\ asked' = ToSet(todo')
      BY <1>2 DEF Connect
<1>4. todo' \in Chains
  <2>1. runs' \in Nat
        BY <1>2, <1>3
  <2>2. Lines(list, script, runs') \in Chains
        BY <2>1, LinesAreChains
  <2>. QED BY <1>1, <2>2
<1>5. todo' \in Seq(RunLine) /\ \A i \in 1 .. Len(todo') :
          todo'[i].verb # "TARGET" => i > 1 /\ todo'[i].name = todo'[i - 1].name
      BY <1>4 DEF Chains
<1>6. \A i \in 1 .. Len(todo') : todo'[i] \in asked'
      BY <1>3, <1>5 DEF ToSet
<1>7. \A i \in 1 .. Len(todo') : i > 1 => i # 1
      OBVIOUS
<1>8. TodoFact'
      BY <1>2, <1>3, <1>5, <1>6, <1>7 DEF TodoFact
<1>9. SentFact'
      BY <1>3 DEF SentFact
<1>10. dev' \in {"app", "read", "busy"}
      BY DEF Connect, RunFacts, device
<1>. QED BY <1>3, <1>8, <1>9, <1>10 DEF RunFacts

LEMMA TodoAtSend ==
    ASSUME RunFacts, Send
    PROVE  RunFacts' /\ ToSet(todo) = {sent'} \cup ToSet(todo') /\ sent' \in RunLine
           /\ (sent'.verb # "TARGET" => sent # NoLine /\ sent'.name = sent.name)
<1>1. /\ todo # <<>> /\ todo \in Seq(RunLine) /\ todo' = Tail(todo) /\ sent' = Head(todo)
      /\ host' = (IF sent'.verb \in Dump THEN "dump" ELSE "answer")
      /\ asked' = asked /\ runs' = runs /\ runs \in Nat
      BY DEF Send, RunFacts, TodoFact, watch
<1>2. /\ Len(todo) \in Nat \ {0} /\ sent' = todo[1] /\ 1 \in 1 .. Len(todo)
      /\ Len(todo') = Len(todo) - 1 /\ todo' \in Seq(RunLine)
      /\ \A i \in 1 .. Len(todo') : i + 1 \in 1 .. Len(todo) /\ todo'[i] = todo[i + 1]
      BY <1>1
<1>3. \A i \in 1 .. Len(todo) : /\ todo[i] \in RunLine /\ todo[i] \in asked
                                /\ todo[i].verb # "TARGET" =>
                                        todo[i].name = IF i = 1 THEN sent.name ELSE todo[i - 1].name
      BY <1>1 DEF RunFacts, TodoFact
<1>4. sent' \in RunLine /\ sent' \in asked
      BY <1>2, <1>3
<1>5. sent'.verb # "TARGET" => sent # NoLine /\ sent'.name = sent.name
  <2>1. sent'.verb # "TARGET" => sent'.name = sent.name
        BY <1>2, <1>3
  <2>. QED BY <1>4, <2>1, LineOrNone DEF NoLine
<1>6. ASSUME NEW i \in 1 .. Len(todo')
      PROVE  /\ todo'[i] \in asked'
             /\ todo'[i].verb # "TARGET" =>
                    todo'[i].name = IF i = 1 THEN sent'.name ELSE todo'[i - 1].name
  <2>1. /\ todo'[i] = todo[i + 1] /\ todo[i + 1] \in asked
        /\ todo[i + 1].verb # "TARGET" => todo[i + 1].name = todo[i].name
    <3>1. i + 1 \in 1 .. Len(todo) /\ i + 1 # 1 /\ (i + 1) - 1 = i
          BY <1>2
    <3>. QED BY <1>2, <1>3, <3>1
  <2>2. CASE i = 1
        BY <1>1, <1>2, <2>1, <2>2
  <2>3. CASE i # 1
    <3>1. i - 1 \in 1 .. Len(todo') /\ (i - 1) + 1 = i
          BY <1>2, <2>3
    <3>2. todo'[i - 1] = todo[i]
          BY <1>2, <3>1
    <3>. QED BY <1>1, <2>1, <2>3, <3>2
  <2>. QED BY <2>2, <2>3
<1>7. TodoFact'
      BY <1>1, <1>2, <1>6 DEF TodoFact
<1>8. SentFact'
  <2>1. sent' # NoLine
        BY <1>4, LineOrNone
  <2>. QED BY <1>1, <1>4, <2>1 DEF SentFact
<1>9. ToSet(todo) = {sent'} \cup ToSet(todo')
  <2>1. \A i \in 1 .. Len(todo) : i = 1 \/ (i - 1 \in 1 .. Len(todo') /\ todo[i] = todo'[i - 1])
    <3>1. \A i \in 1 .. Len(todo) : i = 1 \/ (i - 1 \in 1 .. Len(todo') /\ (i - 1) + 1 = i)
          BY <1>2
    <3>. QED BY <1>2, <3>1
  <2>2. ToSet(todo) = {todo[i] : i \in 1 .. Len(todo)} /\ ToSet(todo') = {todo'[i] : i \in 1 .. Len(todo')}
    <3>1. DOMAIN todo = 1 .. Len(todo) /\ DOMAIN todo' = 1 .. Len(todo')
          BY <1>1, <1>2, LenProperties
    <3>. QED BY <3>1 DEF ToSet
  <2>3. ToSet(todo) \subseteq {sent'} \cup ToSet(todo')
        BY <1>2, <2>1, <2>2
  <2>4. {sent'} \cup ToSet(todo') \subseteq ToSet(todo)
        BY <1>2, <2>2
  <2>. QED BY <2>3, <2>4
<1>10. dev' \in {"app", "read", "busy"}
      BY DEF Send, RunFacts, device
<1>. QED BY <1>1, <1>4, <1>5, <1>7, <1>8, <1>9, <1>10 DEF RunFacts

\* No other step changes the lines: an answer or a timeout moves the tool only.
LEMMA RunFactsKept == ASSUME RunFacts, [Next]_vars PROVE RunFacts'
<1>0. dev' \in {"app", "read", "busy"}
      BY DevKept DEF RunFacts
<1>1. CASE DeviceStep
      BY <1>0, <1>1, DeviceFrame DEF RunFacts, TodoFact, SentFact
<1>2. CASE Send
      BY <1>2, TodoAtSend
<1>3. CASE Hear
  <2>1. todo' = todo /\ sent' = sent /\ runs' = runs /\ asked' = asked
        BY <1>3 DEF Hear, watch
  <2>2. CASE HearAnswer
        BY <1>0, <2>1, <2>2 DEF HearAnswer, RunFacts, TodoFact, SentFact
  <2>3. CASE HearDump
        BY <1>0, <2>1, <2>3 DEF HearDump, RunFacts, TodoFact, SentFact
  <2>4. CASE HearReady
        BY <1>0, <2>1, <2>4 DEF HearReady, RunFacts, TodoFact, SentFact
  <2>. QED BY <1>3, <2>2, <2>3, <2>4 DEF Hear
<1>4. CASE TimeOut
  <2>1. runs' = runs /\ asked' = asked
        BY <1>4 DEF TimeOut
  <2>2. CASE host = "probe"
    <3>1. host' = "enter" /\ todo' = todo /\ sent' = sent
          BY <1>4, <2>2 DEF TimeOut, Wake
    <3>. QED BY <1>0, <2>1, <2>2, <3>1 DEF RunFacts, TodoFact, SentFact
  <2>3. CASE host = "enter"
    <3>1. host' = "off" /\ todo' = <<>> /\ sent' = NoLine
          BY <1>4, <2>3 DEF TimeOut, Off
    <3>2. TodoFact'
          BY <2>1, <3>1 DEF RunFacts, TodoFact
    <3>3. SentFact'
          BY <3>1 DEF SentFact
    <3>. QED BY <1>0, <3>1, <3>2, <3>3 DEF RunFacts
  <2>4. CASE host \in {"answer", "dump", "ready"}
    <3>1. todo' = todo /\ sent' = sent
          BY <1>4, <2>4 DEF TimeOut
    <3>2. (host' = "ready" /\ host = "dump") \/ host' \in {"close", "send"}
          BY <1>4, <2>4 DEF TimeOut
    <3>. QED BY <1>0, <2>1, <2>4, <3>1, <3>2 DEF RunFacts, TodoFact, SentFact
  <2>. QED BY <1>4, <2>2, <2>3, <2>4 DEF TimeOut
<1>5. CASE Close \/ Die
  <2>1. host' = "off" /\ todo' = <<>> /\ sent' = NoLine /\ runs' = runs /\ asked' = asked
        BY <1>5 DEF Close, Die, Off, watch
  <2>2. TodoFact'
        BY <2>1 DEF RunFacts, TodoFact
  <2>3. SentFact'
        BY <2>1 DEF SentFact
  <2>. QED BY <1>0, <2>1, <2>2, <2>3 DEF RunFacts
<1>6. CASE Connect
      BY <1>6, TodoAtConnect
<1>7. CASE UNCHANGED vars
      BY <1>0, <1>7 DEF vars, tool, watch, RunFacts, TodoFact, SentFact
<1>. QED BY <1>1, <1>2, <1>3, <1>4, <1>5, <1>6, <1>7 DEF Next, HostStep

-----------------------------------------------------------------------------
(* The session, in every step.                                              *)

LEMMA DoneStays ==
    ASSUME ran \subseteq ran'
    PROVE  \A line : Done(line) => Done(line)'
BY DEF Done

\* Only Connect, and a reset by DTR, make a run one to be trusted.
LEMMA TrustIsOld ==
    ASSUME [Next]_vars, ~Connect, host # "probe" \/ ~TimeOut, Trusted'
    PROVE  Trusted
<1>1. asked' = asked
  <2>1. CASE DeviceStep
        BY <2>1, DeviceFrame
  <2>. QED BY <2>1 DEF Next, HostStep, Send, Hear, TimeOut, Close, Die, vars, watch
<1>2. quiet' = quiet
  <2>1. CASE DeviceStep
        BY <2>1, DeviceFrame
  <2>2. CASE TimeOut
        BY <2>2 DEF TimeOut
  <2>. QED BY <2>1, <2>2 DEF Next, HostStep, Send, Hear, Close, Die, vars, watch
<1>3. allOk' => allOk
  <2>1. CASE DeviceStep
        BY <2>1, DeviceFrame
  <2>2. CASE TimeOut
        BY <2>2 DEF TimeOut, Off
  <2>3. CASE Hear
        BY <2>3, Zenon DEF Hear, HearAnswer, HearDump, HearReady
  <2>. QED BY <2>1, <2>2, <2>3 DEF Next, HostStep, Send, Close, Die, Off, vars, tool, watch
<1>. QED BY <1>1, <1>2, <1>3 DEF Trusted

LEMMA AnswerIs ==
    ASSUME tx = <<>>
    PROVE  /\ Answers(<<>>) => tx' = Ready
           /\ \A a : Answers(<<a>>) => tx' = <<a>> \o Ready
           /\ Park(tx) => tx' = Ready
<1>1. \A a : <<>> \o <<a>> = <<a>>
      BY OneLine
<1>2. <<>> \o <<>> = <<>>
      OBVIOUS
<1>. QED BY <1>1, <1>2 DEF Answers, Park, Ready

LEMMA AppReadsInStep ==
    ASSUME RunFacts, InStep, AppReads
    PROVE  InStep'
<1>1. /\ dev = "app" /\ rx # <<>> /\ rx' = Tail(rx)
      /\ IF Head(rx).verb = "TRIGGER" THEN Park(tx) ELSE UNCHANGED <<device, tx>>
      /\ host' = host /\ runs' = runs
      BY DeviceFrame DEF AppReads, DeviceStep
<1>2. host \in {"off", "probe", "enter"}
      BY <1>1 DEF RunFacts, InStep, AtSend, AtAnswer, AtDump, AtReady, AtClose, Asked, Carried, Parked
<1>3. CASE host = "off"
      BY <1>1, <1>3 DEF InStep, AtProbe, AtEnter, AtSend, AtAnswer, AtDump, AtReady, AtClose
<1>4. CASE host = "probe"
  <2>1. rx = <<Probe>> /\ tx = <<>>
        BY <1>1, <1>4 DEF InStep, AtProbe, Carried, Parked
  <2>2. Head(rx) = Probe /\ Tail(rx) = <<>>
        BY <2>1, OneLine
  <2>3. dev' = "app" /\ rx' = <<>> /\ tx' = <<>>
        BY <1>1, <2>1, <2>2 DEF Probe, Line, device
  <2>. QED BY <1>1, <1>4, <2>3 DEF InStep, AtProbe, AtEnter, AtSend, AtAnswer, AtDump, AtReady, AtClose
<1>5. CASE host = "enter"
  <2>1. rx \in {<<Probe, Trigger>>, <<Trigger>>} /\ tx = <<>>
        BY <1>1, <1>5 DEF InStep, AtEnter, Parked
  <2>2. CASE rx = <<Probe, Trigger>>
    <3>1. Head(rx) = Probe /\ Tail(rx) = <<Trigger>>
          BY <2>2, TwoLines
    <3>2. dev' = "app" /\ rx' = <<Trigger>> /\ tx' = <<>> /\ Trigger' = Trigger
          BY <1>1, <2>1, <3>1 DEF Probe, Trigger, Line, device
    <3>. QED BY <1>1, <1>5, <3>2 DEF InStep, AtProbe, AtEnter, AtSend, AtAnswer, AtDump, AtReady, AtClose
  <2>3. CASE rx = <<Trigger>>
    <3>1. Head(rx) = Trigger /\ Tail(rx) = <<>>
          BY <2>3, OneLine
    <3>2. Park(tx)
          BY <1>1, <3>1 DEF Trigger, Line
    <3>3. dev' = "read" /\ rx' = <<>> /\ tx' = Ready
          BY <1>1, <2>1, <3>1, <3>2, AnswerIs DEF Park
    <3>. QED BY <1>1, <1>5, <3>3 DEF InStep, AtProbe, AtEnter, AtSend, AtAnswer, AtDump, AtReady, AtClose, Parked, Ready
  <2>. QED BY <2>1, <2>2, <2>3
<1>. QED BY <1>2, <1>3, <1>4, <1>5

LEMMA ReadLineInStep ==
    ASSUME RunFacts, InStep, ReadLine
    PROVE  InStep'
<1>1. /\ dev = "read" /\ rx # <<>> /\ rx' = Tail(rx) /\ doing' = Head(rx) /\ dev' = "busy"
      /\ target' = target /\ tx' = tx
      /\ host' = host /\ runs' = runs /\ sent' = sent /\ heard' = heard
      BY DeviceFrame DEF ReadLine, DeviceStep
<1>2. host \in {"off", "probe", "answer", "dump"}
      BY <1>1 DEF RunFacts, InStep, AtEnter, AtSend, AtReady, AtClose, Parked
<1>3. CASE host = "off"
      BY <1>1, <1>3 DEF InStep, AtProbe, AtEnter, AtSend, AtAnswer, AtDump, AtReady, AtClose
<1>4. ASSUME NEW line, Carried(line)
      PROVE  dev' = "busy" /\ doing' = line /\ rx' = <<>> /\ tx' = <<>>
  <2>1. rx = <<line>> /\ tx = <<>>
        BY <1>1, <1>4 DEF Carried
  <2>. QED BY <1>1, <2>1, OneLine
<1>5. CASE host = "probe"
  <2>1. Carried(Probe)
        BY <1>1, <1>5 DEF InStep, AtProbe, Parked
  <2>2. Carried(Probe)'
        BY <1>1, <1>4, <2>1 DEF Carried, Probe, Line
  <2>. QED BY <1>1, <1>5, <2>2 DEF InStep, AtProbe, AtEnter, AtSend, AtAnswer, AtDump, AtReady, AtClose
<1>6. CASE host = "answer"
  <2>1. Asked /\ heard = "nothing"
        BY <1>1, <1>6 DEF InStep, AtAnswer, Parked
  <2>2. Asked' /\ heard' = "nothing"
        BY <1>1, <1>4, <2>1 DEF Carried, Asked, OnTarget
  <2>. QED BY <1>1, <1>6, <2>2 DEF InStep, AtProbe, AtEnter, AtSend, AtAnswer, AtDump, AtReady, AtClose
<1>7. CASE host = "dump"
  <2>1. Asked
        BY <1>1, <1>7 DEF InStep, AtDump, Parked
  <2>2. Asked'
        BY <1>1, <1>4, <2>1 DEF Carried, Asked, OnTarget
  <2>. QED BY <1>1, <1>7, <2>2 DEF InStep, AtProbe, AtEnter, AtSend, AtAnswer, AtDump, AtReady, AtClose
<1>. QED BY <1>2, <1>3, <1>5, <1>6, <1>7

LEMMA IdleExitInStep ==
    ASSUME RunFacts, InStep, IdleExit
    PROVE  InStep'
<1>1. dev = "read" /\ Idle /\ Restart /\ host' = host /\ runs' = runs
      BY DeviceFrame DEF IdleExit, DeviceStep
<1>2. CASE host = "off"
      BY <1>1, <1>2 DEF InStep, AtProbe, AtEnter, AtSend, AtAnswer, AtDump, AtReady, AtClose
<1>3. CASE host = "probe" /\ rx # <<>>
  <2>1. tx = <<>>
        BY <1>1, <1>3 DEF InStep, AtProbe, Carried, Parked
  <2>2. rx' = <<>> /\ (Park(tx) \/ (dev' = "app" /\ tx' = tx))
        BY <1>1, <1>3 DEF Restart
  <2>3. CASE Park(tx)
    <3>1. dev' = "read" /\ tx' = Ready
          BY <2>1, <2>3, AnswerIs DEF Park
    <3>. QED BY <1>1, <1>3, <2>2, <3>1 DEF InStep, AtProbe, AtEnter, AtSend, AtAnswer, AtDump, AtReady, AtClose, Parked, Ready
  <2>4. CASE dev' = "app" /\ tx' = tx
        BY <1>1, <1>3, <2>1, <2>2, <2>4 DEF InStep, AtProbe, AtEnter, AtSend, AtAnswer, AtDump, AtReady, AtClose
  <2>. QED BY <2>2, <2>3, <2>4
<1>. QED BY <1>1, <1>2, <1>3 DEF Idle

\* What a command that runs on its target prints, and what it leaves done.
LEMMA DispatchRuns ==
    ASSUME sent \in RunLine, sent.verb # "TARGET", doing = sent, target = sent.name, tx = <<>>, Dispatch
    PROVE  \E ok \in BOOLEAN : \E lines \in Outputs(sent.verb, ok) :
               Answers(lines) /\ target' = target /\ rx' = rx /\ (ok => Done(sent)')
<1>1. sent.name # NoName /\ sent.verb \in Slow /\ sent.verb # "DONE"
      BY LineOrNone DEF Slow
<1>2. LetThrough(doing)
      BY <1>1 DEF LetThrough
<1>3. PICK ok \in BOOLEAN : /\ \E lines \in Outputs(doing.verb, ok) : Answers(lines)
                            /\ ran' = ran \cup {[line |-> doing, on |-> target, ok |-> ok]}
                            /\ target' = target /\ rx' = rx
      BY <1>1, <1>2 DEF Dispatch
<1>4. ok => Done(sent)'
  <2>. DEFINE r == [line |-> sent, on |-> sent.name, ok |-> ok]
  <2>1. r \in ran'
        BY <1>3
  <2>2. r.line = sent /\ r.on = sent.name /\ r.ok = ok
        OBVIOUS
  <2>. HIDE DEF r
  <2>3. sent' = sent
        BY DeviceFrame DEF DeviceStep
  <2>. QED BY <2>1, <2>2, <2>3 DEF Done
<1>. QED BY <1>3, <1>4

LEMMA DumpOutputs ==
    ASSUME NEW verb \in Dump, NEW ok \in BOOLEAN, NEW lines \in Outputs(verb, ok)
    PROVE  \/ lines = <<Say("DUMP_END", TRUE)>> /\ ok
           \/ lines = <<>>
           \/ \E kind \in {"LIST_ERROR", "FILE_ERROR"} : lines = <<Say(kind, FALSE)>>
           \/ \E kind \in {"LIST_ERROR", "FILE_ERROR"} : lines = <<Say(kind, FALSE), Say("DUMP_END", FALSE)>>
<1>1. CASE verb = "DUMP_ALL" /\ ok
  <2>1. Outputs(verb, ok) = {<<Say("DUMP_END", TRUE)>>}
        BY <1>1 DEF Outputs
  <2>. QED BY <1>1, <2>1
<1>2. CASE verb = "DUMP_ALL" /\ ~ok
  <2>1. Outputs(verb, ok) = {<<Say("LIST_ERROR", FALSE)>>} \cup
            {<<Say(kind, FALSE), Say("DUMP_END", FALSE)>> : kind \in {"LIST_ERROR", "FILE_ERROR"}}
        BY <1>2 DEF Outputs
  <2>. QED BY <2>1
<1>3. CASE verb = "DUMP_FILE"
  <2>1. Outputs(verb, ok) = {IF ok THEN <<>> ELSE <<Say("FILE_ERROR", FALSE)>>}
        BY <1>3 DEF Outputs
  <2>. QED BY <2>1
<1>. QED BY <1>1, <1>2, <1>3 DEF Dump

LEMMA NoneEndsJoin ==
    ASSUME NEW s, NEW t, NoneEnds(s), NoneEnds(t)
    PROVE  NoneEnds(s \o t)
<1>1. s \in Seq(Said) /\ t \in Seq(Said) /\ Len(s) \in Nat /\ Len(t) \in Nat
      BY DEF NoneEnds
<1>2. /\ s \o t \in Seq(Said) /\ Len(s \o t) = Len(s) + Len(t)
      /\ \A i \in 1 .. Len(s) + Len(t) : (s \o t)[i] = IF i <= Len(s) THEN s[i] ELSE t[i - Len(s)]
      BY <1>1, ConcatProperties
<1>3. ASSUME NEW i \in 1 .. Len(s) + Len(t)
      PROVE  (s \o t)[i].kind = "DUMP_END" => ~(s \o t)[i].ok
  <2>1. CASE i <= Len(s)
        BY <1>1, <1>2, <2>1 DEF NoneEnds
  <2>2. CASE ~(i <= Len(s))
    <3>1. i - Len(s) \in 1 .. Len(t)
          BY <1>1, <2>2
    <3>. QED BY <1>2, <2>2, <3>1 DEF NoneEnds
  <2>. QED BY <2>1, <2>2
<1>. QED BY <1>2, <1>3 DEF NoneEnds

LEMMA NoneEndsOne ==
    ASSUME NEW m \in Said, m.kind = "DUMP_END" => ~m.ok
    PROVE  NoneEnds(<<m>>)
<1>1. <<m>> \in Seq(Said) /\ Len(<<m>>) = 1 /\ <<m>>[1] = m
      OBVIOUS
<1>2. \A i \in 1 .. Len(<<m>>) : <<m>>[i] = m
      BY <1>1
<1>. QED BY <1>1, <1>2 DEF NoneEnds

LEMMA SayIs ==
    \A kind : \A ok : Say(kind, ok).kind = kind /\ Say(kind, ok).ok = ok
BY DEF Say

\* A dump that prints no DUMP_END, or one that says that a file failed.
LEMMA DumpFails ==
    ASSUME NEW kind \in {"LIST_ERROR", "FILE_ERROR"}
    PROVE  /\ NoneEnds(<<>>) /\ NoneEnds(Ready)
           /\ NoneEnds(<<Say(kind, FALSE)>>)
           /\ NoneEnds(<<Say(kind, FALSE), Say("DUMP_END", FALSE)>>)
<1>1. NoneEnds(<<>>)
      BY DEF NoneEnds
<1>2. /\ Say("READY", TRUE) \in Said /\ Say(kind, FALSE) \in Said /\ Say("DUMP_END", FALSE) \in Said
      BY DEF Say, Said
<1>3. NoneEnds(Ready)
  <2>1. Say("READY", TRUE).kind # "DUMP_END"
        BY DEF Say
  <2>2. NoneEnds(<<Say("READY", TRUE)>>)
        BY <1>2, <2>1, NoneEndsOne
  <2>. QED BY <2>2 DEF Ready
<1>4. NoneEnds(<<Say(kind, FALSE)>>)
      BY <1>2, SayIs, NoneEndsOne
<1>5. NoneEnds(<<Say("DUMP_END", FALSE)>>)
      BY <1>2, SayIs, NoneEndsOne
<1>6. NoneEnds(<<Say(kind, FALSE)>> \o <<Say("DUMP_END", FALSE)>>)
      BY <1>4, <1>5, NoneEndsJoin
<1>7. <<Say(kind, FALSE)>> \o <<Say("DUMP_END", FALSE)>> = <<Say(kind, FALSE), Say("DUMP_END", FALSE)>>
      BY TwoLines
<1>. QED BY <1>1, <1>3, <1>4, <1>6, <1>7

LEMMA DispatchInStep ==
    ASSUME RunFacts, Trusted, InStep, Dispatch
    PROVE  InStep'
<1>1. dev = "busy" /\ host' = host /\ runs' = runs /\ sent' = sent /\ heard' = heard
      BY DeviceFrame DEF Dispatch, DeviceStep
<1>2. host \in {"off", "probe", "answer", "dump"}
      BY <1>1 DEF RunFacts, InStep, AtEnter, AtSend, AtReady, AtClose, Parked
<1>3. CASE host = "off"
      BY <1>1, <1>3 DEF InStep, AtProbe, AtEnter, AtSend, AtAnswer, AtDump, AtReady, AtClose
<1>4. CASE host = "probe"
  <2>1. doing = Probe /\ rx = <<>> /\ tx = <<>>
        BY <1>1, <1>4 DEF InStep, AtProbe, Carried, Parked
  <2>2. doing.verb = "PROBE"
        BY <2>1 DEF Probe, Line
  <2>3. Answers(Error) /\ rx' = rx
        BY <2>2 DEF Dispatch, Error, LetThrough, Slow
  <2>4. tx' = Error \o Ready /\ dev' = "read"
        BY <2>1, <2>3, AnswerIs DEF Error, Answers
  <2>5. Parked' /\ tx' \in {Error \o Ready, Ready}
        BY <2>1, <2>3, <2>4 DEF Parked
  <2>. QED BY <1>1, <1>4, <2>5 DEF InStep, AtProbe, AtEnter, AtSend, AtAnswer, AtDump, AtReady, AtClose, Error, Ready
<1>5. CASE host \in {"answer", "dump"}
  <2>1. Asked /\ doing = sent /\ rx = <<>> /\ tx = <<>>
        BY <1>1, <1>5 DEF InStep, AtAnswer, AtDump, Asked, Carried, Parked
  <2>2. sent \in RunLine /\ sent \in asked /\ sent.name \notin Rejected
        BY <1>5 DEF RunFacts, SentFact, Trusted
  <2>3. CASE sent.verb = "TARGET"
    <3>1. host = "answer"
          BY <1>5, <2>3 DEF RunFacts, SentFact, Dump
    <3>2. Answers(<<>>) /\ target' = sent.name /\ rx' = rx
          BY <2>1, <2>2, <2>3 DEF Dispatch, LetThrough, Slow
    <3>3. dev' = "read" /\ tx' = Ready
          BY <2>1, <3>2, AnswerIs DEF Answers
    <3>4. Parked' /\ OnTarget' /\ tx' = Ready
          BY <1>1, <2>1, <3>2, <3>3 DEF Parked, OnTarget
    <3>. QED BY <1>1, <2>3, <3>1, <3>4 DEF InStep, AtProbe, AtEnter, AtSend, AtAnswer, AtDump, AtReady, AtClose, Ready
  <2>4. CASE sent.verb # "TARGET"
    <3>1. target = sent.name
          BY <2>1, <2>4 DEF Asked, OnTarget
    <3>2. PICK ok \in BOOLEAN : \E lines \in Outputs(sent.verb, ok) :
              Answers(lines) /\ target' = target /\ rx' = rx /\ (ok => Done(sent)')
          BY <2>1, <2>2, <2>4, <3>1, DispatchRuns
    <3>3. PICK lines \in Outputs(sent.verb, ok) :
              Answers(lines) /\ target' = target /\ rx' = rx /\ (ok => Done(sent)')
          BY <3>2
    <3>4. Parked' /\ OnTarget'
          BY <1>1, <2>1, <3>1, <3>3 DEF Answers, Parked, OnTarget
    <3>5. CASE host = "answer"
      <4>1. sent.verb \in {"VALIDATE", "FORMAT"}
            BY <2>2, <2>4, <3>5 DEF RunFacts, SentFact, RunLine, Slow, Dump
      <4>2. lines = <<Say("RESULT", ok)>>
            BY <3>3, <4>1 DEF Outputs
      <4>3. tx' = <<Say("RESULT", ok)>> \o Ready
            BY <2>1, <3>3, <4>2, AnswerIs
      <4>4. AtAnswer'
            BY <1>1, <3>3, <3>4, <4>3 DEF AtAnswer, Ready, Say
      <4>. QED BY <1>1, <3>5, <4>4 DEF InStep, AtProbe, AtEnter, AtSend, AtDump, AtReady, AtClose
    <3>6. CASE host = "dump"
      <4>1. sent.verb \in Dump
            BY <3>6 DEF RunFacts, SentFact
      <4>2. \/ lines = <<Say("DUMP_END", TRUE)>> /\ ok
            \/ lines = <<>>
            \/ \E kind \in {"LIST_ERROR", "FILE_ERROR"} : lines = <<Say(kind, FALSE)>>
            \/ \E kind \in {"LIST_ERROR", "FILE_ERROR"} : lines = <<Say(kind, FALSE), Say("DUMP_END", FALSE)>>
            BY <4>1, DumpOutputs
      <4>3. CASE lines = <<Say("DUMP_END", TRUE)>> /\ ok
        <5>1. tx' = <<Say("DUMP_END", TRUE)>> \o Ready
              BY <2>1, <3>3, <4>3, AnswerIs
        <5>2. AtDump'
              BY <3>3, <3>4, <4>3, <5>1, <1>1 DEF AtDump, Ready, Say
        <5>. QED BY <1>1, <3>6, <5>2 DEF InStep, AtProbe, AtEnter, AtSend, AtAnswer, AtReady, AtClose
      <4>4. CASE ~(lines = <<Say("DUMP_END", TRUE)>> /\ ok)
        <5>1. NoneEnds(lines) /\ NoneEnds(<<>>) /\ NoneEnds(Ready)
              BY <4>2, <4>4, DumpFails
        <5>2. NoneEnds(<<>> \o lines)
              BY <5>1, NoneEndsJoin
        <5>3. NoneEnds((<<>> \o lines) \o Ready)
              BY <5>1, <5>2, NoneEndsJoin
        <5>4. tx' = (<<>> \o lines) \o Ready
              BY <2>1, <3>3 DEF Answers
        <5>5. NoneEnds(tx')
              BY <5>3, <5>4
        <5>6. AtDump'
              BY <3>4, <5>5 DEF AtDump, NoneEnds, Said
        <5>. QED BY <1>1, <3>6, <5>6 DEF InStep, AtProbe, AtEnter, AtSend, AtAnswer, AtReady, AtClose
      <4>. QED BY <4>3, <4>4
    <3>. QED BY <1>5, <3>5, <3>6
  <2>. QED BY <2>3, <2>4
<1>. QED BY <1>2, <1>3, <1>4, <1>5

LEMMA DeviceInStep ==
    ASSUME RunFacts, Trusted, Owed, InStep, DeviceStep
    PROVE  Owed' /\ InStep'
<1>1. InStep'
      BY AppReadsInStep, ReadLineInStep, IdleExitInStep, DispatchInStep DEF DeviceStep
<1>2. Owed'
      BY DeviceFrame, DoneStays DEF Owed
<1>. QED BY <1>1, <1>2

LEMMA SendInStep ==
    ASSUME RunFacts, Trusted, Owed, InStep, Send
    PROVE  Owed' /\ InStep'
<1>1. /\ host = "send" /\ rx' = Append(rx, Head(todo)) /\ sent' = Head(todo) /\ heard' = "nothing"
      /\ host' = (IF sent'.verb \in Dump THEN "dump" ELSE "answer")
      /\ dev' = dev /\ target' = target /\ tx' = tx /\ ran' = ran /\ asked' = asked
      BY DEF Send, device, watch
<1>2. dev = "read" /\ rx = <<>> /\ tx = <<>> /\ (sent # NoLine => target = sent.name)
      BY <1>1 DEF InStep, AtSend, Parked, OnTarget
<1>3. /\ ToSet(todo) = {sent'} \cup ToSet(todo')
      /\ sent'.verb # "TARGET" => sent # NoLine /\ sent'.name = sent.name
      BY TodoAtSend
<1>4. Owed'
      BY <1>1, <1>3 DEF Owed, Done
<1>5. rx' = <<sent'>>
      BY <1>1, <1>2, OneLine
<1>6. Asked'
      BY <1>1, <1>2, <1>3, <1>5 DEF Asked, Carried, OnTarget
<1>7. InStep'
      BY <1>1, <1>6 DEF InStep, AtProbe, AtEnter, AtSend, AtAnswer, AtDump, AtReady, AtClose
<1>. QED BY <1>4, <1>7

LEMMA ReadyIs == Ready # <<>> /\ Head(Ready) = Say("READY", TRUE) /\ Tail(Ready) = <<>>
BY OneLine DEF Ready

LEMMA ThenReady ==
    ASSUME NEW m
    PROVE  /\ <<m>> \o Ready # <<>> /\ Head(<<m>> \o Ready) = m /\ Tail(<<m>> \o Ready) = Ready
BY TwoLines DEF Ready

\* The tool takes the end of an answer for the end of the command it sent.
LEMMA HearAnswerInStep ==
    ASSUME RunFacts, Trusted, Trusted', Owed, InStep, Hear, HearAnswer
    PROVE  Owed' /\ InStep'
<1>1. /\ host = "answer" /\ tx # <<>> /\ tx' = Tail(tx)
      /\ dev' = dev /\ target' = target /\ rx' = rx /\ todo' = todo /\ sent' = sent
      /\ ran' = ran /\ asked' = asked
      BY DEF Hear, HearAnswer, device, watch
<1>2. /\ Parked /\ OnTarget
      /\ \/ tx = Ready /\ (sent.verb = "TARGET" \/ (Succeeded => Done(sent)))
         \/ \E ok \in BOOLEAN : tx = <<Say("RESULT", ok)>> \o Ready /\ (ok => Done(sent))
      BY <1>1 DEF InStep, AtAnswer, Asked, Carried
<1>3. Parked' /\ OnTarget'
      BY <1>1, <1>2 DEF Parked, OnTarget
<1>4. sent # NoLine
      BY <1>1 DEF RunFacts, SentFact
<1>5. CASE tx = Ready /\ (sent.verb = "TARGET" \/ (Succeeded => Done(sent)))
  <2>1. Head(tx).kind = "READY" /\ tx' = <<>>
        BY <1>1, <1>5, ReadyIs DEF Say
  <2>2. host' = "send" /\ (allOk' = (allOk /\ (sent.verb = "TARGET" \/ Succeeded)))
        BY <2>1 DEF HearAnswer
  <2>3. sent.verb = "TARGET" \/ Succeeded
        BY <2>2 DEF Trusted
  <2>4. sent.verb = "TARGET" \/ Done(sent)
        BY <1>5, <2>3
  <2>5. Owed'
        BY <1>1, <2>2, <2>4 DEF Owed, Done
  <2>6. AtSend'
        BY <1>3, <2>1 DEF AtSend
  <2>7. InStep'
        BY <2>2, <2>6 DEF InStep, AtProbe, AtEnter, AtAnswer, AtDump, AtReady, AtClose
  <2>. QED BY <2>5, <2>7
<1>6. ASSUME NEW ok \in BOOLEAN, tx = <<Say("RESULT", ok)>> \o Ready, ok => Done(sent)
      PROVE  Owed' /\ InStep'
  <2>1. Head(tx) = Say("RESULT", ok) /\ tx' = Ready
        BY <1>1, <1>6, ThenReady
  <2>2. Head(tx).kind = "RESULT" /\ Head(tx).ok = ok
        BY <2>1 DEF Say
  <2>3. host' = host /\ heard' = (IF ok THEN "ok" ELSE "bad")
        BY <2>2 DEF HearAnswer
  <2>4. Owed'
        BY <1>1, <2>3 DEF Owed, Done
  <2>5. Succeeded' => Done(sent)'
        BY <1>1, <1>6, <2>3 DEF Succeeded, Done
  <2>6. AtAnswer'
        BY <1>3, <2>1, <2>5 DEF AtAnswer, Ready
  <2>7. InStep'
        BY <1>1, <2>3, <2>6 DEF InStep, AtProbe, AtEnter, AtSend, AtDump, AtReady, AtClose
  <2>. QED BY <2>4, <2>7
<1>. QED BY <1>2, <1>5, <1>6

\* A dump is over at DUMP_END.
LEMMA HearDumpInStep ==
    ASSUME RunFacts, Trusted, Trusted', Owed, InStep, Hear, HearDump
    PROVE  Owed' /\ InStep'
<1>1. /\ host = "dump" /\ tx # <<>> /\ tx' = Tail(tx)
      /\ dev' = dev /\ target' = target /\ rx' = rx /\ todo' = todo /\ sent' = sent
      /\ ran' = ran /\ asked' = asked
      /\ host' = (IF Head(tx).kind = "DUMP_END" THEN "ready" ELSE "dump")
      BY DEF Hear, HearDump, device, watch
<1>2. /\ Parked /\ OnTarget
      /\ \/ tx = <<Say("DUMP_END", TRUE)>> \o Ready /\ Done(sent)
         \/ NoneEnds(tx)
      BY <1>1 DEF InStep, AtDump, Asked, Carried
<1>3. Parked' /\ OnTarget'
      BY <1>1, <1>2 DEF Parked, OnTarget
<1>4. CASE tx = <<Say("DUMP_END", TRUE)>> \o Ready /\ Done(sent)
  <2>1. Head(tx) = Say("DUMP_END", TRUE) /\ tx' = Ready
        BY <1>1, <1>4, ThenReady
  <2>2. host' = "ready"
        BY <1>1, <2>1 DEF Say
  <2>3. Owed'
        BY <1>1, <1>4, <2>2 DEF Owed, Done
  <2>4. AtReady'
        BY <1>1, <1>3, <1>4, <2>1 DEF AtReady, Done, Ready
  <2>5. InStep'
        BY <2>2, <2>4 DEF InStep, AtProbe, AtEnter, AtSend, AtAnswer, AtDump, AtClose
  <2>. QED BY <2>3, <2>5
<1>5. CASE NoneEnds(tx)
  <2>1. tx \in Seq(Said) /\ 1 \in 1 .. Len(tx) /\ Head(tx) = tx[1]
        BY <1>1, <1>5 DEF NoneEnds
  <2>2. NoneEnds(tx')
    <3>1. tx' \in Seq(Said) /\ \A i \in 1 .. Len(tx') : i + 1 \in 1 .. Len(tx) /\ tx'[i] = tx[i + 1]
          BY <1>1, <2>1, HeadTailProperties
    <3>. QED BY <1>5, <3>1 DEF NoneEnds
  <2>3. Head(tx).kind = "DUMP_END" => ~Head(tx).ok
        BY <1>5, <2>1 DEF NoneEnds
  <2>4. Head(tx).kind # "DUMP_END"
    <3>1. Head(tx).kind = "DUMP_END" => ~allOk'
          BY <2>3 DEF HearDump
    <3>. QED BY <3>1 DEF Trusted
  <2>5. host' = "dump"
        BY <1>1, <2>4
  <2>6. Owed'
        BY <1>1, <2>5 DEF Owed, Done
  <2>7. AtDump'
        BY <1>3, <2>2 DEF AtDump, NoneEnds, Said
  <2>8. InStep'
        BY <2>5, <2>7 DEF InStep, AtProbe, AtEnter, AtSend, AtAnswer, AtReady, AtClose
  <2>. QED BY <2>6, <2>8
<1>. QED BY <1>2, <1>4, <1>5

LEMMA HearReadyInStep ==
    ASSUME RunFacts, Trusted, Owed, InStep, Hear, HearReady
    PROVE  Owed' /\ InStep'
<1>1. /\ host \in {"probe", "enter", "ready"} /\ tx # <<>> /\ tx' = Tail(tx)
      /\ dev' = dev /\ target' = target /\ rx' = rx /\ todo' = todo /\ sent' = sent
      /\ ran' = ran /\ asked' = asked /\ runs' = runs
      /\ host' = (IF Head(tx).kind = "READY" THEN "send" ELSE host)
      BY DEF Hear, HearReady, device, watch
<1>2. Owed'
      BY <1>1 DEF Owed, Done
<1>3. Parked
      BY <1>1 DEF InStep, AtProbe, AtEnter, AtReady, Carried
<1>4. Parked'
      BY <1>1, <1>3 DEF Parked
<1>5. CASE tx = Ready
  <2>1. host' = "send" /\ tx' = <<>>
        BY <1>1, <1>5, ReadyIs DEF Say
  <2>2. sent' # NoLine => OnTarget'
        BY <1>1 DEF RunFacts, SentFact, InStep, AtReady, OnTarget
  <2>3. InStep'
        BY <1>4, <2>1, <2>2 DEF InStep, AtProbe, AtEnter, AtSend, AtAnswer, AtDump, AtReady, AtClose
  <2>. QED BY <1>2, <2>3
<1>6. CASE tx # Ready
  <2>1. host = "probe" /\ tx = Error \o Ready
        BY <1>1, <1>6 DEF InStep, AtProbe, AtEnter, AtReady, Carried
  <2>2. Head(tx) = Say("ERROR", FALSE) /\ tx' = Ready
        BY <1>1, <2>1, ThenReady DEF Error
  <2>3. host' = "probe"
        BY <1>1, <2>1, <2>2 DEF Say
  <2>4. InStep'
        BY <1>4, <2>2, <2>3 DEF InStep, AtProbe, AtEnter, AtSend, AtAnswer, AtDump, AtReady, AtClose, Ready, Error
  <2>. QED BY <1>2, <2>4
<1>. QED BY <1>5, <1>6

\* A run whose answer does not come is no longer trusted.  The device is woken where the
\* tool believes it to be, and a reset by DTR leaves it idle whatever it was at.
LEMMA TimeOutInStep ==
    ASSUME RunFacts, Trusted => InStep, TimeOut, Trusted'
    PROVE  Owed' /\ InStep'
<1>1. CASE host = "probe"
  <2>1. /\ host' = "enter" /\ Silent /\ todo' = todo /\ allOk' = allOk /\ asked' = asked /\ runs' = runs
        /\ Wake /\ asked = ToSet(todo)
        BY <1>1 DEF TimeOut, Wake, RunFacts, SentFact
  <2>2. Owed'
        BY <2>1 DEF Owed
  <2>3. CASE firmware = "production"
    <3>1. rx' = Append(rx, Trigger) /\ tx' = <<>> /\ dev' = dev /\ quiet' = quiet
          BY <1>1, <2>1, <2>3 DEF Wake, ResetInput, device, Trigger
    <3>2. InStep
          BY <2>1, <3>1 DEF Trusted
    <3>3. dev = "app" /\ rx \in {<<>>, <<Probe>>}
      <4>1. \/ dev = "app" /\ rx \in {<<>>, <<Probe>>}
            \/ Carried(Probe)
            \/ Parked /\ tx \in {Error \o Ready, Ready}
            BY <1>1, <3>2 DEF InStep, AtProbe
      <4>2. ~Carried(Probe)
        <5>1. Probe.verb \notin Slow /\ <<Probe>> # <<>>
              BY OneLine DEF Probe, Line, Slow
        <5>. QED BY <2>1, <5>1 DEF Silent, Carried
      <4>3. Ready # <<>> /\ Error \o Ready # <<>>
            BY ReadyIs, ThenReady DEF Error
      <4>. QED BY <2>1, <4>1, <4>2, <4>3 DEF Silent
    <3>4. rx' \in {<<Probe, Trigger>>, <<Trigger>>}
      <4>1. Append(<<>>, Trigger) = <<Trigger>> /\ Append(<<Probe>>, Trigger) = <<Probe, Trigger>>
            BY OneLine, TwoLines
      <4>. QED BY <3>1, <3>3, <4>1
    <3>5. AtEnter'
          BY <2>1, <3>1, <3>3, <3>4 DEF AtEnter, Probe, Trigger
    <3>. QED BY <2>1, <2>2, <3>5 DEF InStep, AtProbe, AtSend, AtAnswer, AtDump, AtReady, AtClose
  <2>4. CASE firmware = "standalone"
    <3>1. rx' = <<>> /\ dev' = "read" /\ tx' = Ready
      <4>1. rx' = <<>> /\ Park(<<>>)
            BY <2>1, <2>4 DEF Wake
      <4>2. <<>> \o Ready = Ready
            BY OneLine DEF Ready
      <4>. QED BY <4>1, <4>2 DEF Park
    <3>2. AtEnter'
          BY <3>1 DEF AtEnter, Parked, Ready
    <3>. QED BY <2>1, <2>2, <3>2 DEF InStep, AtProbe, AtSend, AtAnswer, AtDump, AtReady, AtClose
  <2>. QED BY <2>1, <2>3, <2>4 DEF Wake
<1>2. CASE host # "probe"
  <2>1. ~allOk'
        BY <1>2 DEF TimeOut, Off
  <2>. QED BY <2>1 DEF Trusted
<1>. QED BY <1>1, <1>2

\* A run that finds the device idle has it to itself.
LEMMA ConnectInStep ==
    ASSUME RunFacts, Connect, Trusted'
    PROVE  Owed' /\ InStep'
<1>1. /\ host' = "probe" /\ asked' = ToSet(todo')
      /\ rx' = Append(rx, Line("PROBE", NoName, runs')) /\ tx' = <<>>
      /\ quiet' = (dev # "busy" /\ rx = <<>>) /\ dev' = dev
      BY DEF Connect, ResetInput, device
<1>2. dev # "busy" /\ rx = <<>>
      BY <1>1 DEF Trusted
<1>3. rx' = <<Probe'>>
      BY <1>1, <1>2, OneLine DEF Probe
<1>4. dev \in {"app", "read"} => AtProbe'
      BY <1>1, <1>3 DEF AtProbe, Carried
<1>5. dev \in {"app", "read"}
      BY <1>2 DEF RunFacts
<1>. QED BY <1>1, <1>4, <1>5 DEF Owed, InStep, AtEnter, AtSend, AtAnswer, AtDump, AtReady, AtClose

LEMMA OtherInStep ==
    ASSUME RunFacts, Trusted, Owed, InStep, Close \/ Die \/ UNCHANGED vars, Trusted'
    PROVE  Owed' /\ InStep'
<1>1. CASE Close \/ Die
  <2>1. ~allOk'
        BY <1>1 DEF Close, Die, Off
  <2>. QED BY <2>1 DEF Trusted
<1>2. CASE UNCHANGED vars
  <2>1. /\ dev' = dev /\ target' = target /\ doing' = doing /\ rx' = rx /\ tx' = tx
        /\ host' = host /\ todo' = todo /\ sent' = sent /\ heard' = heard /\ runs' = runs
        /\ ran' = ran /\ asked' = asked
        BY <1>2 DEF vars, device, tool, watch
  <2>2. Owed'
        BY <2>1 DEF Owed, Done
  <2>3. AtProbe' /\ AtEnter' /\ AtSend' /\ AtClose'
        BY <2>1 DEF InStep, AtProbe, AtEnter, AtSend, AtClose, Carried, Parked, OnTarget, Probe, Trigger, Line, Error, Ready
  <2>4. AtAnswer' /\ AtDump' /\ AtReady'
        BY <2>1 DEF InStep, AtAnswer, AtDump, AtReady, Asked, Carried, Parked, OnTarget, Ready, Succeeded, Done, NoneEnds, Said
  <2>. QED BY <2>2, <2>3, <2>4 DEF InStep
<1>. QED BY <1>1, <1>2

LEMMA InStepKept ==
    ASSUME DoctorInv, [Next]_vars, Trusted'
    PROVE  Owed' /\ InStep'
<1>1. RunFacts /\ (Trusted => Owed /\ InStep)
      BY DEF DoctorInv
<1>2. CASE Connect
      BY <1>1, <1>2, ConnectInStep
<1>3. CASE TimeOut
      BY <1>1, <1>3, TimeOutInStep
<1>4. CASE ~Connect /\ ~TimeOut
  <2>1. Trusted
        BY <1>4, TrustIsOld
  <2>2. Owed /\ InStep
        BY <1>1, <2>1
  <2>3. CASE DeviceStep
        BY <1>1, <2>1, <2>2, <2>3, DeviceInStep
  <2>4. CASE Send
        BY <1>1, <2>1, <2>2, <2>4, SendInStep
  <2>5. CASE Hear
        BY <1>1, <2>1, <2>2, <2>5, HearAnswerInStep, HearDumpInStep, HearReadyInStep DEF Hear
  <2>6. CASE Close \/ Die \/ UNCHANGED vars
        BY <1>1, <2>1, <2>2, <2>6, OtherInStep
  <2>. QED BY <1>4, <2>3, <2>4, <2>5, <2>6 DEF Next, HostStep
<1>. QED BY <1>2, <1>3, <1>4

-----------------------------------------------------------------------------
(* The exit status.                                                         *)

LEMMA TruthAtClose ==
    ASSUME DoctorInv, Close
    PROVE  SuccessIsTrue'
<1>1. /\ exit' = [ok |-> allOk, quiet |-> quiet, asked |-> asked] /\ ran' = ran
      /\ host = "close" \/ (host = "send" /\ todo = <<>>)
      BY DEF Close
<1>2. exit'.ok = allOk /\ exit'.quiet = quiet /\ exit'.asked = asked
      BY <1>1
<1>3. SUFFICES ASSUME exit'.ok, exit'.quiet, \A line \in exit'.asked : line.name \notin Rejected
               PROVE  \A line \in exit'.asked : line.verb # "TARGET" => Done(line)'
      BY DEF SuccessIsTrue, RanAsAsked
<1>4. Trusted
      BY <1>2, <1>3 DEF Trusted
<1>5. Owed /\ AtClose
      BY <1>4 DEF DoctorInv, InStep
<1>6. host = "send" /\ ToSet(todo) = {}
      BY <1>1, <1>5 DEF AtClose, ToSet
<1>7. ASSUME NEW line \in asked PROVE line.verb = "TARGET" \/ Done(line)
      BY <1>5, <1>6 DEF Owed
<1>. QED BY <1>1, <1>2, <1>7 DEF Done

LEMMA TruthKept ==
    ASSUME DoctorInv, [Next]_vars
    PROVE  SuccessIsTrue'
<1>1. CASE Close
      BY <1>1, TruthAtClose
<1>2. CASE exit' = NoExit
      BY <1>2 DEF SuccessIsTrue, NoExit
<1>3. CASE exit' = exit /\ ran \subseteq ran'
  <2>1. RanAsAsked => RanAsAsked'
        BY <1>3, DoneStays DEF RanAsAsked
  <2>2. SuccessIsTrue
        BY DEF DoctorInv
  <2>. QED BY <1>3, <2>1, <2>2 DEF SuccessIsTrue
<1>4. CASE DeviceStep
      BY <1>3, <1>4, DeviceFrame
<1>5. CASE TimeOut
      BY <1>2, <1>3, <1>5 DEF TimeOut
<1>6. CASE Connect
      BY <1>2, <1>6 DEF Connect
<1>. QED BY <1>1, <1>3, <1>4, <1>5, <1>6 DEF Next, HostStep, Send, Hear, Die, vars, watch

\* A run that exits with success was given an idle device that knows its targets, and has
\* had every command it asked for executed, on the target it was asked for, and heard
\* that it succeeded (pqueue_doctor.py:464-710, session.h:428-450).  Holds of every
\* number of targets, script, list, rejected target and number of runs and deaths.
THEOREM ExitIsTrue == Spec => []SuccessIsTrue
<1>1. Init => DoctorInv
      BY DoctorStart
<1>2. DoctorInv /\ [Next]_vars => DoctorInv'
  <2>. SUFFICES ASSUME DoctorInv, [Next]_vars PROVE DoctorInv'
       OBVIOUS
  <2>1. RunFacts'
        BY RunFactsKept DEF DoctorInv
  <2>2. Trusted' => Owed' /\ InStep'
        BY InStepKept
  <2>. QED BY <2>1, <2>2, TruthKept DEF DoctorInv
<1>3. DoctorInv => SuccessIsTrue
      BY DEF DoctorInv
<1>. QED BY <1>1, <1>2, <1>3, PTL DEF Spec
=============================================================================
