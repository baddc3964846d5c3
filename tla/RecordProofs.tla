------------------------------ MODULE RecordProofs ------------------------------
(***************************************************************************)
(* Proofs about what the handlers send: the messages of a log, the rounds  *)
(* of a container statistics session and the samples of a host, for any    *)
(* messages, containers, processors and numbers of samples.                *)
(***************************************************************************)
EXTENDS StatsRound, HostSample, LogFraming, SequenceTheorems, FiniteSetTheorems,
        WellFoundedInduction, TLAPS

--------------------------------------------------------------------------------
(* The frames of a log.                                                     *)

\* The bytes of messages and of what wrapMessage puts around them.
Bytes == STRING \union {"[", "R", "]", "0"}

Frame(m) == bothPrefix \o m \o messageSeparator

WriterSteps == {"idle", "append", "write", "failed", "closed"}

LogType ==
    [step : WriterSteps, written : Seq(Messages), pipe : Seq(Bytes), n : Nat, data : Seq(Bytes),
     tokens : Seq(Seq(Bytes))]

LogTypeOK ==
    /\ spare \in Seq(Bytes) /\ Len(spare) = Spare
    /\ logs \in [Sessions -> LogType]
    /\ \A k \in Sessions : logs[k].step = "append" => Len(logs[k].written) > 0

\* The messages up to the j-th have left the pipe; the scanner has cut off all of them, or
\* all but the last.
Scanned(l, j) ==
    \/ Len(l.tokens) = j /\ l.data = <<>>
    \/ j > 0 /\ Len(l.tokens) = j - 1 /\ l.data = Frame(l.written[j])

\* The scanner's buffer has c bytes of the last message.
Reading(l, c) ==
    /\ Len(l.tokens) = Len(l.written) - 1
    /\ l.data = SubSeq(Frame(l.written[Len(l.written)]), 1, c)

Complete(l) ==
    \A i \in 1 .. Len(l.tokens) :
        \/ l.tokens[i] = bothPrefix \o l.written[i]
        \/ l.step = "closed" /\ i = Len(l.written)

\* Where the bytes of the last message are, by the step of its writer.
Placed(l) ==
    LET w == Len(l.written)
        f == Frame(l.written[w])
    IN  /\ l.step # "failed"
        /\ l.step = "idle" => l.pipe = <<>> /\ Scanned(l, w)
        /\ l.step = "append" => w > 0 /\ l.pipe = <<>> /\ Scanned(l, w - 1)
        /\ l.step = "write" =>
             /\ w > 0 /\ l.n = Len(f)
             /\ \/ l.pipe = f /\ Scanned(l, w - 1)
                \/ \E c \in 1 .. Len(f) : Reading(l, c) /\ l.pipe = SubSeq(f, c + 1, Len(f))
                \/ l.pipe = <<>> /\ Scanned(l, w)
        /\ l.step = "closed" =>
             /\ l.pipe = <<>>
             /\ \/ \E j \in 0 .. w : Scanned(l, j)
                \/ w > 0 /\ \E c \in 1 .. Len(f) - 1 : Reading(l, c)

LogOK(l) == Complete(l) /\ Placed(l)

\* What a session has put behind the prefix is still there when it wraps its message.
SpareOK ==
    \A k \in Sessions :
        logs[k].step = "append" /\ SharesPrefix(Message(k)) =>
            Spared(Len(Message(k))) = Message(k)

LogInv ==
    /\ LogTypeOK
    /\ Racing \/ (SpareOK /\ \A k \in Sessions : LogOK(logs[k]))

\* Messages are sequences of bytes without the separator.
LEMMA MessageBytes ==
    ASSUME NEW m \in Messages
    PROVE  m \in Seq(Bytes) /\ Separators(m) = {}
<1>1. m \in Seq(STRING) /\ Separators(m) = {}
  BY LogFramingAssumption, Zenon
<1>2. STRING \subseteq Bytes
  BY Zenon DEF Bytes
<1>3. Len(m) \in Nat /\ m \in [1 .. Len(m) -> STRING]
  BY <1>1
<1>4. m \in [1 .. Len(m) -> Bytes]
  BY <1>2, <1>3, Zenon
<1>. QED
  BY <1>1, <1>3, <1>4

\* The elements of two sequences, one after the other.
LEMMA Concat ==
    ASSUME NEW S, NEW s \in Seq(S), NEW t \in Seq(S)
    PROVE  /\ s \o t \in Seq(S) /\ Len(s \o t) = Len(s) + Len(t)
           /\ \A i \in 1 .. Len(s) : (s \o t)[i] = s[i]
           /\ \A i \in 1 .. Len(t) : (s \o t)[Len(s) + i] = t[i]
<1>. DEFINE u == s \o t
<1>1. Len(s) \in Nat /\ Len(t) \in Nat
  BY LenProperties, Zenon
<1>2. /\ u \in Seq(S) /\ Len(u) = Len(s) + Len(t)
      /\ \A i \in 1 .. Len(s) + Len(t) : u[i] = IF i <= Len(s) THEN s[i] ELSE t[i - Len(s)]
  BY ConcatProperties, Zenon
<1>. HIDE DEF u
<1>3. \A i \in 1 .. Len(s) : u[i] = s[i]
  BY <1>1, <1>2
<1>4. \A i \in 1 .. Len(t) : u[Len(s) + i] = t[i]
  <2>. TAKE i \in 1 .. Len(t)
  <2>1. Len(s) + i \in 1 .. Len(s) + Len(t) /\ ~(Len(s) + i <= Len(s)) /\ (Len(s) + i) - Len(s) = i
    BY <1>1
  <2>. QED
    BY <1>2, <2>1, Zenon
<1>. QED
  BY <1>2, <1>3, <1>4, Zenon DEF u

\* bytes.Index finds a place where the three bytes of the separator are.
LEMMA SeparatorAt ==
    ASSUME NEW data \in Seq(Bytes), NEW i \in Int
    PROVE  i \in Separators(data) <=>
             /\ 1 <= i /\ i + 2 <= Len(data)
             /\ data[i] = "[" /\ data[i + 1] = "R" /\ data[i + 2] = "]"
<1>1. Len(messageSeparator) = 3
  BY Zenon DEF messageSeparator
<1>2. i \in Separators(data) <=>
        1 <= i /\ i + 2 <= Len(data) /\ SubSeq(data, i, i + 2) = messageSeparator
  <2>1. i \in Separators(data) <=>
          /\ i \in 1 .. (Len(data) + 1) - 3
          /\ SubSeq(data, i, i + 3 - 1) = messageSeparator
    BY <1>1, Zenon DEF Separators
  <2>2. i + 3 - 1 = i + 2
    OBVIOUS
  <2>3. i \in 1 .. (Len(data) + 1) - 3 <=> 1 <= i /\ i + 2 <= Len(data)
    OBVIOUS
  <2>. QED
    BY <2>1, <2>2, <2>3, Zenon
<1>3. ASSUME 1 <= i, i + 2 <= Len(data)
      PROVE  SubSeq(data, i, i + 2) = <<data[i], data[i + 1], data[i + 2]>>
  <2>. DEFINE t == <<data[i], data[i + 1], data[i + 2]>>
              u == SubSeq(data, i, i + 2)
  <2>1. \A j \in i .. i + 2 : data[j] \in Bytes
    BY <1>3
  <2>2. u \in Seq(Bytes) /\ Len(u) = 3 /\ \A j \in 1 .. 3 : u[j] = data[(i + j) - 1]
    BY <2>1, SubSeqProperties
  <2>3. data[i] \in Bytes /\ data[i + 1] \in Bytes /\ data[i + 2] \in Bytes
    BY <2>1
  <2>4. t \in Seq(Bytes) /\ Len(t) = 3 /\ t[1] = data[i] /\ t[2] = data[i + 1] /\ t[3] = data[i + 2]
    BY <2>3
  <2>. HIDE DEF t, u
  <2>5. \A j \in 1 .. 3 : u[j] = t[j]
    BY <2>2, <2>4
  <2>6. u = t
    BY <2>2, <2>4, <2>5, SeqEqual, Zenon
  <2>. QED
    BY <2>6, Zenon DEF t, u
<1>4. messageSeparator = <<"[", "R", "]">>
  BY Zenon DEF messageSeparator
<1>5. ASSUME 1 <= i, i + 2 <= Len(data)
      PROVE  SubSeq(data, i, i + 2) = messageSeparator <=>
               data[i] = "[" /\ data[i + 1] = "R" /\ data[i + 2] = "]"
  <2>1. \A a, b, c : <<a, b, c>> = <<"[", "R", "]">> <=> a = "[" /\ b = "R" /\ c = "]"
    BY Zenon
  <2>. QED
    BY <1>3, <1>4, <1>5, <2>1
<1>. QED
  BY <1>2, <1>5, Zenon

\* A framed message, byte by byte.
LEMMA FrameBytes ==
    ASSUME NEW m \in Seq(Bytes)
    PROVE  /\ Frame(m) \in Seq(Bytes) /\ Len(Frame(m)) = Len(m) + 4
           /\ Frame(m)[1] = "0" /\ \A i \in 1 .. Len(m) : Frame(m)[i + 1] = m[i]
           /\ Frame(m)[Len(m) + 2] = "[" /\ Frame(m)[Len(m) + 3] = "R"
           /\ Frame(m)[Len(m) + 4] = "]"
<1>. DEFINE p == bothPrefix \o m
<1>1. bothPrefix \in Seq(Bytes) /\ Len(bothPrefix) = 1 /\ bothPrefix[1] = "0"
  BY DEF bothPrefix, Bytes
<1>2. messageSeparator \in Seq(Bytes) /\ Len(messageSeparator) = 3
      /\ messageSeparator[1] = "[" /\ messageSeparator[2] = "R" /\ messageSeparator[3] = "]"
  BY DEF messageSeparator, Bytes
<1>3. p \in Seq(Bytes) /\ Len(p) = Len(m) + 1 /\ p[1] = "0"
      /\ \A i \in 1 .. Len(m) : p[i + 1] = m[i]
  <2>1. /\ p \in Seq(Bytes) /\ Len(p) = Len(bothPrefix) + Len(m)
        /\ \A i \in 1 .. Len(bothPrefix) : p[i] = bothPrefix[i]
        /\ \A i \in 1 .. Len(m) : p[Len(bothPrefix) + i] = m[i]
    <3>. bothPrefix \in Seq(Bytes)
      BY <1>1, Zenon
    <3>. QED
      BY Concat
  <2>. HIDE DEF p
  <2>. QED
    BY <1>1, <2>1
<1>. HIDE DEF p
<1>4. /\ p \o messageSeparator \in Seq(Bytes)
      /\ Len(p \o messageSeparator) = Len(p) + Len(messageSeparator)
      /\ \A i \in 1 .. Len(p) : (p \o messageSeparator)[i] = p[i]
      /\ \A i \in 1 .. Len(messageSeparator) :
           (p \o messageSeparator)[Len(p) + i] = messageSeparator[i]
  <2>. p \in Seq(Bytes) /\ messageSeparator \in Seq(Bytes)
    BY <1>2, <1>3, Zenon
  <2>. QED
    BY Concat
<1>5. Len(p \o messageSeparator) = Len(p) + 3
      /\ \A i \in 1 .. 3 : (p \o messageSeparator)[Len(p) + i] = messageSeparator[i]
  BY <1>2, <1>4, Zenon
<1>7. Frame(m) = p \o messageSeparator
  BY Zenon DEF Frame, p
<1>8. Len(m) \in Nat
  OBVIOUS
<1>. DEFINE f == p \o messageSeparator
<1>9. f \in Seq(Bytes) /\ Len(f) = Len(m) + 4
  BY <1>3, <1>4, <1>5, <1>8
<1>10. f[1] = "0"
  BY <1>3, <1>4, <1>8
<1>11. \A i \in 1 .. Len(m) : f[i + 1] = m[i]
  <2>. SUFFICES ASSUME NEW i \in 1 .. Len(m)
                PROVE  f[i + 1] = m[i]
    BY Zenon
  <2>1. i + 1 \in 1 .. Len(p)
    BY <1>3, <1>8
  <2>. QED
    BY <1>3, <1>4, <2>1, Zenon
<1>12. f[Len(m) + 2] = "[" /\ f[Len(m) + 3] = "R" /\ f[Len(m) + 4] = "]"
  <2>1. Len(p) + 1 = Len(m) + 2 /\ Len(p) + 2 = Len(m) + 3 /\ Len(p) + 3 = Len(m) + 4
    BY <1>3, <1>8
  <2>2. f[Len(p) + 1] = "[" /\ f[Len(p) + 2] = "R" /\ f[Len(p) + 3] = "]"
    <3>. 1 \in 1 .. 3 /\ 2 \in 1 .. 3 /\ 3 \in 1 .. 3
      OBVIOUS
    <3>. QED
      BY <1>2, <1>5, Zenon
  <2>. QED
    BY <2>1, <2>2, Zenon
<1>. HIDE DEF f
<1>13. Frame(m) = f
  BY <1>7, Zenon DEF f
<1>. QED
  BY <1>9, <1>10, <1>11, <1>12, <1>13, Zenon

\* The beginning of a frame.
LEMMA BeginBytes ==
    ASSUME NEW f \in Seq(Bytes), NEW c \in 0 .. Len(f)
    PROVE  /\ SubSeq(f, 1, c) \in Seq(Bytes) /\ Len(SubSeq(f, 1, c)) = c
           /\ \A i \in 1 .. c : SubSeq(f, 1, c)[i] = f[i]
<1>1. c \in Nat /\ c \in Int /\ \A i \in 1 .. c : f[i] \in Bytes
  OBVIOUS
<1>2. /\ SubSeq(f, 1, c) \in Seq(Bytes)
      /\ Len(SubSeq(f, 1, c)) = IF 1 <= c THEN (c - 1) + 1 ELSE 0
      /\ \A i \in 1 .. (c - 1) + 1 : SubSeq(f, 1, c)[i] = f[(1 + i) - 1]
  BY <1>1, SubSeqProperties
<1>. QED
  BY <1>1, <1>2

\* The separator of a frame is the only one in it: it does not overlap itself, the prefix
\* has none of its bytes, and the message does not have it.
LEMMA FrameSeparators ==
    ASSUME NEW m \in Seq(Bytes), Separators(m) = {}, NEW i \in Int
    PROVE  i \in Separators(Frame(m)) <=> i = Len(m) + 2
<1>1. /\ Frame(m) \in Seq(Bytes) /\ Len(Frame(m)) = Len(m) + 4 /\ Len(m) \in Nat
      /\ Frame(m)[1] = "0" /\ \A j \in 1 .. Len(m) : Frame(m)[j + 1] = m[j]
      /\ Frame(m)[Len(m) + 2] = "[" /\ Frame(m)[Len(m) + 3] = "R"
      /\ Frame(m)[Len(m) + 4] = "]"
  BY FrameBytes, LenProperties, Zenon
<1>. DEFINE f == Frame(m)
<1>. HIDE DEF f
<1>2. i \in Separators(f) <=>
        1 <= i /\ i + 2 <= Len(f) /\ f[i] = "[" /\ f[i + 1] = "R" /\ f[i + 2] = "]"
  <2>1. f \in Seq(Bytes)
    BY <1>1, Zenon DEF f
  <2>. QED
    BY <2>1, SeparatorAt, Zenon
<1>3. i = Len(m) + 2 => i \in Separators(f)
  BY <1>1, <1>2 DEF f
<1>4. ASSUME i \in Separators(f), i # Len(m) + 2 PROVE FALSE
  <2>1. 1 <= i /\ i <= Len(m) + 1 /\ f[i] = "[" /\ f[i + 1] = "R" /\ f[i + 2] = "]"
    BY <1>1, <1>2, <1>4 DEF f
  <2>2. i # 1
    BY <1>1, <2>1, Zenon DEF f
  <2>3. i # Len(m) + 1
    BY <1>1, <2>1 DEF f
  <2>4. i # Len(m)
    BY <1>1, <2>1, Zenon DEF f
  <2>5. i - 1 \in Int /\ 1 <= i - 1 /\ (i - 1) + 2 <= Len(m)
    BY <1>1, <2>1, <2>2, <2>3, <2>4
  <2>6. m[i - 1] = "[" /\ m[(i - 1) + 1] = "R" /\ m[(i - 1) + 2] = "]"
    <3>1. \A j \in 1 .. Len(m) : f[j + 1] = m[j]
      BY <1>1, Zenon DEF f
    <3>2. f[(i - 1) + 1] = m[i - 1] /\ f[i + 1] = m[i] /\ f[(i + 1) + 1] = m[i + 1]
      BY <1>1, <2>5, <3>1
    <3>3. (i - 1) + 1 = i /\ (i + 1) + 1 = i + 2 /\ (i - 1) + 2 = i + 1
      OBVIOUS
    <3>. QED
      BY <2>1, <3>2, <3>3, Zenon
  <2>7. i - 1 \in Separators(m)
    BY <2>5, <2>6, SeparatorAt, Zenon
  <2>. QED
    BY <2>7, Zenon
<1>. QED
  BY <1>3, <1>4, Zenon DEF f

\* So a beginning of a frame has none.
LEMMA BeginSeparators ==
    ASSUME NEW m \in Seq(Bytes), Separators(m) = {}, NEW c \in 0 .. Len(Frame(m)) - 1
    PROVE  Separators(SubSeq(Frame(m), 1, c)) = {}
<1>. DEFINE f == Frame(m)
            d == SubSeq(f, 1, c)
<1>1. f \in Seq(Bytes) /\ Len(f) = Len(m) + 4 /\ Len(m) \in Nat
  BY FrameBytes, LenProperties, Zenon
<1>2. c \in 0 .. Len(f) /\ c + 1 <= Len(f)
  BY <1>1
<1>. HIDE DEF f
<1>3. d \in Seq(Bytes) /\ Len(d) = c /\ \A j \in 1 .. c : d[j] = f[j]
  BY <1>1, <1>2, BeginBytes, Zenon
<1>. HIDE DEF d
<1>. SUFFICES ASSUME NEW i \in Separators(d) PROVE FALSE
  BY Zenon DEF d, f
<1>4. i \in Int
  BY DEF Separators
<1>5. 1 <= i /\ i + 2 <= c /\ d[i] = "[" /\ d[i + 1] = "R" /\ d[i + 2] = "]"
  BY <1>3, <1>4, SeparatorAt
<1>6. f[i] = "[" /\ f[i + 1] = "R" /\ f[i + 2] = "]" /\ i + 2 <= Len(f) /\ i # Len(m) + 2
  BY <1>1, <1>2, <1>3, <1>4, <1>5
<1>7. i \in Separators(f)
  BY <1>1, <1>4, <1>5, <1>6, SeparatorAt, Zenon
<1>. QED
  BY <1>4, <1>6, <1>7, FrameSeparators, Zenon DEF f

\* customSplit cuts a whole frame into its content and nothing.
LEMMA SplitWhole ==
    ASSUME NEW m \in Seq(Bytes), Separators(m) = {}, NEW atEOF
    PROVE  /\ customSplit(Frame(m), atEOF).token = << bothPrefix \o m >>
           /\ customSplit(Frame(m), atEOF).rest = <<>>
<1>. DEFINE f == Frame(m)
            n == Len(m) + 2
<1>1. /\ f \in Seq(Bytes) /\ Len(f) = Len(m) + 4 /\ Len(m) \in Nat
      /\ f[1] = "0" /\ \A j \in 1 .. Len(m) : f[j + 1] = m[j]
  BY FrameBytes, LenProperties, Zenon
<1>2. Separators(f) = {n}
  <2>1. \A i \in Separators(f) : i \in Int
    BY DEF Separators
  <2>2. n \in Int
    BY <1>1
  <2>3. \A i \in Int : i \in Separators(f) <=> i = n
    BY FrameSeparators, Zenon
  <2>. HIDE DEF n, f
  <2>. QED
    BY <2>1, <2>2, <2>3, Zenon
<1>. HIDE DEF f
<1>3. n \in Nat /\ n - 1 = Len(m) + 1 /\ n - 1 \in 0 .. Len(f) /\ n + 3 > Len(f)
  BY <1>1
<1>4. Min(Separators(f)) = n
  <2>. HIDE DEF n
  <2>1. n <= n
    BY <1>3
  <2>. QED
    BY <1>2, <2>1, Zenon DEF Min
<1>5. SubSeq(f, 1, n - 1) = bothPrefix \o m
  <2>. DEFINE u == SubSeq(f, 1, n - 1)
              p == bothPrefix \o m
  <2>1. u \in Seq(Bytes) /\ Len(u) = n - 1 /\ \A i \in 1 .. n - 1 : u[i] = f[i]
    BY <1>1, <1>3, BeginBytes, Zenon
  <2>2. bothPrefix \in Seq(Bytes) /\ Len(bothPrefix) = 1 /\ bothPrefix[1] = "0"
    BY DEF bothPrefix, Bytes
  <2>3. /\ p \in Seq(Bytes) /\ Len(p) = Len(bothPrefix) + Len(m)
        /\ \A i \in 1 .. Len(bothPrefix) : p[i] = bothPrefix[i]
        /\ \A i \in 1 .. Len(m) : p[Len(bothPrefix) + i] = m[i]
    <3>. bothPrefix \in Seq(Bytes)
      BY <2>2, Zenon
    <3>. QED
      BY Concat
  <2>. HIDE DEF u, p
  <2>4. Len(p) = Len(m) + 1 /\ p[1] = "0" /\ \A i \in 1 .. Len(m) : p[1 + i] = m[i]
    BY <1>1, <2>2, <2>3
  <2>5. Len(u) = Len(p)
    BY <1>3, <2>1, <2>4, Zenon
  <2>6. \A i \in 1 .. Len(u) : u[i] = p[i]
    <3>. TAKE i \in 1 .. Len(u)
    <3>1. CASE i = 1
      BY <1>1, <1>3, <2>1, <2>4, <3>1, Zenon
    <3>2. CASE i # 1
      <4>1. i - 1 \in 1 .. Len(m) /\ 1 + (i - 1) = i /\ (i - 1) + 1 = i /\ i \in 1 .. n - 1
        BY <1>1, <1>3, <2>1, <3>2
      <4>2. p[1 + (i - 1)] = m[i - 1] /\ f[(i - 1) + 1] = m[i - 1]
        BY <1>1, <2>4, <4>1, Zenon
      <4>. QED
        BY <2>1, <4>1, <4>2, Zenon
    <3>. QED
      BY <3>1, <3>2, Zenon
  <2>7. u = p
    BY <2>1, <2>3, <2>5, <2>6, SeqEqual, Zenon
  <2>. QED
    BY <2>7, Zenon DEF u, p
<1>6. SubSeq(f, n + 3, Len(f)) = <<>>
  <2>1. n + 3 \in Int /\ Len(f) \in Int /\ Len(f) < n + 3
    BY <1>1, <1>3
  <2>. QED
    BY <2>1, SubSeqEmpty, Zenon
<1>7. Len(messageSeparator) = 3
  BY Zenon DEF messageSeparator
<1>8. customSplit(f, atEOF) =
        [token |-> << SubSeq(f, 1, n - 1) >>, rest |-> SubSeq(f, n + 3, Len(f))]
  <2>. HIDE DEF n
  <2>1. Separators(f) # {}
    BY <1>2, Zenon
  <2>. QED
    BY <1>4, <1>7, <2>1, Zenon DEF customSplit
<1>9. customSplit(f, atEOF) = [token |-> << bothPrefix \o m >>, rest |-> <<>>]
  BY <1>5, <1>6, <1>8, Zenon
<1>. QED
  BY <1>9 DEF f

\* It finds nothing in a part of a frame, until the pipe is closed.
LEMMA SplitPart ==
    ASSUME NEW m \in Seq(Bytes), Separators(m) = {}, NEW c \in 0 .. Len(Frame(m)) - 1,
           NEW data, data = SubSeq(Frame(m), 1, c), NEW atEOF \in BOOLEAN
    PROVE  /\ ~atEOF \/ data = <<>> => customSplit(data, atEOF).token = <<>>
           /\ atEOF /\ data # <<>> => /\ customSplit(data, atEOF).token = <<data>>
                                      /\ customSplit(data, atEOF).rest = <<>>
<1>1. Separators(data) = {}
  BY BeginSeparators, Zenon
<1>2. ~atEOF \/ data = <<>> => customSplit(data, atEOF) = [token |-> <<>>, rest |-> data]
  BY <1>1, Zenon DEF customSplit
<1>3. atEOF /\ data # <<>> => customSplit(data, atEOF) = [token |-> <<data>>, rest |-> <<>>]
  BY <1>1, Zenon DEF customSplit
<1>4. ~atEOF \/ data = <<>> => customSplit(data, atEOF).token = <<>>
  <2>. SUFFICES ASSUME ~atEOF \/ data = <<>>
                PROVE  customSplit(data, atEOF).token = <<>>
    BY Zenon
  <2>. QED
    BY <1>2
<1>5. atEOF /\ data # <<>> => /\ customSplit(data, atEOF).token = <<data>>
                             /\ customSplit(data, atEOF).rest = <<>>
  <2>. DEFINE split == customSplit(data, atEOF)
              t == << data >>
              e == <<>>
  <2>. SUFFICES ASSUME atEOF, data # <<>>
                PROVE  split.token = t /\ split.rest = e
    BY Zenon
  <2>1. split = [token |-> t, rest |-> e]
    BY <1>3, Zenon
  <2>. HIDE DEF split, t, e
  <2>. QED
    BY <2>1
<1>. QED
  BY <1>4, <1>5, Zenon

\* The bytes of a sequence from a place on.
LEMMA RestBytes ==
    ASSUME NEW f \in Seq(Bytes), NEW c \in 0 .. Len(f)
    PROVE  /\ SubSeq(f, c + 1, Len(f)) \in Seq(Bytes)
           /\ Len(SubSeq(f, c + 1, Len(f))) = Len(f) - c
           /\ \A j \in 1 .. Len(f) - c : SubSeq(f, c + 1, Len(f))[j] = f[c + j]
<1>. DEFINE a == c + 1
            n == Len(f)
<1>1. a \in Int /\ n \in Nat /\ n \in Int /\ c \in Nat /\ c <= n /\ \A j \in a .. n : f[j] \in Bytes
  OBVIOUS
<1>. HIDE DEF a, n
<1>2. /\ SubSeq(f, a, n) \in Seq(Bytes)
      /\ Len(SubSeq(f, a, n)) = IF a <= n THEN (n - a) + 1 ELSE 0
      /\ \A j \in 1 .. (n - a) + 1 : SubSeq(f, a, n)[j] = f[(a + j) - 1]
  BY <1>1, SubSeqProperties
<1>. DEFINE r == SubSeq(f, a, n)
<1>. HIDE DEF r
<1>3. r \in Seq(Bytes) /\ Len(r) = n - c /\ \A j \in 1 .. n - c : r[j] = f[c + j]
  BY <1>1, <1>2 DEF r, a
<1>. QED
  BY <1>3, Zenon DEF r, a, n

\* The scanner's reads take a frame out of the pipe piece by piece.
LEMMA ReadPiece ==
    ASSUME NEW f \in Seq(Bytes), NEW c \in 0 .. Len(f), NEW i \in 1 .. Len(f) - c
    PROVE  /\ Len(SubSeq(f, c + 1, Len(f))) = Len(f) - c
           /\ SubSeq(f, 1, c) \o SubSeq(SubSeq(f, c + 1, Len(f)), 1, i) = SubSeq(f, 1, c + i)
           /\ SubSeq(SubSeq(f, c + 1, Len(f)), i + 1, Len(f) - c) = SubSeq(f, c + i + 1, Len(f))
<1>. DEFINE a == SubSeq(f, 1, c)
            r == SubSeq(f, c + 1, Len(f))
            b == SubSeq(r, 1, i)
            d == SubSeq(f, 1, c + i)
            u == SubSeq(r, i + 1, Len(f) - c)
            v == SubSeq(f, c + i + 1, Len(f))
<1>0. Len(f) \in Nat /\ c \in Nat /\ i \in Nat /\ c <= Len(f) /\ 1 <= i /\ i <= Len(f) - c
      /\ \A j \in 1 .. Len(f) : f[j] \in Bytes
  BY LenProperties
<1>1. a \in Seq(Bytes) /\ Len(a) = c /\ \A j \in 1 .. c : a[j] = f[j]
  BY BeginBytes, Zenon
<1>2. r \in Seq(Bytes) /\ Len(r) = Len(f) - c /\ \A j \in 1 .. Len(f) - c : r[j] = f[c + j]
  BY RestBytes, Zenon
<1>. HIDE DEF a, r
<1>3. b \in Seq(Bytes) /\ Len(b) = i /\ \A j \in 1 .. i : b[j] = r[j]
  <2>. i \in 0 .. Len(r)
    BY <1>0, <1>2
  <2>. QED
    BY <1>2, BeginBytes, Zenon
<1>4. d \in Seq(Bytes) /\ Len(d) = c + i /\ \A j \in 1 .. c + i : d[j] = f[j]
  <2>. c + i \in 0 .. Len(f)
    BY <1>0
  <2>. QED
    BY BeginBytes, Zenon
<1>. HIDE DEF b, d
<1>5. a \o b = d
  <2>1. /\ a \o b \in Seq(Bytes) /\ Len(a \o b) = c + i
        /\ \A j \in 1 .. c : (a \o b)[j] = a[j]
        /\ \A j \in 1 .. i : (a \o b)[c + j] = b[j]
    <3>. a \in Seq(Bytes) /\ b \in Seq(Bytes)
      BY <1>1, <1>3, Zenon
    <3>1. /\ a \o b \in Seq(Bytes) /\ Len(a \o b) = Len(a) + Len(b)
          /\ \A j \in 1 .. Len(a) : (a \o b)[j] = a[j]
          /\ \A j \in 1 .. Len(b) : (a \o b)[Len(a) + j] = b[j]
      BY Concat
    <3>2. Len(a) = c /\ Len(b) = i
      BY <1>1, <1>3, Zenon
    <3>. QED
      BY <3>1, <3>2, Zenon
  <2>. DEFINE e == a \o b
  <2>. HIDE DEF e
  <2>2. \A j \in 1 .. c + i : e[j] = d[j]
    <3>. TAKE j \in 1 .. c + i
    <3>1. CASE j <= c
      <4>1. j \in 1 .. c
        BY <1>0, <3>1
      <4>. QED
        BY <1>1, <1>4, <2>1, <4>1, Zenon DEF e
    <3>2. CASE j > c
      <4>1. j - c \in 1 .. i /\ j - c \in 1 .. Len(f) - c /\ c + (j - c) = j
        BY <1>0, <3>2
      <4>2. e[c + (j - c)] = b[j - c] /\ b[j - c] = r[j - c] /\ r[j - c] = f[c + (j - c)]
        BY <1>2, <1>3, <2>1, <4>1, Zenon DEF e
      <4>. QED
        BY <1>4, <4>1, <4>2, Zenon
    <3>. QED
      BY <1>0, <3>1, <3>2
  <2>3. e \in Seq(Bytes) /\ Len(e) = Len(d) /\ \A j \in 1 .. Len(e) : e[j] = d[j]
    BY <1>4, <2>1, <2>2, Zenon DEF e
  <2>4. e = d
    BY <1>4, <2>3, SeqEqual, Zenon
  <2>. QED
    BY <2>4, Zenon DEF e
<1>6. u \in Seq(Bytes) /\ Len(u) = (Len(f) - c) - i
      /\ \A j \in 1 .. (Len(f) - c) - i : u[j] = r[i + j]
  <2>1. i \in 0 .. Len(r) /\ Len(r) = Len(f) - c
    BY <1>0, <1>2
  <2>2. /\ SubSeq(r, i + 1, Len(r)) \in Seq(Bytes) /\ Len(SubSeq(r, i + 1, Len(r))) = Len(r) - i
        /\ \A j \in 1 .. Len(r) - i : SubSeq(r, i + 1, Len(r))[j] = r[i + j]
    BY <1>2, <2>1, RestBytes, Zenon
  <2>. QED
    BY <2>1, <2>2, Zenon
<1>7. v \in Seq(Bytes) /\ Len(v) = (Len(f) - c) - i
      /\ \A j \in 1 .. (Len(f) - c) - i : v[j] = f[c + i + j]
  <2>. DEFINE k == c + i
  <2>1. k \in 0 .. Len(f) /\ Len(f) - k = (Len(f) - c) - i
    BY <1>0
  <2>. HIDE DEF k
  <2>2. /\ SubSeq(f, k + 1, Len(f)) \in Seq(Bytes) /\ Len(SubSeq(f, k + 1, Len(f))) = Len(f) - k
        /\ \A j \in 1 .. Len(f) - k : SubSeq(f, k + 1, Len(f))[j] = f[k + j]
    BY <2>1, RestBytes, Zenon
  <2>. QED
    BY <2>1, <2>2, Zenon DEF k
<1>. HIDE DEF u, v
<1>8. \A j \in 1 .. Len(u) : u[j] = v[j]
  <2>. SUFFICES ASSUME NEW j \in 1 .. Len(u)
                PROVE  u[j] = v[j]
    BY Zenon
  <2>1. /\ j \in 1 .. (Len(f) - c) - i /\ i + j \in 1 .. Len(f) - c
        /\ c + (i + j) = c + i + j
    <3>1. Len(u) = (Len(f) - c) - i
      BY <1>6, Zenon
    <3>. QED
      BY <1>0, <3>1
  <2>2. u[j] = r[i + j] /\ r[i + j] = f[c + (i + j)] /\ v[j] = f[c + i + j]
    BY <1>2, <1>6, <1>7, <2>1, Zenon
  <2>. QED
    BY <2>1, <2>2, Zenon
<1>9. u = v
  BY <1>6, <1>7, <1>8, SeqEqual, Zenon
<1>. QED
  BY <1>2, <1>5, <1>9, Zenon DEF a, b, d, r, u, v

\* The frame of a message that a session has written.
LEMMA WrittenFrame ==
    ASSUME NEW l \in LogType, NEW j \in 1 .. Len(l.written)
    PROVE  /\ l.written[j] \in Seq(Bytes) /\ Separators(l.written[j]) = {}
           /\ Frame(l.written[j]) \in Seq(Bytes) /\ Len(Frame(l.written[j])) \in Nat
           /\ Len(Frame(l.written[j])) = Len(l.written[j]) + 4
           /\ Len(l.written[j]) \in Nat
<1>1. l.written \in Seq(Messages)
  BY Zenon DEF LogType
<1>2. l.written[j] \in Messages
  BY <1>1, ElementOfSeq, Zenon
<1>3. l.written[j] \in Seq(Bytes) /\ Separators(l.written[j]) = {}
  BY <1>2, MessageBytes, Zenon
<1>. DEFINE m == l.written[j]
<1>. HIDE DEF m
<1>4. m \in Seq(Bytes) /\ Separators(m) = {}
  BY <1>3, Zenon DEF m
<1>5. Frame(m) \in Seq(Bytes) /\ Len(Frame(m)) = Len(m) + 4
  BY <1>4, FrameBytes, Zenon
<1>6. Len(m) \in Nat
  BY <1>4, LenProperties, Zenon
<1>7. Len(Frame(m)) \in Nat
  BY <1>5, <1>6
<1>. QED
  BY <1>4, <1>5, <1>6, <1>7, Zenon DEF m

\* No more tokens than messages.
LEMMA TokensWritten ==
    ASSUME NEW l \in LogType, LogOK(l)
    PROVE  Len(l.tokens) <= Len(l.written)
<1>1. Len(l.written) \in Nat /\ Len(l.tokens) \in Nat /\ l.step \in WriterSteps
  BY DEF LogType
<1>2. \A j \in 0 .. Len(l.written) : Scanned(l, j) => Len(l.tokens) <= Len(l.written)
  BY <1>1 DEF Scanned
<1>3. \A c : Reading(l, c) => Len(l.tokens) <= Len(l.written)
  BY <1>1 DEF Reading
<1>4. CASE l.step = "idle"
  <2>1. Scanned(l, Len(l.written)) /\ Len(l.written) \in 0 .. Len(l.written)
    BY <1>1, <1>4 DEF LogOK, Placed
  <2>. QED
    BY <1>2, <2>1, Zenon
<1>5. CASE l.step = "append"
  <2>1. Scanned(l, Len(l.written) - 1) /\ Len(l.written) > 0
    BY <1>5, Zenon DEF LogOK, Placed
  <2>2. Len(l.written) - 1 \in 0 .. Len(l.written)
    BY <1>1, <2>1
  <2>. QED
    BY <1>2, <2>1, <2>2, Zenon
<1>6. CASE l.step = "write"
  <2>1. /\ Len(l.written) > 0
        /\ \/ Scanned(l, Len(l.written) - 1) \/ \E c : Reading(l, c)
           \/ Scanned(l, Len(l.written))
    BY <1>6, Zenon DEF LogOK, Placed
  <2>2. Len(l.written) - 1 \in 0 .. Len(l.written) /\ Len(l.written) \in 0 .. Len(l.written)
    BY <1>1, <2>1
  <2>. QED
    BY <1>2, <1>3, <2>1, <2>2, Zenon
<1>7. CASE l.step = "closed"
  <2>1. (\E j \in 0 .. Len(l.written) : Scanned(l, j)) \/ \E c : Reading(l, c)
    BY <1>7, Zenon DEF LogOK, Placed
  <2>. QED
    BY <1>2, <1>3, <2>1, Zenon
<1>8. l.step # "failed"
  BY Zenon DEF LogOK, Placed
<1>. QED
  BY <1>1, <1>4, <1>5, <1>6, <1>7, <1>8, Zenon DEF WriterSteps

\* The first append of wrapMessage leaves what was written before.
LEMMA AppendOK ==
    ASSUME NEW l \in LogType, NEW x \in LogType, LogOK(l), NEW m \in Messages,
           l.step = "idle", x.step = "append", x.written = Append(l.written, m),
           x.pipe = l.pipe, x.data = l.data, x.tokens = l.tokens
    PROVE  LogOK(x)
<1>. DEFINE w == Len(l.written)
<1>1. w \in Nat /\ Len(l.tokens) \in Nat
  BY DEF LogType
<1>2. Len(x.written) = w + 1 /\ \A i \in 1 .. w : x.written[i] = l.written[i]
  <2>1. l.written \in Seq(Messages)
    BY Zenon DEF LogType
  <2>. QED
    BY <2>1, AppendProperties
<1>3. l.pipe = <<>> /\ Scanned(l, w)
  BY Zenon DEF LogOK, Placed
<1>4. Len(l.tokens) <= w
  BY TokensWritten, Zenon
<1>. HIDE DEF w
<1>5. Scanned(x, w)
  BY <1>1, <1>2, <1>3 DEF Scanned
<1>6. Complete(x)
  <2>1. \A i \in 1 .. Len(l.tokens) : i \in 1 .. w /\ l.tokens[i] = bothPrefix \o l.written[i]
    <3>1. \A i \in 1 .. Len(l.tokens) : i \in 1 .. w
      BY <1>1, <1>4
    <3>2. \A i \in 1 .. Len(l.tokens) : l.tokens[i] = bothPrefix \o l.written[i]
      BY Zenon DEF LogOK, Complete
    <3>. QED
      BY <3>1, <3>2, Zenon
  <2>. QED
    BY <1>2, <2>1, Zenon DEF Complete
<1>7. (w + 1) - 1 = w /\ w + 1 > 0
  BY <1>1
<1>8. Placed(x)
  BY <1>2, <1>3, <1>5, <1>7, Zenon DEF Placed
<1>. QED
  BY <1>6, <1>8, Zenon DEF LogOK

\* The frame goes into the pipe whole.
LEMMA WrapOK ==
    ASSUME NEW l \in LogType, NEW x \in LogType, LogOK(l),
           l.step = "append", x.step = "write", x.written = l.written,
           x.pipe = Frame(l.written[Len(l.written)]), x.n = Len(x.pipe),
           x.data = l.data, x.tokens = l.tokens
    PROVE  LogOK(x)
<1>1. Len(l.written) > 0 /\ Scanned(l, Len(l.written) - 1)
  BY Zenon DEF LogOK, Placed
<1>2. Scanned(x, Len(x.written) - 1)
  BY <1>1, Zenon DEF Scanned
<1>3. Complete(x)
  BY Zenon DEF LogOK, Complete
<1>4. Placed(x)
  BY <1>1, <1>2, Zenon DEF Placed
<1>. QED
  BY <1>3, <1>4, Zenon DEF LogOK

\* A session whose buffer has no token and whose messages up to the j-th have left the pipe
\* has sent them all.
LEMMA NothingToScan ==
    ASSUME NEW l \in LogType, NEW j \in 0 .. Len(l.written), Scanned(l, j),
           customSplit(l.data, FALSE).token = <<>>
    PROVE  Len(l.tokens) = j /\ l.data = <<>>
<1>. SUFFICES ASSUME j > 0, l.data = Frame(l.written[j])
              PROVE  FALSE
  BY Zenon DEF Scanned
<1>1. j \in 1 .. Len(l.written)
  OBVIOUS
<1>. DEFINE m == l.written[j]
<1>2. m \in Seq(Bytes) /\ Separators(m) = {}
  BY <1>1, WrittenFrame, Zenon
<1>. HIDE DEF m
<1>3. customSplit(Frame(m), FALSE).token = << bothPrefix \o m >>
  BY <1>2, SplitWhole, Zenon
<1>4. << bothPrefix \o m >> # <<>>
  BY Zenon
<1>. QED
  BY <1>3, <1>4, Zenon DEF m

\* A read of the scanner takes a piece of the frame in the pipe.
LEMMA ReadOK ==
    ASSUME NEW l \in LogType, NEW x \in LogType, LogOK(l), l.pipe # <<>>,
           customSplit(l.data, FALSE).token = <<>>, NEW i \in 1 .. Len(l.pipe),
           x.step = l.step, x.written = l.written, x.n = l.n, x.tokens = l.tokens,
           x.data = l.data \o SubSeq(l.pipe, 1, i),
           x.pipe = SubSeq(l.pipe, i + 1, Len(l.pipe))
    PROVE  LogOK(x)
<1>. DEFINE w == Len(l.written)
            f == Frame(l.written[w])
<1>1. w \in Nat /\ Len(l.tokens) \in Nat /\ l.step \in WriterSteps
  BY DEF LogType
<1>2. l.step = "write"
  BY <1>1, Zenon DEF LogOK, Placed, WriterSteps
<1>3. /\ w > 0 /\ l.n = Len(f)
      /\ \/ l.pipe = f /\ Scanned(l, w - 1)
         \/ \E c \in 1 .. Len(f) : Reading(l, c) /\ l.pipe = SubSeq(f, c + 1, Len(f))
  BY <1>2, Zenon DEF LogOK, Placed
<1>4. f \in Seq(Bytes) /\ Len(f) \in Nat
  <2>. w \in 1 .. Len(l.written)
    BY <1>1, <1>3
  <2>. QED
    BY WrittenFrame, Zenon
<1>5. Complete(x)
  BY Zenon DEF LogOK, Complete
<1>6. \E c \in 1 .. Len(f) : Reading(x, c) /\ x.pipe = SubSeq(f, c + 1, Len(f))
  <2>1. CASE l.pipe = f /\ Scanned(l, w - 1)
    <3>1. w - 1 \in 0 .. Len(l.written)
      BY <1>1, <1>3
    <3>2. Len(l.tokens) = w - 1 /\ l.data = <<>>
      BY <2>1, <3>1, NothingToScan, Zenon
    <3>. DEFINE b == SubSeq(f, 1, i)
    <3>3. i \in 0 .. Len(f) /\ i \in 1 .. Len(f)
      BY <1>4, <2>1
    <3>4. b \in Seq(Bytes)
      BY <1>4, <3>3, BeginBytes, Zenon
    <3>. HIDE DEF b
    <3>5. <<>> \o b = b
      BY <3>4, ConcatEmptySeq, Zenon
    <3>6. x.data = SubSeq(f, 1, i)
      BY <2>1, <3>2, <3>5, Zenon DEF b
    <3>7. Reading(x, i)
      BY <3>2, <3>6, Zenon DEF Reading
    <3>. QED
      BY <2>1, <3>3, <3>7, Zenon
  <2>2. ASSUME NEW c \in 1 .. Len(f), Reading(l, c), l.pipe = SubSeq(f, c + 1, Len(f))
        PROVE  \E d \in 1 .. Len(f) : Reading(x, d) /\ x.pipe = SubSeq(f, d + 1, Len(f))
    <3>. HIDE DEF f
    <3>1. c \in 0 .. Len(f)
      BY <1>4
    <3>2. Len(l.pipe) = Len(f) - c
      BY <1>4, <2>2, <3>1, RestBytes, Zenon
    <3>3. i \in 1 .. Len(f) - c
      BY <3>2, Zenon
    <3>4. /\ SubSeq(f, 1, c) \o SubSeq(l.pipe, 1, i) = SubSeq(f, 1, c + i)
          /\ SubSeq(l.pipe, i + 1, Len(l.pipe)) = SubSeq(f, (c + i) + 1, Len(f))
      BY <1>4, <2>2, <3>1, <3>2, <3>3, ReadPiece, Zenon
    <3>5. c + i \in 1 .. Len(f)
      BY <1>4, <3>3
    <3>6. Len(l.tokens) = w - 1 /\ l.data = SubSeq(f, 1, c)
      BY <2>2, Zenon DEF Reading, f
    <3>7. x.data = SubSeq(f, 1, c + i)
      BY <3>4, <3>6, Zenon
    <3>8. Reading(x, c + i)
      BY <3>6, <3>7, Zenon DEF Reading, f
    <3>. QED
      BY <3>4, <3>5, <3>8, Zenon
  <2>. QED
    BY <1>3, <2>1, <2>2, Zenon
<1>7. Placed(x)
  <2>1. x.step = "write" /\ Len(x.written) = w /\ x.n = Len(f)
    BY <1>2, <1>3, Zenon
  <2>. QED
    BY <1>3, <1>6, <2>1, Zenon DEF Placed
<1>. QED
  BY <1>5, <1>7, Zenon DEF LogOK

\* The write of a frame is reported with the length of its message, and all of it has
\* left the pipe.
LEMMA ReturnOK ==
    ASSUME NEW l \in LogType, NEW x \in LogType, LogOK(l), l.step = "write", l.pipe = <<>>,
           x.step = IF l.n - messageOffset = Len(l.written[Len(l.written)])
                    THEN "idle" ELSE "failed",
           x.written = l.written, x.pipe = l.pipe, x.data = l.data, x.tokens = l.tokens
    PROVE  LogOK(x)
<1>. DEFINE w == Len(l.written)
            f == Frame(l.written[w])
<1>1. w \in Nat /\ Len(l.tokens) \in Nat
  BY DEF LogType
<1>2. /\ w > 0 /\ l.n = Len(f)
      /\ \/ l.pipe = f /\ Scanned(l, w - 1)
         \/ \E c \in 1 .. Len(f) : Reading(l, c) /\ l.pipe = SubSeq(f, c + 1, Len(f))
         \/ Scanned(l, w)
  BY Zenon DEF LogOK, Placed
<1>3. /\ f \in Seq(Bytes) /\ Len(f) \in Nat /\ Len(f) = Len(l.written[w]) + 4
      /\ Len(l.written[w]) \in Nat
  <2>. w \in 1 .. Len(l.written)
    BY <1>1, <1>2
  <2>. QED
    BY WrittenFrame, Zenon
<1>. HIDE DEF f
<1>4. Scanned(l, w)
  <2>1. l.pipe # f
    <3>1. Len(f) # 0
      BY <1>3
    <3>2. Len(<<>>) = 0
      BY Zenon
    <3>. QED
      BY <3>1, <3>2, Zenon
  <2>2. ASSUME NEW c \in 1 .. Len(f), Reading(l, c), l.pipe = SubSeq(f, c + 1, Len(f))
        PROVE  Scanned(l, w)
    <3>1. Len(l.pipe) = Len(f) - c
      <4>. c \in 0 .. Len(f)
        BY <1>3
      <4>. QED
        BY <1>3, <2>2, RestBytes, Zenon
    <3>2. Len(<<>>) = 0
      BY Zenon
    <3>3. c = Len(f)
      BY <1>3, <3>1, <3>2
    <3>4. SubSeq(f, 1, Len(f)) = f
      BY <1>3, SubSeqFull, Zenon
    <3>5. Len(l.tokens) = w - 1 /\ l.data = SubSeq(f, 1, c)
      BY <2>2, Zenon DEF Reading, f
    <3>. QED
      BY <1>2, <3>3, <3>4, <3>5, Zenon DEF Scanned, f
  <2>. QED
    BY <1>2, <2>1, <2>2, Zenon
<1>5. x.step = "idle"
  <2>1. messageOffset = 4
    BY DEF messageOffset, bothPrefix, messageSeparator
  <2>2. l.n - messageOffset = Len(l.written[w])
    BY <1>2, <1>3, <2>1
  <2>. QED
    BY <2>2, Zenon
<1>6. Scanned(x, Len(x.written))
  BY <1>4, Zenon DEF Scanned
<1>7. Complete(x)
  BY Zenon DEF LogOK, Complete
<1>8. Placed(x)
  BY <1>5, <1>6, Zenon DEF Placed
<1>. QED
  BY <1>7, <1>8, Zenon DEF LogOK

\* The last message when the scanner's buffer has all of its bytes.
LEMMA ReadWhole ==
    ASSUME NEW l \in LogType, Len(l.written) > 0, NEW c,
           c = Len(Frame(l.written[Len(l.written)])), Reading(l, c)
    PROVE  Scanned(l, Len(l.written))
<1>. DEFINE w == Len(l.written)
            f == Frame(l.written[w])
<1>1. f \in Seq(Bytes)
  <2>1. w \in Nat
    BY DEF LogType
  <2>. w \in 1 .. Len(l.written)
    BY <2>1
  <2>. QED
    BY WrittenFrame, Zenon
<1>2. Len(l.tokens) = w - 1 /\ l.data = SubSeq(f, 1, Len(f))
  BY Zenon DEF Reading
<1>. HIDE DEF f
<1>3. SubSeq(f, 1, Len(f)) = f
  BY <1>1, SubSeqFull, Zenon
<1>. QED
  BY <1>2, <1>3, Zenon DEF Scanned, f

\* Closing the pipe loses at most the last message.
LEMMA CloseOK ==
    ASSUME NEW l \in LogType, NEW x \in LogType, LogOK(l), l.step # "closed",
           x.step = "closed", x.pipe = <<>>,
           x.written = l.written, x.data = l.data, x.tokens = l.tokens
    PROVE  LogOK(x)
<1>. DEFINE w == Len(l.written)
            f == Frame(l.written[w])
<1>1. w \in Nat /\ l.step \in WriterSteps
  BY DEF LogType
<1>2. \/ Scanned(l, w)
      \/ w > 0 /\ Scanned(l, w - 1)
      \/ w > 0 /\ \E c \in 1 .. Len(f) : Reading(l, c)
  BY <1>1, Zenon DEF LogOK, Placed, WriterSteps
<1>3. (\E j \in 0 .. w : Scanned(l, j)) \/ (w > 0 /\ \E c \in 1 .. Len(f) - 1 : Reading(l, c))
  <2>1. w \in 0 .. w /\ (w > 0 => w - 1 \in 0 .. w)
    BY <1>1
  <2>2. ASSUME w > 0, NEW c \in 1 .. Len(f), Reading(l, c)
        PROVE  Scanned(l, w) \/ \E d \in 1 .. Len(f) - 1 : Reading(l, d)
    <3>1. Len(f) \in Nat
      <4>. w \in 1 .. Len(l.written)
        BY <1>1, <2>2
      <4>. QED
        BY WrittenFrame, Zenon
    <3>2. CASE c = Len(f)
      BY <2>2, <3>2, ReadWhole, Zenon
    <3>3. CASE c # Len(f)
      <4>. HIDE DEF f
      <4>1. c \in 1 .. Len(f) - 1
        BY <3>1, <3>3
      <4>. QED
        BY <2>2, <4>1, Zenon
    <3>. QED
      BY <3>2, <3>3, Zenon
  <2>. QED
    BY <1>2, <2>1, <2>2, Zenon
<1>4. \A j : Scanned(l, j) <=> Scanned(x, j)
  BY Zenon DEF Scanned
<1>5. \A c : Reading(l, c) <=> Reading(x, c)
  BY Zenon DEF Reading
<1>6. Placed(x)
  BY <1>3, <1>4, <1>5, Zenon DEF Placed
<1>7. Complete(x)
  BY Zenon DEF LogOK, Complete
<1>. QED
  BY <1>6, <1>7, Zenon DEF LogOK

\* There is nothing to cut off an empty buffer.
LEMMA SplitEmpty ==
    ASSUME NEW data, data = <<>>, NEW atEOF \in BOOLEAN
    PROVE  customSplit(data, atEOF).token = <<>>
<1>1. Len(messageSeparator) = 3 /\ Len(data) = 0
  BY Zenon DEF messageSeparator
<1>. DEFINE n == (Len(data) + 1) - Len(messageSeparator)
<1>2. n < 1 /\ n \in Int
  BY <1>1
<1>. HIDE DEF n
<1>3. \A i \in 1 .. n : FALSE
  BY <1>2
<1>4. Separators(data) = {}
  BY <1>3, Zenon DEF Separators, n
<1>5. customSplit(data, atEOF) = [token |-> <<>>, rest |-> data]
  BY <1>4, Zenon DEF customSplit
<1>. QED
  BY <1>5

\* A token t is one more of the client's messages.
LEMMA OneMore ==
    ASSUME NEW s \in Seq(Seq(Bytes)), NEW t \in Seq(Bytes)
    PROVE  /\ Len(s \o << t >>) = Len(s) + 1
           /\ \A i \in 1 .. Len(s) : (s \o << t >>)[i] = s[i]
           /\ (s \o << t >>)[Len(s) + 1] = t
<1>. DEFINE u == << t >>
<1>1. u \in Seq(Seq(Bytes)) /\ Len(u) = 1 /\ u[1] = t
  OBVIOUS
<1>. HIDE DEF u
<1>2. /\ Len(s \o u) = Len(s) + Len(u)
      /\ \A i \in 1 .. Len(s) : (s \o u)[i] = s[i]
      /\ \A i \in 1 .. Len(u) : (s \o u)[Len(s) + i] = u[i]
  <2>. u \in Seq(Seq(Bytes))
    BY <1>1, Zenon
  <2>. QED
    BY Concat
<1>3. 1 \in 1 .. 1
  OBVIOUS
<1>. QED
  BY <1>1, <1>2, <1>3, Zenon DEF u

\* The scanner cuts off the j-th message when all of it has left the pipe.
LEMMA ScanFrame ==
    ASSUME NEW l \in LogType, NEW x \in LogType, NEW atEOF \in BOOLEAN,
           NEW j \in 0 .. Len(l.written), Scanned(l, j), Complete(l),
           customSplit(l.data, atEOF).token # <<>>,
           x.step = l.step, x.written = l.written,
           x.data = customSplit(l.data, atEOF).rest,
           x.tokens = l.tokens \o customSplit(l.data, atEOF).token
    PROVE  Scanned(x, j) /\ Complete(x)
<1>1. j > 0 /\ Len(l.tokens) = j - 1 /\ l.data = Frame(l.written[j])
  BY SplitEmpty, Zenon DEF Scanned
<1>2. j \in 1 .. Len(l.written) /\ j \in Nat
  BY <1>1 DEF LogType
<1>. DEFINE m == l.written[j]
            p == bothPrefix \o m
<1>3. m \in Seq(Bytes) /\ Separators(m) = {}
  BY <1>2, WrittenFrame, Zenon
<1>4. customSplit(l.data, atEOF).token = << p >> /\ customSplit(l.data, atEOF).rest = <<>>
  BY <1>1, <1>3, SplitWhole, Zenon
<1>5. p \in Seq(Bytes)
  <2>1. bothPrefix \in Seq(Bytes)
    BY DEF bothPrefix, Bytes
  <2>. HIDE DEF m
  <2>. QED
    BY <1>3, <2>1, ConcatProperties, Zenon
<1>6. l.tokens \in Seq(Seq(Bytes))
  BY Zenon DEF LogType
<1>. HIDE DEF p
<1>7. /\ Len(x.tokens) = Len(l.tokens) + 1
      /\ \A i \in 1 .. Len(l.tokens) : x.tokens[i] = l.tokens[i]
      /\ x.tokens[Len(l.tokens) + 1] = p
  <2>. DEFINE s == l.tokens
  <2>1. x.tokens = s \o << p >>
    BY <1>4, Zenon
  <2>2. s \in Seq(Seq(Bytes))
    BY <1>6, Zenon
  <2>. HIDE DEF s
  <2>3. /\ Len(s \o << p >>) = Len(s) + 1
        /\ \A i \in 1 .. Len(s) : (s \o << p >>)[i] = s[i]
        /\ (s \o << p >>)[Len(s) + 1] = p
    BY <1>5, <2>2, OneMore, Zenon
  <2>. QED
    BY <2>1, <2>3, Zenon DEF s
<1>8. Len(l.tokens) + 1 = j
  BY <1>1, <1>2
<1>9. Scanned(x, j)
  <2>1. Len(x.tokens) = j /\ x.data = <<>>
    BY <1>4, <1>7, <1>8, Zenon
  <2>. QED
    BY <2>1, Zenon DEF Scanned
<1>10. Complete(x)
  <2>1. \A i \in 1 .. Len(x.tokens) : i \in 1 .. Len(l.tokens) \/ i = Len(l.tokens) + 1
    <3>. DEFINE n == Len(l.tokens)
    <3>1. n \in Nat /\ Len(x.tokens) = n + 1
      <4>1. Len(l.tokens) \in Nat
        BY DEF LogType
      <4>. QED
        BY <1>7, <4>1, Zenon
    <3>. HIDE DEF n
    <3>2. \A i \in 1 .. n + 1 : i \in 1 .. n \/ i = n + 1
      BY <3>1
    <3>. QED
      BY <3>1, <3>2, Zenon DEF n
  <2>2. \A i \in 1 .. Len(l.tokens) :
           \/ l.tokens[i] = bothPrefix \o l.written[i]
           \/ l.step = "closed" /\ i = Len(l.written)
    BY Zenon DEF Complete
  <2>3. x.tokens[Len(l.tokens) + 1] = bothPrefix \o l.written[Len(l.tokens) + 1]
    BY <1>7, <1>8, Zenon DEF p
  <2>. QED
    BY <1>7, <2>1, <2>2, <2>3, Zenon DEF Complete
<1>. QED
  BY <1>9, <1>10, Zenon

\* What the buffer holds of a message when the pipe is closed is sent torn.
LEMMA ScanTorn ==
    ASSUME NEW l \in LogType, NEW x \in LogType, Complete(l),
           Len(l.written) > 0, NEW c \in 1 .. Len(Frame(l.written[Len(l.written)])) - 1,
           Reading(l, c), l.step = "closed", x.step = "closed", x.written = l.written,
           customSplit(l.data, TRUE).token # <<>>,
           x.data = customSplit(l.data, TRUE).rest,
           x.tokens = l.tokens \o customSplit(l.data, TRUE).token
    PROVE  Scanned(x, Len(x.written)) /\ Complete(x)
<1>. DEFINE w == Len(l.written)
            m == l.written[w]
            d == l.data
            s == l.tokens
            atEOF == TRUE
<1>1. w \in Nat /\ d \in Seq(Bytes) /\ s \in Seq(Seq(Bytes)) /\ Len(s) \in Nat
  BY DEF LogType
<1>2. m \in Seq(Bytes) /\ Separators(m) = {} /\ Len(Frame(m)) \in Nat
  <2>. w \in 1 .. Len(l.written)
    BY <1>1
  <2>. QED
    BY WrittenFrame, Zenon
<1>3. Len(s) = w - 1 /\ d = SubSeq(Frame(m), 1, c)
  BY Zenon DEF Reading
<1>4. /\ customSplit(d, atEOF).token # <<>> /\ atEOF
      /\ x.data = customSplit(d, atEOF).rest
      /\ x.tokens = s \o customSplit(d, atEOF).token
  BY Zenon
<1>5. c \in 0 .. Len(Frame(m)) - 1
  BY <1>2
<1>6. atEOF \in BOOLEAN
  BY Zenon
<1>. HIDE DEF m, d, s, atEOF
<1>7. /\ ~atEOF \/ d = <<>> => customSplit(d, atEOF).token = <<>>
      /\ atEOF /\ d # <<>> => /\ customSplit(d, atEOF).token = << d >>
                              /\ customSplit(d, atEOF).rest = <<>>
  BY <1>2, <1>3, <1>5, <1>6, SplitPart, Zenon
<1>8. x.data = <<>> /\ x.tokens = s \o << d >>
  BY <1>4, <1>7, Zenon
<1>9. /\ Len(s \o << d >>) = Len(s) + 1
      /\ \A i \in 1 .. Len(s) : (s \o << d >>)[i] = s[i]
  BY <1>1, OneMore, Zenon
<1>10. Len(s) + 1 = w
  BY <1>1, <1>3
<1>11. Scanned(x, Len(x.written))
  <2>1. Len(x.tokens) = w
    BY <1>8, <1>9, <1>10, Zenon
  <2>. QED
    BY <1>8, <2>1, Zenon DEF Scanned
<1>12. Complete(x)
  <2>1. \A i \in 1 .. w : i \in 1 .. Len(s) \/ i = w
    BY <1>1, <1>10
  <2>2. \A i \in 1 .. Len(s) :
           \/ s[i] = bothPrefix \o l.written[i]
           \/ l.step = "closed" /\ i = Len(l.written)
    BY Zenon DEF Complete, s
  <2>. QED
    BY <1>8, <1>9, <1>10, <2>1, <2>2, Zenon DEF Complete
<1>. QED
  BY <1>11, <1>12, Zenon

\* A token of the scanner is the next message, or the torn last one of a closed pipe.
LEMMA ScanOK ==
    ASSUME NEW l \in LogType, NEW x \in LogType, LogOK(l),
           NEW atEOF \in BOOLEAN, atEOF <=> l.step = "closed",
           customSplit(l.data, atEOF).token # <<>>,
           x.step = l.step, x.written = l.written, x.pipe = l.pipe, x.n = l.n,
           x.data = customSplit(l.data, atEOF).rest,
           x.tokens = l.tokens \o customSplit(l.data, atEOF).token
    PROVE  LogOK(x)
<1>. DEFINE w == Len(l.written)
            f == Frame(l.written[w])
<1>1. w \in Nat /\ l.step \in WriterSteps
  BY DEF LogType
<1>2. w \in 0 .. w /\ (w > 0 => w - 1 \in 0 .. w /\ w \in 1 .. w)
  BY <1>1
<1>3. Complete(l)
  BY Zenon DEF LogOK
<1>4. \A j \in 0 .. w : Scanned(l, j) => Scanned(x, j) /\ Complete(x)
  BY <1>3, ScanFrame, Zenon
<1>5. CASE l.step = "idle"
  <2>1. l.pipe = <<>> /\ Scanned(l, w)
    BY <1>5, Zenon DEF LogOK, Placed
  <2>2. Scanned(x, w) /\ Complete(x)
    BY <1>2, <1>4, <2>1, Zenon
  <2>. QED
    BY <1>5, <2>1, <2>2, Zenon DEF LogOK, Placed
<1>6. CASE l.step = "append"
  <2>1. w > 0 /\ l.pipe = <<>> /\ Scanned(l, w - 1)
    BY <1>6, Zenon DEF LogOK, Placed
  <2>2. Scanned(x, w - 1) /\ Complete(x)
    BY <1>2, <1>4, <2>1, Zenon
  <2>. QED
    BY <1>6, <2>1, <2>2, Zenon DEF LogOK, Placed
<1>7. CASE l.step = "write"
  <2>1. /\ w > 0 /\ l.n = Len(f)
        /\ \/ l.pipe = f /\ Scanned(l, w - 1)
           \/ \E c \in 1 .. Len(f) : Reading(l, c) /\ l.pipe = SubSeq(f, c + 1, Len(f))
           \/ l.pipe = <<>> /\ Scanned(l, w)
    BY <1>7, Zenon DEF LogOK, Placed
  <2>2. f \in Seq(Bytes) /\ Len(f) \in Nat
    BY <1>2, <2>1, WrittenFrame, Zenon
  <2>3. ASSUME NEW c \in 1 .. Len(f), Reading(l, c), l.pipe = SubSeq(f, c + 1, Len(f))
        PROVE  l.pipe = <<>> /\ Scanned(l, w)
    <3>1. c = Len(f)
      <4>. SUFFICES ASSUME c # Len(f)
                    PROVE  FALSE
        BY Zenon
      <4>. DEFINE m == l.written[w]
      <4>1. c \in 0 .. Len(Frame(m)) - 1
        BY <2>2
      <4>2. m \in Seq(Bytes) /\ Separators(m) = {}
        BY <1>2, <2>1, WrittenFrame, Zenon
      <4>3. l.data = SubSeq(Frame(m), 1, c)
        BY <2>3, Zenon DEF Reading
      <4>4. ~atEOF
        BY <1>7, Zenon
      <4>. HIDE DEF m
      <4>. QED
        BY <4>1, <4>2, <4>3, <4>4, SplitPart, Zenon
    <3>2. Scanned(l, w)
      BY <2>1, <2>3, <3>1, ReadWhole, Zenon
    <3>3. Len(f) + 1 \in Int /\ Len(f) \in Int /\ Len(f) < Len(f) + 1
      BY <2>2
    <3>4. SubSeq(f, Len(f) + 1, Len(f)) = <<>>
      BY <3>3, SubSeqEmpty, Zenon
    <3>. QED
      BY <2>3, <3>1, <3>2, <3>4, Zenon
  <2>4. (l.pipe = f /\ Scanned(l, w - 1)) \/ (l.pipe = <<>> /\ Scanned(l, w))
    BY <2>1, <2>3, Zenon
  <2>5. /\ (l.pipe = f /\ Scanned(x, w - 1)) \/ (l.pipe = <<>> /\ Scanned(x, w))
        /\ Complete(x)
    BY <1>2, <1>4, <2>1, <2>4, Zenon
  <2>. QED
    BY <1>7, <2>1, <2>5, Zenon DEF LogOK, Placed
<1>8. CASE l.step = "closed"
  <2>1. /\ l.pipe = <<>>
        /\ \/ \E j \in 0 .. w : Scanned(l, j)
           \/ w > 0 /\ \E c \in 1 .. Len(f) - 1 : Reading(l, c)
    BY <1>8, Zenon DEF LogOK, Placed
  <2>2. atEOF = TRUE
    BY <1>8, Zenon
  <2>3. ASSUME w > 0, NEW c \in 1 .. Len(f) - 1, Reading(l, c)
        PROVE  Scanned(x, w) /\ Complete(x)
    BY <1>3, <1>8, <2>2, <2>3, ScanTorn, Zenon
  <2>4. (\E j \in 0 .. w : Scanned(x, j)) /\ Complete(x)
    BY <1>2, <1>4, <2>1, <2>3, Zenon
  <2>. QED
    BY <1>8, <2>1, <2>4, Zenon DEF LogOK, Placed
<1>9. l.step # "failed"
  BY Zenon DEF LogOK, Placed
<1>. QED
  BY <1>1, <1>5, <1>6, <1>7, <1>8, <1>9, Zenon DEF WriterSteps

\* A function on 1 .. n is a sequence of n bytes.
LEMMA BytesSeq ==
    ASSUME NEW n \in Nat, NEW s \in [1 .. n -> Bytes]
    PROVE  s \in Seq(Bytes) /\ Len(s) = n
OBVIOUS

\* The array behind the prefix once a message was put there.
LEMMA SpareAppended ==
    ASSUME LogTypeOK, NEW m \in Messages, SharesPrefix(m),
           spare' = [i \in 1 .. Max({Len(m), Len(spare)}) |->
                       IF i <= Len(m) THEN m[i] ELSE spare[i]]
    PROVE  /\ spare' \in Seq(Bytes) /\ Len(spare') = Spare
           /\ SubSeq(spare', 1, Len(m)) = m
           /\ Len(m) = 0 => spare' = spare
<1>1. m \in Seq(Bytes) /\ Len(m) \in Nat /\ \A i \in 1 .. Len(m) : m[i] \in Bytes
  BY MessageBytes, LenProperties, Zenon
<1>2. Spare \in Nat /\ Len(m) <= Spare
  BY LogFramingAssumption, Zenon DEF SharesPrefix
<1>3. spare \in Seq(Bytes) /\ Len(spare) = Spare /\ \A i \in 1 .. Spare : spare[i] \in Bytes
  BY <1>2 DEF LogTypeOK
<1>4. Max({Len(m), Spare}) = Spare
  <2>1. \A z \in {Len(m), Spare} : (\A y \in {Len(m), Spare} : z >= y) <=> z = Spare
    BY <1>1, <1>2
  <2>. QED
    BY <2>1, Zenon DEF Max
<1>5. spare' = [i \in 1 .. Spare |-> IF i <= Len(m) THEN m[i] ELSE spare[i]]
  BY <1>3, <1>4, Zenon
<1>6. \A i \in 1 .. Spare : i <= Len(m) => i \in 1 .. Len(m)
  BY <1>1, <1>2
<1>7. spare' \in [1 .. Spare -> Bytes]
  BY <1>1, <1>3, <1>5, <1>6, Zenon
<1>8. spare' \in Seq(Bytes) /\ Len(spare') = Spare
  BY <1>2, <1>7, BytesSeq, Zenon
<1>9. SubSeq(spare', 1, Len(m)) = m
  <2>. DEFINE u == SubSeq(spare', 1, Len(m))
  <2>1. Len(m) \in 0 .. Len(spare')
    <3>1. Len(m) \in 0 .. Spare
      BY <1>1, <1>2
    <3>. QED
      BY <1>8, <3>1, Zenon
  <2>2. u \in Seq(Bytes) /\ Len(u) = Len(m) /\ \A i \in 1 .. Len(m) : u[i] = spare'[i]
    BY <1>8, <2>1, BeginBytes, Zenon
  <2>. HIDE DEF u
  <2>3. \A i \in 1 .. Len(m) : i \in 1 .. Spare /\ i <= Len(m)
    BY <1>1, <1>2
  <2>4. \A i \in 1 .. Len(m) : u[i] = m[i]
    BY <1>5, <2>2, <2>3, Zenon
  <2>5. u = m
    BY <1>1, <2>2, <2>4, SeqEqual, Zenon
  <2>. QED
    BY <2>5, Zenon DEF u
<1>10. ASSUME Len(m) = 0
       PROVE  spare' = spare
  <2>1. \A i \in 1 .. Spare : ~(i <= Len(m))
    BY <1>10
  <2>2. \A i \in 1 .. Spare : spare'[i] = spare[i]
    BY <1>5, <2>1, Zenon
  <2>. QED
    BY <1>3, <1>8, <2>2, SeqEqual, Zenon
<1>. QED
  BY <1>8, <1>9, <1>10, Zenon

\* What a session has put behind the prefix stays when no session writes there.
LEMMA SpareKept ==
    ASSUME SpareOK, spare' = spare, NEW k \in Sessions,
           \A q \in Sessions \ {k} : logs'[q] = logs[q],
           logs'[k].step = "append" =>
             logs[k].step = "append" /\ logs'[k].written = logs[k].written
    PROVE  SpareOK'
<1>. SUFFICES ASSUME NEW q \in Sessions, logs'[q].step = "append", SharesPrefix(Message(q)')
              PROVE  SubSeq(spare', 1, Len(Message(q)')) = Message(q)'
  BY Zenon DEF SpareOK, Spared
<1>1. logs[q].step = "append" /\ logs'[q].written = logs[q].written
  BY Zenon
<1>2. Message(q)' = Message(q)
  BY <1>1, Zenon DEF Message
<1>3. SubSeq(spare, 1, Len(Message(q))) = Message(q)
  BY <1>1, <1>2, Zenon DEF SpareOK, Spared
<1>. QED
  BY <1>2, <1>3, Zenon

\* Sessions whose messages race for the prefix have done so for good.
LEMMA RacingStays ==
    ASSUME LogTypeOK, Racing,
           NEW k \in Sessions, \A q \in Sessions \ {k} : logs'[q] = logs[q],
           \/ logs'[k].written = logs[k].written
           \/ \E m \in Messages : logs'[k].written = Append(logs[k].written, m)
    PROVE  Racing'
<1>1. \A q \in Sessions : logs[q].written \in Seq(Messages)
  BY Zenon DEF LogTypeOK, LogType
<1>2. \A q \in Sessions : \A i \in DOMAIN logs[q].written :
         i \in DOMAIN logs'[q].written /\ logs'[q].written[i] = logs[q].written[i]
  <2>. SUFFICES ASSUME NEW m \in Messages, logs'[k].written = Append(logs[k].written, m),
                       NEW i \in DOMAIN logs[k].written
                PROVE  i \in DOMAIN logs'[k].written /\ logs'[k].written[i] = logs[k].written[i]
    BY Zenon
  <2>. DEFINE s == logs[k].written
  <2>1. s \in Seq(Messages)
    BY <1>1, Zenon
  <2>. HIDE DEF s
  <2>2. i \in DOMAIN s => i \in DOMAIN Append(s, m) /\ Append(s, m)[i] = s[i]
    BY <2>1, AppendProperties
  <2>. QED
    BY <2>2, Zenon DEF s
<1>. DEFINE Short(s) == \E i \in DOMAIN s : Len(s[i]) \in 1 .. Spare
<1>3. \A q \in Sessions : Short(logs[q].written) => Short(logs'[q].written)
  BY <1>2, Zenon
<1>4. PICK a \in Sessions, b \in Sessions :
        a # b /\ Short(logs[a].written) /\ Short(logs[b].written)
  <2>1. PICK a \in Sessions, b \in Sessions : a # b /\ \A l \in {a, b} : Short(logs[l].written)
    BY Zenon DEF Racing
  <2>. HIDE DEF Short
  <2>. QED
    BY <2>1, Zenon
<1>5. \A l \in {a, b} : Short(logs'[l].written)
  <2>. HIDE DEF Short
  <2>. QED
    BY <1>3, <1>4, Zenon
<1>6. a # b /\ \A l \in {a, b} : Short(logs'[l].written)
  BY <1>4, <1>5, Zenon
<1>. QED
  BY <1>6, SMT DEF Racing

\* A step of one session leaves the other ones alone.
LEMMA OneSession ==
    ASSUME LogTypeOK, NEW k \in Sessions, NEW x \in LogType, logs' = [logs EXCEPT ![k] = x],
           x.step = "append" => Len(x.written) > 0,
           spare' \in Seq(Bytes), Len(spare') = Spare
    PROVE  /\ LogTypeOK'
           /\ logs'[k] = x /\ \A q \in Sessions \ {k} : logs'[q] = logs[q]
<1>1. /\ logs \in [Sessions -> LogType]
      /\ \A q \in Sessions : logs[q].step = "append" => Len(logs[q].written) > 0
  BY Zenon DEF LogTypeOK
<1>2. /\ logs' \in [Sessions -> LogType]
      /\ logs'[k] = x /\ \A q \in Sessions \ {k} : logs'[q] = logs[q]
  BY <1>1, Zenon
<1>3. \A q \in Sessions : logs'[q].step = "append" => Len(logs'[q].written) > 0
  BY <1>1, <1>2, Zenon
<1>. QED
  BY <1>2, <1>3, Zenon DEF LogTypeOK

\* The step of one session keeps the invariant of all when it keeps its own.
LEMMA SessionStep ==
    ASSUME LogInv, ~Racing, SpareOK', NEW k \in Sessions,
           \A q \in Sessions \ {k} : logs'[q] = logs[q], LogOK(logs'[k]), LogTypeOK'
    PROVE  LogInv'
<1>1. \A q \in Sessions : LogOK(logs[q])
  BY Zenon DEF LogInv
<1>2. \A q \in Sessions : LogOK(logs'[q])
  <2>. TAKE q \in Sessions
  <2>1. q # k => logs'[q] = logs[q]
    BY Zenon
  <2>. QED
    BY <1>1, <2>1, Zenon
<1>3. (\A q \in Sessions : LogOK(logs[q]))'
  BY <1>2, Zenon
<1>. QED
  BY <1>3, Zenon DEF LogInv

\* A session that writes no message keeps the invariant of all when it keeps its own.
LEMMA QuietStep ==
    ASSUME LogInv, NEW k \in Sessions, NEW x \in LogType, logs' = [logs EXCEPT ![k] = x],
           spare' = spare, x.written = logs[k].written,
           x.step = "append" => logs[k].step = "append", ~Racing => LogOK(x)
    PROVE  LogInv'
<1>1. LogTypeOK
  BY Zenon DEF LogInv
<1>2. spare' \in Seq(Bytes) /\ Len(spare') = Spare
  BY <1>1, Zenon DEF LogTypeOK
<1>3. x.step = "append" => Len(x.written) > 0
  BY <1>1, Zenon DEF LogTypeOK
<1>4. LogTypeOK' /\ logs'[k] = x /\ \A q \in Sessions \ {k} : logs'[q] = logs[q]
  BY <1>1, <1>2, <1>3, OneSession, Zenon
<1>5. logs'[k].written = logs[k].written
  BY <1>4, Zenon
<1>6. Racing => Racing'
  BY <1>1, <1>4, <1>5, RacingStays, Zenon
<1>7. ASSUME ~Racing
      PROVE  LogInv'
  <2>1. SpareOK
    BY <1>7, Zenon DEF LogInv
  <2>2. SpareOK'
    BY <1>4, <1>5, <2>1, SpareKept, Zenon
  <2>3. LogOK(logs'[k])
    BY <1>4, <1>7, Zenon
  <2>. QED
    BY <1>4, <1>7, <2>2, <2>3, SessionStep, Zenon
<1>. QED
  BY <1>4, <1>6, <1>7, Zenon DEF LogInv

\* The first append of wrapMessage.
LEMMA AppendStep ==
    ASSUME LogInv, NEW k \in Sessions, AppendMessage(k)
    PROVE  LogInv'
<1>. DEFINE l == logs[k]
<1>1. LogTypeOK /\ l \in LogType /\ l.step = "idle"
  BY Zenon DEF LogInv, LogTypeOK, AppendMessage
<1>2. PICK m \in Messages :
        /\ logs' = [logs EXCEPT ![k].step = "append", ![k].written = Append(@, m)]
        /\ spare' = IF SharesPrefix(m)
                    THEN [i \in 1 .. Max({Len(m), Len(spare)}) |->
                            IF i <= Len(m) THEN m[i] ELSE spare[i]]
                    ELSE spare
  BY Zenon DEF AppendMessage
<1>. DEFINE x == [l EXCEPT !.step = "append", !.written = Append(@, m)]
<1>3. logs' = [logs EXCEPT ![k] = x]
  BY <1>2, Zenon
<1>4. x \in LogType
  <2>1. l.written \in Seq(Messages)
    BY <1>1, Zenon DEF LogType
  <2>2. Append(l.written, m) \in Seq(Messages)
    <3>. HIDE DEF l
    <3>. QED
      BY <2>1, AppendProperties, Zenon
  <2>. QED
    BY <1>1, <2>2, Zenon DEF LogType, WriterSteps
<1>5. /\ x.step = "append" /\ x.written = Append(l.written, m) /\ x.pipe = l.pipe
      /\ x.data = l.data /\ x.tokens = l.tokens
  BY <1>1, Zenon DEF LogType
<1>. HIDE DEF x
<1>6. spare' \in Seq(Bytes) /\ Len(spare') = Spare
  <2>1. CASE SharesPrefix(m)
    BY <1>1, <1>2, <2>1, SpareAppended, Zenon
  <2>2. CASE ~SharesPrefix(m)
    BY <1>1, <1>2, <2>2, Zenon DEF LogTypeOK
  <2>. QED
    BY <2>1, <2>2, Zenon
<1>7. Len(x.written) \in DOMAIN x.written /\ x.written[Len(x.written)] = m /\ Len(x.written) > 0
  <2>1. l.written \in Seq(Messages)
    BY <1>1, Zenon DEF LogType
  <2>. HIDE DEF l
  <2>. QED
    BY <1>5, <2>1, AppendProperties
<1>8. LogTypeOK' /\ logs'[k] = x /\ \A q \in Sessions \ {k} : logs'[q] = logs[q]
  BY <1>1, <1>3, <1>4, <1>6, <1>7, OneSession, Zenon
<1>9. Racing => Racing'
  BY <1>1, <1>5, <1>8, RacingStays, Zenon
<1>10. ASSUME ~Racing, ~Racing'
       PROVE  LogInv'
  <2>1. LogOK(l) /\ SpareOK
    BY <1>10, Zenon DEF LogInv
  <2>2. LogOK(x)
    BY <1>1, <1>4, <1>5, <2>1, AppendOK, Zenon
  <2>3. SpareOK'
    <3>. SUFFICES ASSUME NEW q \in Sessions, logs'[q].step = "append",
                         SharesPrefix(Message(q)')
                  PROVE  SubSeq(spare', 1, Len(Message(q)')) = Message(q)'
      BY Zenon DEF SpareOK, Spared
    <3>1. CASE q = k
      <4>1. Message(q)' = m
        BY <1>8, <1>7, <3>1, Zenon DEF Message
      <4>. QED
        BY <1>1, <1>2, <4>1, SpareAppended, Zenon
    <3>2. CASE q # k
      <4>. DEFINE p == Message(q)
      <4>1. logs'[q] = logs[q] /\ Message(q)' = p
        BY <1>8, <3>2, Zenon DEF Message
      <4>2. SubSeq(spare, 1, Len(p)) = p
        BY <2>1, <4>1, Zenon DEF SpareOK, Spared
      <4>3. CASE spare' = spare
        BY <4>1, <4>2, <4>3, Zenon
      <4>4. CASE spare' # spare
        <5>1. SharesPrefix(m) /\ Len(m) # 0
          BY <1>1, <1>2, <4>4, SpareAppended, Zenon
        <5>2. Len(m) \in 1 .. Spare
          BY <5>1, MessageBytes, LogFramingAssumption DEF SharesPrefix
        <5>3. LogOK(logs[q]) /\ logs[q].step = "append" /\ logs[q] \in LogType
          BY <1>1, <1>10, <4>1, Zenon DEF LogInv, LogTypeOK
        <5>. DEFINE s == logs[q].written
                    w == Len(s)
        <5>4. w > 0 /\ s \in Seq(Messages)
          <6>1. w > 0
            BY <5>3, Zenon DEF LogOK, Placed
          <6>2. s \in Seq(Messages)
            BY <5>3, Zenon DEF LogType
          <6>. QED
            BY <6>1, <6>2, Zenon
        <5>. HIDE DEF s
        <5>5. w \in DOMAIN s /\ s[w] \in Messages
          BY <5>4, ElementOfSeq
        <5>6. s[w] = p /\ p \in Messages
          BY <5>5, Zenon DEF s, Message
        <5>7. Len(p) \notin 1 .. Spare
          <6>. SUFFICES ASSUME Len(p) \in 1 .. Spare
                        PROVE  Racing'
            BY <1>10, Zenon
          <6>1. \E i \in DOMAIN logs'[q].written : Len(logs'[q].written[i]) \in 1 .. Spare
            BY <4>1, <5>5, <5>6, Zenon DEF s
          <6>2. \E i \in DOMAIN logs'[k].written : Len(logs'[k].written[i]) \in 1 .. Spare
            BY <1>8, <1>7, <5>2, Zenon
          <6>3. \A h \in {q, k} :
                  \E i \in DOMAIN logs'[h].written : Len(logs'[h].written[i]) \in 1 .. Spare
            BY <6>1, <6>2, Zenon
          <6>. QED
            BY <3>2, <6>3, SMT DEF Racing
        <5>8. Len(p) = 0 /\ p \in Seq(Bytes)
          <6>1. Len(p) <= Spare
            BY <4>1, Zenon DEF SharesPrefix
          <6>2. p \in Seq(Bytes) /\ Len(p) \in Nat
            BY <5>6, MessageBytes, LenProperties, Zenon
          <6>. HIDE DEF p
          <6>3. Len(p) = 0
            BY <5>7, <6>1, <6>2, LogFramingAssumption
          <6>. QED
            BY <6>2, <6>3, Zenon
        <5>9. p = <<>>
          <6>. HIDE DEF p
          <6>. QED
            BY <5>8, EmptySeq, Zenon
        <5>10. SubSeq(spare', 1, 0) = <<>>
          <6>1. 1 \in Int /\ 0 \in Int /\ 0 < 1
            OBVIOUS
          <6>. QED
            BY <6>1, SubSeqEmpty, Zenon
        <5>. QED
          BY <4>1, <5>8, <5>9, <5>10, Zenon
      <4>. QED
        BY <4>3, <4>4, Zenon
    <3>. QED
      BY <3>1, <3>2, Zenon
  <2>. QED
    BY <1>8, <1>10, <2>2, <2>3, SessionStep, Zenon
<1>. QED
  BY <1>8, <1>9, <1>10, Zenon DEF LogInv

\* The second append: the frame has the message, which is still behind the prefix if it
\* was put there.
LEMMA WrapStep ==
    ASSUME LogInv, NEW k \in Sessions, WrapMessage(k)
    PROVE  LogInv'
<1>. DEFINE l == logs[k]
            m == Message(k)
            content == IF SharesPrefix(m) THEN Spared(Len(m)) ELSE m
            msg == Frame(content)
            x == [l EXCEPT !.step = "write", !.pipe = msg, !.n = Len(msg)]
<1>1. LogTypeOK /\ l \in LogType /\ l.step = "append" /\ spare' = spare
  BY Zenon DEF LogInv, LogTypeOK, WrapMessage
<1>2. logs' = [logs EXCEPT ![k] = x]
  <2>1. logs' = [logs EXCEPT ![k].step = "write", ![k].pipe = msg, ![k].n = Len(msg)]
    BY Zenon DEF WrapMessage, Frame
  <2>. HIDE DEF msg
  <2>. QED
    BY <2>1, Zenon
<1>3. spare \in Seq(Bytes) /\ Len(spare) = Spare
  BY <1>1, Zenon DEF LogTypeOK
<1>4. msg \in Seq(Bytes) /\ Len(msg) \in Nat
  <2>1. Len(l.written) > 0 /\ l.written \in Seq(Messages)
    <3>1. Len(l.written) > 0
      BY <1>1, Zenon DEF LogTypeOK
    <3>. QED
      BY <1>1, <3>1, Zenon DEF LogType
  <2>2. m \in Messages
    <3>. DEFINE s == l.written
                w == Len(s)
    <3>1. s \in Seq(Messages) /\ w > 0
      BY <2>1, Zenon
    <3>. HIDE DEF s
    <3>2. s[w] \in Messages
      BY <3>1, ElementOfSeq
    <3>. QED
      BY <3>2, Zenon DEF s, Message
  <2>. HIDE DEF m
  <2>3. m \in Seq(Bytes) /\ Len(m) \in Nat
    BY <2>2, MessageBytes, LenProperties, Zenon
  <2>4. content \in Seq(Bytes)
    <3>1. CASE SharesPrefix(m)
      <4>1. Len(m) \in 0 .. Len(spare)
        BY <1>3, <2>3, <3>1, LogFramingAssumption DEF SharesPrefix
      <4>. QED
        BY <1>3, <3>1, <4>1, BeginBytes, Zenon DEF Spared
    <3>2. CASE ~SharesPrefix(m)
      BY <2>3, <3>2, Zenon
    <3>. QED
      BY <3>1, <3>2, Zenon
  <2>. HIDE DEF content
  <2>. QED
    BY <2>4, FrameBytes, LenProperties, Zenon
<1>5. x \in LogType
  <2>. HIDE DEF msg
  <2>. QED
    BY <1>1, <1>4, Zenon DEF LogType, WriterSteps
<1>6. /\ x.step = "write" /\ x.written = l.written /\ x.pipe = msg /\ x.n = Len(msg)
      /\ x.data = l.data /\ x.tokens = l.tokens
  <2>. HIDE DEF msg
  <2>. QED
    BY <1>1, Zenon DEF LogType
<1>. HIDE DEF x
<1>7. ASSUME ~Racing
      PROVE  LogOK(x)
  <2>1. LogOK(l) /\ SpareOK
    BY <1>7, Zenon DEF LogInv
  <2>2. content = m
    BY <1>1, <2>1, Zenon DEF SpareOK
  <2>3. x.pipe = Frame(l.written[Len(l.written)]) /\ x.n = Len(x.pipe)
    BY <1>6, <2>2, Zenon DEF Message
  <2>. QED
    BY <1>1, <1>5, <1>6, <2>1, <2>3, WrapOK, Zenon
<1>. QED
  BY <1>1, <1>2, <1>5, <1>6, <1>7, QuietStep, Zenon

\* A nonempty set of natural numbers has a smallest member.
LEMMA SmallestMember ==
    ASSUME NEW T, T \subseteq Nat, T # {}
    PROVE  \E x \in T : \A y \in T : x <= y
<1>. DEFINE R == OpToRel(<, Nat)
<1>1. IsWellFoundedOn(R, Nat)
  BY NatLessThanWellFounded, Zenon
<1>2. \A x, y \in Nat : x < y => << x, y >> \in R
  BY Zenon DEF OpToRel
<1>. HIDE DEF R
<1>3. PICK x \in T : \A y \in T : ~(<<y, x>> \in R)
  BY <1>1, WFMin, Zenon
<1>4. \A y \in T : ~(y < x)
  BY <1>2, <1>3, Zenon
<1>. QED
  BY <1>4

\* customSplit cuts a sequence of bytes into sequences of bytes.
LEMMA SplitTyped ==
    ASSUME NEW data \in Seq(Bytes), NEW atEOF \in BOOLEAN
    PROVE  /\ customSplit(data, atEOF).token \in Seq(Seq(Bytes))
           /\ customSplit(data, atEOF).rest \in Seq(Bytes)
<1>. DEFINE i == Min(Separators(data))
            split == customSplit(data, atEOF)
<1>1. Len(messageSeparator) = 3 /\ Len(data) \in Nat
  BY DEF messageSeparator
<1>2. ASSUME Separators(data) # {}
      PROVE  split.token \in Seq(Seq(Bytes)) /\ split.rest \in Seq(Bytes)
  <2>1. \A j \in Separators(data) : j \in Nat /\ 1 <= j /\ j + 2 <= Len(data)
    <3>1. \A j \in Separators(data) : j \in Nat
      BY DEF Separators
    <3>. QED
      BY <3>1, SeparatorAt
  <2>2. \E x \in Separators(data) : \A y \in Separators(data) : x <= y
    <3>1. Separators(data) \subseteq Nat
      BY <2>1, Zenon
    <3>. QED
      BY <1>2, <3>1, SmallestMember, Zenon
  <2>3. i \in Separators(data)
    BY <2>2, Zenon DEF Min
  <2>4. i \in Nat /\ 1 <= i /\ i + 2 <= Len(data)
    BY <2>1, <2>3, Zenon
  <2>. HIDE DEF i
  <2>. DEFINE a == SubSeq(data, 1, i - 1)
              b == SubSeq(data, (i + 2) + 1, Len(data))
  <2>5. a \in Seq(Bytes)
    <3>1. i - 1 \in 0 .. Len(data)
      BY <1>1, <2>4
    <3>. QED
      BY <3>1, BeginBytes, Zenon
  <2>6. b \in Seq(Bytes)
    <3>1. i + 2 \in 0 .. Len(data)
      BY <1>1, <2>4
    <3>. QED
      BY <3>1, RestBytes, Zenon
  <2>7. i + Len(messageSeparator) = (i + 2) + 1
    BY <1>1, <2>4
  <2>8. split = [token |-> << a >>, rest |-> b]
    BY <1>2, <2>7, Zenon DEF customSplit, i
  <2>. HIDE DEF a, b, split
  <2>. QED
    BY <2>5, <2>6, <2>8
<1>3. ASSUME Separators(data) = {}
      PROVE  split.token \in Seq(Seq(Bytes)) /\ split.rest \in Seq(Bytes)
  <2>1. CASE atEOF /\ data # <<>>
    <3>1. split = [token |-> << data >>, rest |-> <<>>]
      BY <1>3, <2>1, Zenon DEF customSplit
    <3>. HIDE DEF split
    <3>. QED
      BY <3>1
  <2>2. CASE ~(atEOF /\ data # <<>>)
    <3>1. split = [token |-> <<>>, rest |-> data]
      BY <1>3, <2>2, Zenon DEF customSplit
    <3>. HIDE DEF split
    <3>. QED
      BY <3>1
  <2>. QED
    BY <2>1, <2>2, Zenon
<1>. QED
  BY <1>2, <1>3, Zenon

\* A read of the scanner.
LEMMA ReadStep ==
    ASSUME LogInv, NEW k \in Sessions, Read(k)
    PROVE  LogInv'
<1>. DEFINE l == logs[k]
<1>1. /\ LogTypeOK /\ l \in LogType /\ spare' = spare /\ l.pipe # <<>>
      /\ customSplit(l.data, FALSE).token = <<>>
  BY Zenon DEF LogInv, LogTypeOK, Read
<1>2. PICK i \in 1 .. Len(l.pipe) :
        logs' = [logs EXCEPT ![k].data = @ \o SubSeq(l.pipe, 1, i),
                             ![k].pipe = SubSeq(@, i + 1, Len(@))]
  BY Zenon DEF Read
<1>. DEFINE d == l.data \o SubSeq(l.pipe, 1, i)
            p == SubSeq(l.pipe, i + 1, Len(l.pipe))
            x == [l EXCEPT !.data = d, !.pipe = p]
<1>3. logs' = [logs EXCEPT ![k] = x]
  BY <1>2, Zenon
<1>4. l.data \in Seq(Bytes) /\ l.pipe \in Seq(Bytes)
  BY <1>1, Zenon DEF LogType
<1>5. d \in Seq(Bytes) /\ p \in Seq(Bytes)
  <2>. DEFINE s == l.pipe
              t == l.data
  <2>1. s \in Seq(Bytes) /\ t \in Seq(Bytes) /\ i \in 1 .. Len(s)
    BY <1>4, Zenon
  <2>. HIDE DEF s, t
  <2>2. i \in 0 .. Len(s)
    BY <2>1
  <2>. DEFINE u == SubSeq(s, 1, i)
  <2>3. u \in Seq(Bytes) /\ SubSeq(s, i + 1, Len(s)) \in Seq(Bytes)
    BY <2>1, <2>2, BeginBytes, RestBytes, Zenon
  <2>. HIDE DEF u
  <2>4. t \o u \in Seq(Bytes)
    BY <2>1, <2>3, ConcatProperties, Zenon
  <2>. QED
    BY <2>3, <2>4, Zenon DEF s, t, u
<1>. HIDE DEF d, p
<1>6. x \in LogType
  BY <1>1, <1>5, Zenon DEF LogType
<1>7. /\ x.step = l.step /\ x.written = l.written /\ x.n = l.n /\ x.tokens = l.tokens
      /\ x.data = d /\ x.pipe = p
  BY <1>1, Zenon DEF LogType
<1>. HIDE DEF x
<1>8. ASSUME ~Racing
      PROVE  LogOK(x)
  <2>1. LogOK(l)
    BY <1>8, Zenon DEF LogInv
  <2>. QED
    BY <1>1, <1>6, <1>7, <2>1, ReadOK, Zenon DEF d, p
<1>. QED
  BY <1>1, <1>3, <1>6, <1>7, <1>8, QuietStep, Zenon

\* The end of a write.
LEMMA ReturnStep ==
    ASSUME LogInv, NEW k \in Sessions, WriteReturns(k)
    PROVE  LogInv'
<1>. DEFINE l == logs[k]
            after == IF l.n - messageOffset = Len(l.written[Len(l.written)])
                    THEN "idle" ELSE "failed"
            x == [l EXCEPT !.step = after]
<1>1. LogTypeOK /\ l \in LogType /\ spare' = spare /\ l.step = "write" /\ l.pipe = <<>>
  BY Zenon DEF LogInv, LogTypeOK, WriteReturns
<1>2. after \in {"idle", "failed"}
  BY Zenon
<1>3. logs' = [logs EXCEPT ![k] = x]
  <2>1. logs' = [logs EXCEPT ![k].step = after]
    BY Zenon DEF WriteReturns, Message
  <2>. HIDE DEF after
  <2>. QED
    BY <2>1, Zenon
<1>. HIDE DEF after
<1>4. x \in LogType
  BY <1>1, <1>2, Zenon DEF LogType, WriterSteps
<1>5. /\ x.step = after /\ x.written = l.written /\ x.pipe = l.pipe /\ x.data = l.data
      /\ x.tokens = l.tokens /\ x.step # "append"
  BY <1>1, <1>2, Zenon DEF LogType
<1>. HIDE DEF x
<1>6. ASSUME ~Racing
      PROVE  LogOK(x)
  <2>1. LogOK(l)
    BY <1>6, Zenon DEF LogInv
  <2>. QED
    BY <1>1, <1>4, <1>5, <2>1, ReturnOK, Zenon DEF after
<1>. QED
  BY <1>1, <1>3, <1>4, <1>5, <1>6, QuietStep, Zenon

\* The close of the pipe.
LEMMA CloseStep ==
    ASSUME LogInv, NEW k \in Sessions, ClosePipe(k)
    PROVE  LogInv'
<1>. DEFINE l == logs[k]
            e == <<>>
            x == [l EXCEPT !.step = "closed", !.pipe = e]
<1>1. LogTypeOK /\ l \in LogType /\ spare' = spare /\ l.step # "closed"
  BY Zenon DEF LogInv, LogTypeOK, ClosePipe
<1>2. logs' = [logs EXCEPT ![k] = x]
  BY Zenon DEF ClosePipe
<1>3. e \in Seq(Bytes)
  OBVIOUS
<1>. HIDE DEF e
<1>4. x \in LogType
  BY <1>1, <1>3, Zenon DEF LogType, WriterSteps
<1>5. /\ x.step = "closed" /\ x.pipe = e /\ x.written = l.written /\ x.data = l.data
      /\ x.tokens = l.tokens /\ x.step # "append"
  BY <1>1, Zenon DEF LogType
<1>. HIDE DEF x
<1>6. ASSUME ~Racing
      PROVE  LogOK(x)
  <2>1. LogOK(l)
    BY <1>6, Zenon DEF LogInv
  <2>. QED
    BY <1>1, <1>4, <1>5, <2>1, CloseOK, Zenon DEF e
<1>. QED
  BY <1>1, <1>2, <1>4, <1>5, <1>6, QuietStep, Zenon

\* A token of the scanner.
LEMMA ScanStep ==
    ASSUME LogInv, NEW k \in Sessions, Scan(k)
    PROVE  LogInv'
<1>. DEFINE l == logs[k]
            atEOF == l.step = "closed"
            split == customSplit(l.data, atEOF)
            d == split.rest
            t == l.tokens \o split.token
            x == [l EXCEPT !.data = d, !.tokens = t]
<1>1. LogTypeOK /\ l \in LogType /\ spare' = spare /\ split.token # <<>>
  BY Zenon DEF LogInv, LogTypeOK, Scan
<1>2. d \in Seq(Bytes) /\ t \in Seq(Seq(Bytes))
  <2>1. l.data \in Seq(Bytes) /\ l.tokens \in Seq(Seq(Bytes))
    BY <1>1, Zenon DEF LogType
  <2>2. atEOF \in BOOLEAN
    BY Zenon
  <2>. HIDE DEF atEOF
  <2>3. split.rest \in Seq(Bytes) /\ split.token \in Seq(Seq(Bytes))
    BY <2>1, <2>2, SplitTyped, Zenon
  <2>. DEFINE a == l.tokens
              b == split.token
  <2>4. a \in Seq(Seq(Bytes)) /\ b \in Seq(Seq(Bytes))
    BY <2>1, <2>3, Zenon
  <2>. HIDE DEF a, b
  <2>5. a \o b \in Seq(Seq(Bytes))
    BY <2>4, ConcatProperties, Zenon
  <2>. QED
    BY <2>3, <2>5, Zenon DEF a, b
<1>3. logs' = [logs EXCEPT ![k] = x]
  <2>1. logs' = [logs EXCEPT ![k].data = d, ![k].tokens = t]
    BY Zenon DEF Scan
  <2>. HIDE DEF d, t
  <2>. QED
    BY <2>1, Zenon
<1>. HIDE DEF d, t
<1>4. x \in LogType
  BY <1>1, <1>2, Zenon DEF LogType
<1>5. /\ x.step = l.step /\ x.written = l.written /\ x.pipe = l.pipe /\ x.n = l.n
      /\ x.data = d /\ x.tokens = t
  BY <1>1, Zenon DEF LogType
<1>. HIDE DEF x
<1>6. ASSUME ~Racing
      PROVE  LogOK(x)
  <2>1. LogOK(l)
    BY <1>6, Zenon DEF LogInv
  <2>. QED
    BY <1>1, <1>4, <1>5, <2>1, ScanOK, Zenon DEF d, t
<1>. QED
  BY <1>1, <1>3, <1>4, <1>5, <1>6, QuietStep, Zenon

\* The bytes of every message are where its writer's step says, in every reachable state.
THEOREM FramingInvariant == LogSpec => []LogInv
<1>1. LogInit => LogInv
  <2>. SUFFICES ASSUME LogInit
                PROVE  LogInv
    BY Zenon
  <2>1. spare \in Seq(Bytes) /\ Len(spare) = Spare
    <3>1. spare \in [1 .. Spare -> Bytes]
      BY Zenon DEF LogInit, Bytes
    <3>. QED
      BY <3>1, LogFramingAssumption, BytesSeq, Zenon
  <2>2. \A k \in Sessions : /\ logs[k] \in LogType /\ logs[k].step = "idle"
                            /\ logs[k].written = <<>> /\ logs[k].pipe = <<>>
                            /\ logs[k].data = <<>> /\ logs[k].tokens = <<>>
    BY DEF LogInit, LogType, WriterSteps
  <2>3. LogTypeOK
    <3>1. logs \in [Sessions -> LogType]
      BY <2>2, Zenon DEF LogInit
    <3>. QED
      BY <2>1, <2>2, <3>1, Zenon DEF LogTypeOK
  <2>4. \A k \in Sessions : LogOK(logs[k])
    BY <2>2 DEF LogOK, Complete, Placed, Scanned
  <2>5. SpareOK
    BY <2>2, Zenon DEF SpareOK
  <2>. QED
    BY <2>3, <2>4, <2>5, Zenon DEF LogInv
<1>2. LogInv /\ [LogNext]_logVars => LogInv'
  <2>1. ASSUME LogInv, LogNext
        PROVE  LogInv'
    BY <2>1, AppendStep, WrapStep, ReturnStep, CloseStep, ReadStep, ScanStep, Zenon
    DEF LogNext
  <2>2. ASSUME LogInv, UNCHANGED logVars
        PROVE  LogInv'
    <3>1. spare' = spare /\ logs' = logs
      BY <2>2, Zenon DEF logVars
    <3>. QED
      BY <2>2, <3>1, Zenon DEF LogInv, LogTypeOK, Racing, SpareOK, Spared, Message
  <2>. QED
    BY <2>1, <2>2, Zenon
<1>. QED
  BY <1>1, <1>2, PTL DEF LogSpec

\* customSplit and wrapMessage: the client gets the messages Docker wrote, each one whole
\* with its prefix, in order and none of another session, for any number of sessions, any
\* messages without the separator and any pieces the scanner reads them in.
THEOREM FramesAreKept == LogSpec => []FramesKept
<1>1. LogInv => FramesKept
  <2>. SUFFICES ASSUME LogInv, ~Racing, NEW k \in Sessions
                PROVE  LET l == logs[k]
                       IN  /\ l.step # "failed"
                           /\ Len(l.tokens) <= Len(l.written)
                           /\ \A i \in DOMAIN l.tokens :
                                \/ l.tokens[i] = bothPrefix \o l.written[i]
                                \/ l.step = "closed" /\ i = Len(l.written)
    BY Zenon DEF FramesKept
  <2>. DEFINE l == logs[k]
  <2>1. l \in LogType /\ LogOK(l)
    BY Zenon DEF LogInv, LogTypeOK
  <2>2. l.step # "failed"
    BY <2>1, Zenon DEF LogOK, Placed
  <2>3. Len(l.tokens) <= Len(l.written)
    BY <2>1, TokensWritten, Zenon
  <2>4. DOMAIN l.tokens = 1 .. Len(l.tokens)
    BY <2>1 DEF LogType
  <2>5. Complete(l)
    BY <2>1, Zenon DEF LogOK
  <2>. QED
    BY <2>2, <2>3, <2>4, <2>5, Zenon DEF Complete
<1>. QED
  BY <1>1, FramingInvariant, PTL

--------------------------------------------------------------------------------
(* The rounds of a container statistics session.                            *)

\* A record: a sample for each of some Rancher ids.
Row == [Id : {containerIds(c) : c \in Containers}, Sample : Nat]
Rows == Seq(Row)

\* The state of a stream.
Stream == [produced : 0 .. MaxSamples, read : 0 .. MaxSamples, ended : BOOLEAN]

\* A stream keeps its type when one field changes within its own.
LEMMA StreamField ==
    ASSUME NEW s \in Stream, NEW n \in 0 .. MaxSamples
    PROVE  /\ [s EXCEPT !.read = n] \in Stream /\ [s EXCEPT !.read = n].read = n
           /\ [s EXCEPT !.produced = n] \in Stream /\ [s EXCEPT !.produced = n].read = s.read
           /\ [s EXCEPT !.ended = TRUE] \in Stream /\ [s EXCEPT !.ended = TRUE].read = s.read
  BY Zenon DEF Stream

\* The lists of containers name each one at most once.
ListsDistinct ==
    /\ IsInjective(IDList) /\ IsInjective(contList)
    /\ \A i \in DOMAIN IDList, j \in DOMAIN contList : IDList[i] # contList[j]
    /\ step = "list" => IDList = <<>>

\* The readers are in step: before the first round nothing is read, and in a round every
\* reader has read one sample per record, and one more if its turn has come.
InStep ==
    /\ records \in Seq(Rows)
    /\ step \in {"list", "open"} =>
          records = <<>> /\ infos = <<>> /\ \A c \in Containers : stream[c].read = 0
    /\ step \in {"read", "write"} => \A j \in DOMAIN IDList :
          stream[IDList[j]].read = Len(records) + IF j <= Len(infos) THEN 1 ELSE 0
    /\ \A j \in DOMAIN infos : infos[j] = [Id |-> IDList[j], Sample |-> Len(records) + 1]
    /\ step = "write" => Len(infos) = Len(IDList)
    /\ RecordsInStep

RoundInv == TypeOK /\ ListsDistinct /\ IsFiniteSet(opened) /\ StreamsOwned /\ InStep

\* A round starts with no stream open and nothing read.
LEMMA RoundInit == Init => RoundInv
<1>. SUFFICES ASSUME Init PROVE RoundInv
  BY Zenon
<1>1. /\ step = "list" /\ contList = <<>> /\ IDList = <<>> /\ opened = {}
      /\ stream = [c \in Containers |-> [produced |-> 0, read |-> 0, ended |-> FALSE]]
      /\ infos = <<>> /\ records = <<>>
  BY Zenon DEF Init, Fresh
<1>2. TypeOK
  BY <1>1, StatsRoundAssumption, EmptySeq DEF TypeOK
<1>3. ListsDistinct /\ IsFiniteSet(opened) /\ StreamsOwned
  BY <1>1, FS_EmptySet DEF ListsDistinct, StreamsOwned, IsInjective
<1>4. InStep
  BY <1>1 DEF InStep, RecordsInStep
<1>. QED
  BY <1>2, <1>3, <1>4, Zenon DEF RoundInv

\* Handle may return anywhere: its deferred calls close what it opened.
LEMMA ReturnRound ==
    ASSUME RoundInv, Return
    PROVE  RoundInv'
<1>1. TypeOK'
  BY Zenon DEF RoundInv, Return, TypeOK
<1>2. ListsDistinct'
  BY Zenon DEF RoundInv, Return, ListsDistinct
<1>3. IsFiniteSet(opened)' /\ StreamsOwned'
  BY FS_EmptySet, Zenon DEF Return, StreamsOwned
<1>4. InStep'
  BY DEF RoundInv, Return, InStep, RecordsInStep
<1>. QED
  BY <1>1, <1>2, <1>3, <1>4, Zenon DEF RoundInv

\* The list of containers gives the round its IDs, each once.
LEMMA ListRound ==
    ASSUME RoundInv, ContainerList
    PROVE  RoundInv'
<1>1. CASE Return
  BY <1>1, ReturnRound, Zenon
<1>2. CASE /\ step = "list" /\ step' = "open"
           /\ \E n \in 0 .. Cardinality(Containers) :
                contList' \in {l \in [1 .. n -> Containers] : IsInjective(l)}
           /\ UNCHANGED <<IDList, opened, stream, infos, records>>
  <2>1. contList' \in Seq(Containers) /\ IsInjective(contList')
    <3>1. Cardinality(Containers) \in Nat
      BY StatsRoundAssumption, FS_CardinalityType, Zenon
    <3>2. PICK m \in 0 .. Cardinality(Containers) : contList' \in [1 .. m -> Containers]
      BY <1>2, Zenon
    <3>3. m \in Nat
      BY <3>1
    <3>. QED
      BY <1>2, <3>2, <3>3, SeqDef, Zenon
  <2>2. IDList = <<>> /\ DOMAIN IDList = {}
    BY <1>2 DEF RoundInv, ListsDistinct
  <2>3. TypeOK'
    BY <1>2, <2>1, Zenon DEF RoundInv, TypeOK
  <2>4. ListsDistinct' /\ IsFiniteSet(opened)' /\ StreamsOwned'
    BY <1>2, <2>1, <2>2 DEF RoundInv, ListsDistinct, StreamsOwned, IsInjective
  <2>5. InStep'
    BY <1>2 DEF RoundInv, InStep, RecordsInStep
  <2>. QED
    BY <2>3, <2>4, <2>5, Zenon DEF RoundInv
<1>. QED
  BY <1>1, <1>2, Zenon DEF ContainerList

\* A stream is opened for a container that has none yet, so its reader is its own.
LEMMA OpenRound ==
    ASSUME RoundInv, ContainerStats
    PROVE  RoundInv'
<1>. DEFINE c == Head(contList)
<1>1. CASE Return
  BY <1>1, ReturnRound, Zenon
<1>2. CASE /\ step = "open" /\ contList # <<>> /\ contList' = Tail(contList)
           /\ IF c \in Requested THEN IDList' = Append(IDList, c) /\ opened' = opened \union {c}
                                 ELSE UNCHANGED <<IDList, opened>>
           /\ UNCHANGED <<step, stream, infos, records>>
  <2>1. /\ contList \in Seq(Containers) /\ IDList \in Seq(Requested) /\ TypeOK
        /\ ListsDistinct /\ StreamsOwned /\ InStep /\ IsFiniteSet(opened)
    BY Zenon DEF RoundInv, TypeOK
  <2>2. /\ c = contList[1] /\ c \in Containers /\ contList' \in Seq(Containers)
        /\ Len(contList) \in Nat \ {0} /\ DOMAIN contList = 1 .. Len(contList)
        /\ DOMAIN contList' = 1 .. Len(contList) - 1
        /\ \A i \in DOMAIN contList' : contList'[i] = contList[i + 1] /\ i + 1 \in DOMAIN contList
    BY <1>2, <2>1
  <2>3. IsInjective(contList') /\ \A i \in DOMAIN contList' : contList'[i] # c
    BY <2>1, <2>2 DEF ListsDistinct, IsInjective
  <2>4. \A i \in DOMAIN IDList : IDList[i] # c
    BY <2>1, <2>2 DEF ListsDistinct
  <2>5. \A i \in DOMAIN IDList, j \in DOMAIN contList' : IDList[i] # contList'[j]
    BY <2>1, <2>2, Zenon DEF ListsDistinct
  <2>6. InStep'
    <3>1. records' = <<>> /\ infos' = <<>> /\ \A d \in Containers : stream'[d].read = 0
      BY <1>2, <2>1, Zenon DEF InStep
    <3>. QED
      BY <1>2, <2>1, <3>1 DEF InStep, RecordsInStep
  <2>7. CASE c \in Requested
    <3>1. /\ IDList' \in Seq(Requested) /\ Len(IDList) \in Nat
          /\ Len(IDList') = Len(IDList) + 1 /\ DOMAIN IDList' = 1 .. Len(IDList) + 1
          /\ DOMAIN IDList = 1 .. Len(IDList) /\ IDList'[Len(IDList) + 1] = c
          /\ \A i \in DOMAIN IDList : IDList'[i] = IDList[i]
      <4>1. IDList' = Append(IDList, c)
        BY <1>2, <2>7, Zenon
      <4>. HIDE DEF c
      <4>. QED
        BY <2>1, <2>7, <4>1
    <3>2. opened = {IDList[i] : i \in DOMAIN IDList} /\ Cardinality(opened) = Len(IDList)
      BY <1>2, <2>1, Zenon DEF StreamsOwned
    <3>3. c \notin opened
      BY <2>4, <3>2, Zenon
    <3>4. IsFiniteSet(opened)' /\ Cardinality(opened') = Len(IDList')
      <4>1. opened' = opened \union {c}
        BY <1>2, <2>7, Zenon
      <4>. HIDE DEF c
      <4>2. IsFiniteSet(opened \union {c}) /\ Cardinality(opened \union {c}) = Cardinality(opened) + 1
        BY <2>1, <3>3, FS_AddElement, Zenon
      <4>. QED
        BY <3>1, <3>2, <4>1, <4>2, Zenon
    <3>5. opened' = {IDList'[i] : i \in DOMAIN IDList'}
      <4>1. opened' = opened \union {c}
        BY <1>2, <2>7, Zenon
      <4>2. \A i \in DOMAIN IDList' : i \in DOMAIN IDList \/ i = Len(IDList) + 1
        BY <3>1
      <4>3. DOMAIN IDList \subseteq DOMAIN IDList' /\ Len(IDList) + 1 \in DOMAIN IDList'
        BY <3>1
      <4>. QED
        BY <3>1, <3>2, <4>1, <4>2, <4>3, Zenon
    <3>6. StreamsOwned'
      BY <1>2, <3>4, <3>5, Zenon DEF StreamsOwned
    <3>7. ListsDistinct'
      <4>1. \A i \in DOMAIN IDList' : i \in DOMAIN IDList \/ i = Len(IDList) + 1
        BY <3>1
      <4>2. IsInjective(IDList) /\ step' # "list"
        BY <1>2, <2>1, Zenon DEF ListsDistinct
      <4>. HIDE DEF c
      <4>3. IsInjective(IDList')
        BY <2>4, <3>1, <4>1, <4>2, Zenon DEF IsInjective
      <4>4. \A i \in DOMAIN IDList', j \in DOMAIN contList' : IDList'[i] # contList'[j]
        BY <2>3, <2>5, <3>1, <4>1, Zenon
      <4>. QED
        BY <2>3, <4>2, <4>3, <4>4, Zenon DEF ListsDistinct
    <3>8. TypeOK'
      <4>1. Len(infos') <= Len(IDList')
        BY <1>2, <2>1, <3>1 DEF TypeOK
      <4>. QED
        BY <1>2, <2>1, <2>2, <2>7, <3>1, <4>1, Zenon DEF TypeOK
    <3>. QED
      BY <2>6, <3>4, <3>6, <3>7, <3>8, Zenon DEF RoundInv
  <2>8. CASE c \notin Requested
    <3>1. UNCHANGED <<IDList, opened>>
      BY <1>2, <2>8, Zenon
    <3>2. StreamsOwned' /\ TypeOK' /\ IsFiniteSet(opened)'
      BY <1>2, <2>1, <2>2, <3>1 DEF StreamsOwned, TypeOK
    <3>3. ListsDistinct'
      BY <1>2, <2>1, <2>3, <2>5, <3>1, Zenon DEF ListsDistinct
    <3>. QED
      BY <2>6, <3>2, <3>3, Zenon DEF RoundInv
  <2>. QED
    BY <2>7, <2>8, Zenon
<1>. QED
  BY <1>1, <1>2, Zenon DEF ContainerStats

\* The reader whose turn it is takes the sample after those it has read before.
LEMMA ReadRound ==
    ASSUME RoundInv, GetContainerInfo
    PROVE  RoundInv'
<1>. DEFINE c == NextContainer
            n == Len(infos) + 1
            row == [Id |-> c, Sample |-> stream[c].read + 1]
<1>1. /\ TypeOK /\ ListsDistinct /\ StreamsOwned /\ InStep /\ IsFiniteSet(opened)
      /\ step = "read" /\ Len(infos) < Len(IDList) /\ stream[c].read < stream[c].produced
      /\ UNCHANGED <<step, contList, IDList, opened, records>>
  BY Zenon DEF RoundInv, GetContainerInfo
<1>2. /\ Len(infos) \in Nat /\ Len(IDList) \in Nat /\ Len(records) \in Nat
      /\ DOMAIN infos = 1 .. Len(infos) /\ DOMAIN IDList = 1 .. Len(IDList)
      /\ n \in DOMAIN IDList /\ c = IDList[n]
  BY <1>1 DEF TypeOK, InStep, NextContainer
<1>3. c \in Requested /\ c \in Containers
  BY <1>1, <1>2, ElementOfSeq, StatsRoundAssumption, Zenon DEF TypeOK
<1>4. stream[c] \in Stream /\ stream[c].read = Len(records)
  <2>1. stream[c] \in Stream
    BY <1>1, <1>3, Zenon DEF TypeOK, Stream
  <2>2. ~(n <= Len(infos))
    BY <1>2
  <2>3. stream[IDList[n]].read = Len(records) + 0
    BY <1>1, <1>2, <2>2, Zenon DEF InStep
  <2>. QED
    BY <1>2, <2>1, <2>3
<1>5. /\ stream' = [stream EXCEPT ![c].read = @ + 1]
      /\ stream'[c].read = stream[c].read + 1
      /\ \A d \in Containers : d # c => stream'[d] = stream[d]
      /\ infos' = Append(infos, row)
  BY <1>1, <1>3, Zenon DEF GetContainerInfo, TypeOK
<1>6. stream'[c].read \in 1 .. MaxSamples
  <2>1. stream[c].read \in 0 .. MaxSamples /\ stream[c].produced \in 0 .. MaxSamples
    BY <1>4, Zenon DEF Stream
  <2>. QED
    BY <1>1, <1>5, <2>1, StatsRoundAssumption
<1>7. stream' \in [Containers -> Stream]
  <2>1. stream \in [Containers -> Stream]
    BY <1>1, Zenon DEF TypeOK, Stream
  <2>2. stream[c].read + 1 \in 0 .. MaxSamples
    BY <1>5, <1>6
  <2>3. [stream[c] EXCEPT !.read = stream[c].read + 1] \in Stream
    BY <1>4, <2>2, StreamField, Zenon
  <2>. QED
    BY <1>3, <1>5, <2>1, <2>3, Zenon
<1>8. row \in [Id : Requested, Sample : 1 .. MaxSamples]
  BY <1>3, <1>5, <1>6, Zenon
<1>9. /\ infos' \in Seq([Id : Requested, Sample : 1 .. MaxSamples])
      /\ Len(infos') = n /\ DOMAIN infos' = 1 .. n /\ infos'[n] = row
      /\ \A j \in DOMAIN infos : infos'[j] = infos[j]
  <2>. HIDE DEF row
  <2>. QED
    BY <1>1, <1>2, <1>5, <1>8, AppendProperties DEF TypeOK
<1>10. TypeOK'
  BY <1>1, <1>2, <1>7, <1>9 DEF TypeOK, Stream
<1>11. ListsDistinct' /\ IsFiniteSet(opened)' /\ StreamsOwned'
  BY <1>1, Zenon DEF ListsDistinct, StreamsOwned
<1>12. InStep'
  <2>1. \A j \in DOMAIN infos' :
            infos'[j] = [Id |-> IDList'[j], Sample |-> Len(records') + 1]
    <3>1. \A j \in DOMAIN infos' : j \in DOMAIN infos \/ j = n
      BY <1>2, <1>9
    <3>2. row = [Id |-> IDList[n], Sample |-> Len(records) + 1]
      BY <1>2, <1>4, Zenon
    <3>. QED
      BY <1>1, <1>9, <3>1, <3>2, Zenon DEF InStep
  <2>2. ASSUME NEW j \in DOMAIN IDList
        PROVE  stream'[IDList[j]].read = Len(records) + IF j <= n THEN 1 ELSE 0
    <3>1. stream[IDList[j]].read = Len(records) + IF j <= Len(infos) THEN 1 ELSE 0
      BY <1>1, Zenon DEF InStep
    <3>2. CASE j = n
      BY <1>2, <1>4, <1>5, <3>2
    <3>3. CASE j # n
      <4>1. IDList[j] # c /\ IDList[j] \in Containers
        BY <1>1, <1>2, <3>3, ElementOfSeq, StatsRoundAssumption, Zenon
        DEF ListsDistinct, IsInjective, TypeOK
      <4>. QED
        BY <1>2, <1>5, <3>1, <3>3, <4>1
    <3>. QED
      BY <3>2, <3>3, Zenon
  <2>. QED
    BY <1>1, <1>9, <2>1, <2>2 DEF InStep, RecordsInStep
<1>. QED
  BY <1>10, <1>11, <1>12, Zenon DEF RoundInv

\* A complete round becomes the next record.
LEMMA WriteRound ==
    ASSUME RoundInv, WriteAggregatedStats
    PROVE  RoundInv'
<1>1. CASE Return
  BY <1>1, ReturnRound, Zenon
<1>2. CASE /\ step = "write" /\ step' = "read" /\ infos' = <<>>
           /\ records' = IF infos = <<>> THEN records
                         ELSE Append(records, convertToAggregatedStats(infos))
           /\ UNCHANGED <<contList, IDList, opened, stream>>
  <2>1. /\ TypeOK /\ ListsDistinct /\ StreamsOwned /\ InStep /\ IsFiniteSet(opened)
        /\ Len(infos) = Len(IDList) /\ Len(infos) \in Nat /\ Len(records) \in Nat
        /\ DOMAIN infos = 1 .. Len(infos) /\ DOMAIN IDList = DOMAIN infos
        /\ DOMAIN records = 1 .. Len(records)
    BY <1>2 DEF RoundInv, InStep, TypeOK
  <2>2. TypeOK'
    <3>1. infos' \in Seq([Id : Requested, Sample : 1 .. MaxSamples]) /\ Len(infos') = 0
      BY <1>2, EmptySeq, Zenon
    <3>. QED
      BY <1>2, <2>1, <3>1 DEF TypeOK
  <2>3. ListsDistinct' /\ IsFiniteSet(opened)' /\ StreamsOwned'
    BY <1>2, <2>1, Zenon DEF ListsDistinct, StreamsOwned
  <2>4. Len(infos') = 0 /\ DOMAIN infos' = {}
    BY <1>2
  <2>5. CASE infos = <<>>
    <3>1. DOMAIN IDList = {} /\ UNCHANGED records
      BY <1>2, <2>1, <2>5
    <3>. QED
      BY <1>2, <2>1, <2>2, <2>3, <2>4, <3>1, Zenon DEF RoundInv, InStep, RecordsInStep
  <2>6. CASE infos # <<>>
    <3>. DEFINE record == convertToAggregatedStats(infos)
                n == Len(records) + 1
    <3>1. record = [j \in DOMAIN IDList |-> [Id |-> containerIds(IDList[j]), Sample |-> n]]
      BY <2>1 DEF convertToAggregatedStats, InStep
    <3>2. \A j \in DOMAIN IDList : IDList[j] \in Containers
      BY <2>1, ElementOfSeq, StatsRoundAssumption, Zenon DEF TypeOK
    <3>3. record \in Rows
      <4>1. n \in Nat
        BY <2>1
      <4>2. record \in [1 .. Len(infos) -> Row]
        BY <2>1, <3>1, <3>2, <4>1 DEF Row
      <4>. HIDE DEF record
      <4>. QED
        BY <2>1, <4>2, SeqDef DEF Rows
    <3>4. /\ records' \in Seq(Rows) /\ Len(records') = n /\ DOMAIN records' = 1 .. n
          /\ records'[n] = record /\ \A m \in DOMAIN records : records'[m] = records[m]
      <4>1. records' = Append(records, record) /\ records \in Seq(Rows)
        BY <1>2, <2>1, <2>6, Zenon DEF InStep
      <4>. HIDE DEF record
      <4>. QED
        BY <2>1, <3>3, <4>1, AppendProperties
    <3>5. RecordsInStep'
      <4>1. \A m \in DOMAIN records' : m \in DOMAIN records \/ m = n
        BY <2>1, <3>4
      <4>. QED
        <5>1. IDList' = IDList /\ RecordsInStep
          BY <1>2, <2>1, Zenon DEF InStep
        <5>. HIDE DEF record, n
        <5>. QED
          BY <3>1, <3>4, <4>1, <5>1 DEF RecordsInStep
    <3>6. \A j \in DOMAIN IDList : stream[IDList[j]].read = n + IF j <= 0 THEN 1 ELSE 0
      BY <1>2, <2>1 DEF InStep
    <3>. HIDE DEF record, n
    <3>7. InStep'
      BY <1>2, <2>4, <3>4, <3>5, <3>6, Zenon DEF InStep
    <3>. QED
      BY <2>2, <2>3, <3>7, Zenon DEF RoundInv
  <2>. QED
    BY <2>5, <2>6, Zenon
<1>. QED
  BY <1>1, <1>2, Zenon DEF WriteAggregatedStats

\* The other steps read nothing and open nothing.
LEMMA QuietRound ==
    ASSUME RoundInv, AllOpened \/ RoundComplete \/ UNCHANGED vars
    PROVE  RoundInv'
<1>1. TypeOK' /\ ListsDistinct' /\ IsFiniteSet(opened)' /\ StreamsOwned'
  BY Zenon DEF RoundInv, AllOpened, RoundComplete, vars, TypeOK, ListsDistinct, StreamsOwned
<1>2. CASE AllOpened
  <2>1. /\ records = <<>> /\ infos = <<>> /\ Len(records) = 0 /\ Len(infos) = 0
        /\ \A j \in DOMAIN IDList : j \in Nat \ {0} /\ stream[IDList[j]].read = 0
    BY <1>2, ElementOfSeq, StatsRoundAssumption
      DEF RoundInv, InStep, TypeOK, AllOpened
  <2>. QED
    BY <1>1, <1>2, <2>1 DEF RoundInv, InStep, RecordsInStep, AllOpened
<1>3. CASE RoundComplete \/ UNCHANGED vars
  BY <1>1, <1>3 DEF RoundInv, InStep, RecordsInStep, RoundComplete, vars
<1>. QED
  BY <1>2, <1>3, Zenon

\* What the daemon does to a stream does not concern the round's own records.
LEMMA DaemonRound ==
    ASSUME RoundInv, NEW c \in Containers, Produce(c) \/ StreamEnds(c)
    PROVE  RoundInv'
<1>1. TypeOK' /\ \A d \in Containers : stream'[d].read = stream[d].read
  <2>1. stream \in [Containers -> Stream] /\ stream[c] \in Stream /\ TypeOK
    BY Zenon DEF RoundInv, TypeOK, Stream
  <2>2. CASE Produce(c)
    <3>1. stream[c].produced + 1 \in 0 .. MaxSamples
      BY <2>1, <2>2, StatsRoundAssumption DEF Produce, Stream
    <3>2. /\ stream' = [stream EXCEPT ![c] = [stream[c] EXCEPT !.produced = stream[c].produced + 1]]
          /\ UNCHANGED <<step, contList, IDList, opened, infos>>
      BY <2>2, Zenon DEF Produce
    <3>. DEFINE new == [stream[c] EXCEPT !.produced = stream[c].produced + 1]
    <3>3. new \in Stream /\ new.read = stream[c].read
      BY <2>1, <3>1, StreamField, Zenon
    <3>. HIDE DEF new
    <3>4. stream' = [stream EXCEPT ![c] = new]
      BY <3>2, Zenon DEF new
    <3>5. stream' \in [Containers -> Stream] /\ \A d \in Containers : stream'[d].read = stream[d].read
      BY <2>1, <3>3, <3>4, Zenon
    <3>. QED
      BY <2>1, <3>2, <3>5, Zenon DEF TypeOK, Stream
  <2>3. CASE StreamEnds(c)
    <3>1. /\ stream' = [stream EXCEPT ![c] = [stream[c] EXCEPT !.ended = TRUE]]
          /\ UNCHANGED <<step, contList, IDList, opened, infos>>
      BY <2>3, Zenon DEF StreamEnds
    <3>2. 0 \in 0 .. MaxSamples
      BY StatsRoundAssumption
    <3>3. stream' \in [Containers -> Stream] /\ \A d \in Containers : stream'[d].read = stream[d].read
      BY <2>1, <3>1, <3>2, StreamField, Zenon
    <3>. QED
      BY <2>1, <3>1, <3>3, Zenon DEF TypeOK, Stream
  <2>. QED
    BY <2>2, <2>3, Zenon
<1>2. UNCHANGED <<step, contList, IDList, opened, infos, records>>
  BY Zenon DEF Produce, StreamEnds
<1>3. ListsDistinct' /\ IsFiniteSet(opened)' /\ StreamsOwned'
  BY <1>2, Zenon DEF RoundInv, ListsDistinct, StreamsOwned
<1>4. \A j \in DOMAIN IDList : IDList[j] \in Containers
  BY ElementOfSeq, StatsRoundAssumption DEF RoundInv, TypeOK
<1>5. InStep'
  BY <1>1, <1>2, <1>4 DEF RoundInv, InStep, RecordsInStep
<1>. QED
  BY <1>1, <1>3, <1>5, Zenon DEF RoundInv

\* Every step of a round, and of the daemon, keeps the invariant.
LEMMA RoundStep == RoundInv /\ [Next]_vars => RoundInv'
<1>. SUFFICES ASSUME RoundInv, [Next]_vars PROVE RoundInv'
  BY Zenon
<1>1. CASE GetContainerInfoFails
  BY <1>1, ReturnRound, Zenon DEF GetContainerInfoFails
<1>. QED
  BY <1>1, ListRound, OpenRound, ReadRound, WriteRound, QuietRound, DaemonRound, ZenonT(40)
  DEF Next, Handle

--------------------------------------------------------------------------------
\* The lists, the samples of the round and the streams have their types; in particular a
\* round never has more samples than there are readers.
THEOREM RoundTypes == Init /\ [][Next]_vars => []TypeOK
<1>1. RoundInv => TypeOK
  BY Zenon DEF RoundInv
<1>. QED
  BY <1>1, RoundInit, RoundStep, PTL

\* The n-th record of a session has the n-th sample of every container with a stream:
\* getAllDockerContainers reads each reader once per round.
THEOREM RoundsInStep == Init /\ [][Next]_vars => []RecordsInStep
<1>1. RoundInv => RecordsInStep
  BY Zenon DEF RoundInv, InStep
<1>. QED
  BY <1>1, RoundInit, RoundStep, PTL

\* Every stream ContainerStatsHandler opens has one reader, and is closed when Handle
\* returns, on whatever path.
THEOREM StreamsHaveOwners == Init /\ [][Next]_vars => []StreamsOwned
<1>1. RoundInv => StreamsOwned
  BY Zenon DEF RoundInv
<1>. QED
  BY <1>1, RoundInit, RoundStep, PTL

--------------------------------------------------------------------------------
(* The samples of a host. What a sum is follows by induction on the parts   *)
(* of a finite set: a set that has the empty part, and every part without   *)
(* whose first element it has the rest, has them all.                       *)

\* The element a sum takes first.
First(s) == CHOOSE x \in s : TRUE

\* One step of a sum of fun.
Added(fun, f, s) == IF s = {} THEN 0 ELSE fun[First(s)] + f[s \ {First(s)}]

\* The function that f must be to have the sums of fun over all parts of S.
Partial(fun, S, f) == [s \in SUBSET S |-> Added(fun, f, s)]

\* The sums of fun over the parts of S.
Sums(fun, S) == CHOOSE f : f = Partial(fun, S, f)

\* SumFunction adds the values of a function one by one.
LEMMA SumOfSums ==
    ASSUME NEW fun, NEW S, DOMAIN fun = S
    PROVE  SumFunction(fun) = Sums(fun, S)[S]
BY Zenon DEF SumFunction, SumFunctionOnSet, FoldFunctionOnSet, MapThenFoldSet, Sums,
    Partial, Added, First

\* A part of a finite set without its first element.
LEMMA WithoutFirst ==
    ASSUME NEW S, IsFiniteSet(S), NEW s \in SUBSET S
    PROVE  /\ IsFiniteSet(s) /\ Cardinality(s) \in Nat /\ Cardinality(s) <= Cardinality(S)
           /\ Cardinality(s) = 0 <=> s = {}
           /\ s # {} => /\ First(s) \in s /\ First(s) \in S /\ s \ {First(s)} \in SUBSET S
                        /\ Cardinality(s \ {First(s)}) = Cardinality(s) - 1
<1>1. IsFiniteSet(s) /\ Cardinality(s) <= Cardinality(S)
  BY FS_Subset, Zenon
<1>2. Cardinality(s) \in Nat
  BY <1>1, FS_CardinalityType, Zenon
<1>3. Cardinality(s) = 0 <=> s = {}
  BY <1>1, FS_EmptySet, Zenon
<1>4. s # {} => First(s) \in s
  BY Zenon DEF First
<1>5. s # {} => Cardinality(s \ {First(s)}) = Cardinality(s) - 1
  BY <1>1, <1>4, FS_RemoveElement, Zenon
<1>6. s # {} => First(s) \in S /\ s \ {First(s)} \in SUBSET S
  BY <1>4, Zenon
<1>. QED
  BY <1>1, <1>2, <1>3, <1>4, <1>5, <1>6, Zenon

\* Induction on the parts of a finite set.
LEMMA SubsetInduction ==
    ASSUME NEW S, IsFiniteSet(S), NEW Q, {} \in Q,
           \A s \in SUBSET S : s # {} /\ s \ {First(s)} \in Q => s \in Q
    PROVE  SUBSET S \subseteq Q
<1>. DEFINE U == (SUBSET S) \ Q
            T == {Cardinality(s) : s \in U}
<1>. SUFFICES ASSUME NEW u \in SUBSET S, u \notin Q
              PROVE  FALSE
  BY Zenon
<1>0. Cardinality(u) \in T
  BY Zenon
<1>1. T \subseteq Nat
  <2>1. \A s \in U : Cardinality(s) \in Nat
    BY WithoutFirst, Zenon
  <2>. HIDE DEF U
  <2>. QED
    BY <2>1
<1>2. PICK n \in T : \A m \in T : n <= m
  <2>. HIDE DEF T
  <2>. QED
    BY <1>0, <1>1, SmallestMember, Zenon
<1>3. PICK s \in U : n = Cardinality(s)
  BY <1>2, Zenon
<1>4. s # {} /\ n \in Nat
  BY <1>1, <1>3, Zenon
<1>. DEFINE t == s \ {First(s)}
<1>5. t \in SUBSET S /\ Cardinality(t) = n - 1
  BY <1>3, <1>4, WithoutFirst, Zenon
<1>6. t \notin Q
  BY <1>3, <1>4, Zenon
<1>. HIDE DEF t
<1>7. Cardinality(t) \in T
  BY <1>5, <1>6, Zenon
<1>. HIDE DEF T
<1>8. n <= n - 1
  BY <1>2, <1>5, <1>7, Zenon
<1>. QED
  BY <1>4, <1>8

\* There is a function with the partial sums.
LEMMA SumsExist ==
    ASSUME NEW S, IsFiniteSet(S), NEW fun \in [S -> Nat]
    PROVE  \E f : f = Partial(fun, S, f)
<1>. DEFINE Small(n) == {s \in SUBSET S : Cardinality(s) <= n}
            Summed(n) == \E f \in [Small(n) -> Nat] :
                           \A s \in Small(n) : f[s] = Added(fun, f, s)
            T == {n \in Nat : ~Summed(n)}
<1>1. T = {}
  <2>. SUFFICES ASSUME T # {}
                PROVE  FALSE
    BY Zenon
  <2>1. PICK n \in T : \A m \in T : n <= m
    <3>1. T \subseteq Nat
      BY Zenon
    <3>. HIDE DEF T
    <3>. QED
      BY <3>1, SmallestMember, Zenon
  <2>2. n \in Nat /\ ~Summed(n)
    BY <2>1, Zenon
  <2>. DEFINE g0 == [s \in Small(0) |-> 0]
  <2>3. n # 0
    <3>. SUFFICES Summed(0)
      <4>. HIDE DEF Summed
      <4>. QED
        BY <2>2, Zenon
    <3>1. \A s \in Small(0) : s = {}
      <4>. TAKE s \in Small(0)
      <4>1. s \in SUBSET S /\ Cardinality(s) <= 0
        BY Zenon
      <4>2. Cardinality(s) \in Nat
        BY <4>1, WithoutFirst, Zenon
      <4>3. Cardinality(s) = 0
        BY <4>1, <4>2
      <4>. QED
        BY <4>1, <4>3, WithoutFirst, Zenon
    <3>2. 0 \in Nat
      BY Zenon
    <3>3. g0 \in [Small(0) -> Nat] /\ \A s \in Small(0) : g0[s] = Added(fun, g0, s)
      BY <3>1, <3>2, Zenon DEF Added
    <3>. QED
      BY <3>3, Zenon
  <2>4. n - 1 \in Nat /\ ~(n <= n - 1)
    BY <2>2, <2>3
  <2>5. Summed(n - 1)
    BY <2>1, <2>4, Zenon
  <2>6. PICK g \in [Small(n - 1) -> Nat] : \A s \in Small(n - 1) : g[s] = Added(fun, g, s)
    BY <2>5, Zenon
  <2>. DEFINE f == [s \in Small(n) |-> Added(fun, g, s)]
  <2>7. \A s \in Small(n) : s # {} => s \ {First(s)} \in Small(n - 1) /\ fun[First(s)] \in Nat
    <3>. SUFFICES ASSUME NEW s \in Small(n), s # {}
                  PROVE  s \ {First(s)} \in Small(n - 1) /\ fun[First(s)] \in Nat
      BY Zenon
    <3>. DEFINE t == s \ {First(s)}
    <3>1. s \in SUBSET S /\ Cardinality(s) <= n
      BY Zenon
    <3>2. /\ t \in SUBSET S /\ Cardinality(t) = Cardinality(s) - 1 /\ Cardinality(s) \in Nat
          /\ First(s) \in S
      BY <3>1, WithoutFirst, Zenon
    <3>. HIDE DEF t
    <3>3. Cardinality(t) <= n - 1
      BY <2>2, <3>1, <3>2
    <3>4. t \in Small(n - 1)
      BY <3>2, <3>3, Zenon
    <3>. QED
      BY <3>2, <3>4, Zenon DEF t
  <2>8. \A s \in Small(n) : Added(fun, g, s) \in Nat
    <3>. SUFFICES ASSUME NEW s \in Small(n)
                  PROVE  Added(fun, g, s) \in Nat
      BY Zenon
    <3>1. CASE s = {}
      BY <3>1, Zenon DEF Added
    <3>2. CASE s # {}
      <4>. DEFINE a == fun[First(s)]
                  b == g[s \ {First(s)}]
      <4>1. a \in Nat /\ b \in Nat
        BY <2>7, <3>2, Zenon
      <4>2. Added(fun, g, s) = a + b
        BY <3>2, Zenon DEF Added
      <4>. HIDE DEF a, b
      <4>. QED
        BY <4>1, <4>2
    <3>. QED
      BY <3>1, <3>2, Zenon
  <2>9. f \in [Small(n) -> Nat] /\ \A s \in Small(n) : f[s] = Added(fun, g, s)
    BY <2>8, Zenon
  <2>10. \A t \in Small(n - 1) : t \in Small(n) /\ f[t] = g[t]
    <3>. SUFFICES ASSUME NEW t \in Small(n - 1)
                  PROVE  t \in Small(n) /\ f[t] = g[t]
      BY Zenon
    <3>1. t \in SUBSET S /\ Cardinality(t) <= n - 1 /\ Cardinality(t) \in Nat
      BY WithoutFirst, Zenon
    <3>2. Cardinality(t) <= n
      BY <2>2, <3>1
    <3>3. t \in Small(n)
      BY <3>1, <3>2, Zenon
    <3>. QED
      BY <2>6, <2>9, <3>3, Zenon
  <2>. HIDE DEF f
  <2>11. \A s \in Small(n) : f[s] = Added(fun, f, s)
    BY <2>7, <2>9, <2>10, Zenon DEF Added
  <2>. QED
    BY <2>2, <2>9, <2>11, Zenon
<1>2. Cardinality(S) \in Nat
  BY FS_CardinalityType, Zenon
<1>3. Small(Cardinality(S)) = SUBSET S
  BY WithoutFirst, Zenon
<1>4. Summed(Cardinality(S))
  BY <1>1, <1>2, Zenon
<1>5. PICK f \in [SUBSET S -> Nat] : \A s \in SUBSET S : f[s] = Added(fun, f, s)
  BY <1>3, <1>4, Zenon
<1>6. f = Partial(fun, S, f)
  BY <1>5, Zenon DEF Partial
<1>. QED
  BY <1>6, Zenon

\* The partial sums of a function.
LEMMA SumsEquation ==
    ASSUME NEW S, IsFiniteSet(S), NEW fun \in [S -> Nat], NEW s \in SUBSET S
    PROVE  Sums(fun, S)[s] = Added(fun, Sums(fun, S), s)
<1>1. Sums(fun, S) = Partial(fun, S, Sums(fun, S))
  BY SumsExist, Zenon DEF Sums
<1>. QED
  BY <1>1, Zenon DEF Partial

\* Sums of natural numbers, and a bound on a sum from a bound on its terms.
LEMMA SumBound ==
    ASSUME NEW S, IsFiniteSet(S), NEW h \in Nat,
           NEW a \in [S -> Nat], NEW u \in [S -> Nat], NEW v \in [S -> Nat],
           \A c \in S : h * a[c] <= u[c] + v[c]
    PROVE  /\ SumFunction(a) \in Nat /\ SumFunction(u) \in Nat /\ SumFunction(v) \in Nat
           /\ h * SumFunction(a) <= SumFunction(u) + SumFunction(v)
<1>. DEFINE A == Sums(a, S)
            U == Sums(u, S)
            V == Sums(v, S)
            Q == {s \in SUBSET S : /\ A[s] \in Nat /\ U[s] \in Nat /\ V[s] \in Nat
                                   /\ h * A[s] <= U[s] + V[s]}
<1>1. \A s \in SUBSET S : /\ A[s] = Added(a, A, s) /\ U[s] = Added(u, U, s)
                          /\ V[s] = Added(v, V, s)
  BY SumsEquation, Zenon
<1>2. {} \in Q
  <2>1. A[{}] = 0 /\ U[{}] = 0 /\ V[{}] = 0
    BY <1>1, Zenon DEF Added
  <2>2. h * 0 <= 0 + 0 /\ 0 \in Nat
    OBVIOUS
  <2>. QED
    BY <2>1, <2>2, Zenon
<1>3. \A s \in SUBSET S : s # {} /\ s \ {First(s)} \in Q => s \in Q
  <2>. SUFFICES ASSUME NEW s \in SUBSET S, s # {}, s \ {First(s)} \in Q
                PROVE  s \in Q
    BY Zenon
  <2>. DEFINE c == First(s)
              t == s \ {c}
  <2>1. c \in S
    BY WithoutFirst, Zenon
  <2>2. A[s] = a[c] + A[t] /\ U[s] = u[c] + U[t] /\ V[s] = v[c] + V[t]
    BY <1>1, Zenon DEF Added
  <2>3. A[t] \in Nat /\ U[t] \in Nat /\ V[t] \in Nat /\ h * A[t] <= U[t] + V[t]
    BY Zenon
  <2>4. a[c] \in Nat /\ u[c] \in Nat /\ v[c] \in Nat /\ h * a[c] <= u[c] + v[c]
    BY <2>1, Zenon
  <2>. DEFINE x == a[c]
              y == A[t]
  <2>. HIDE DEF c, t, A, U, V
  <2>5. h * (x + y) = h * x + h * y /\ h * x \in Nat /\ h * y \in Nat
    <3>1. x \in Nat /\ y \in Nat
      BY <2>3, <2>4, Zenon
    <3>. HIDE DEF x, y
    <3>. QED
      BY <3>1
  <2>6. A[s] \in Nat /\ U[s] \in Nat /\ V[s] \in Nat
    BY <2>2, <2>3, <2>4
  <2>7. h * A[s] <= U[s] + V[s]
    <3>. DEFINE p == h * x
                q == h * y
    <3>1. p \in Nat /\ q \in Nat /\ h * A[s] = p + q /\ p <= u[c] + v[c] /\ q <= U[t] + V[t]
      BY <2>2, <2>3, <2>4, <2>5, Zenon
    <3>. HIDE DEF p, q
    <3>. QED
      BY <2>2, <2>3, <2>4, <3>1
  <2>. QED
    BY <2>6, <2>7, Zenon
<1>4. S \in Q
  <2>. HIDE DEF Q
  <2>1. SUBSET S \subseteq Q
    BY <1>2, <1>3, SubsetInduction, Zenon
  <2>. QED
    BY <2>1, Zenon
<1>5. SumFunction(a) = A[S] /\ SumFunction(u) = U[S] /\ SumFunction(v) = V[S]
  BY SumOfSums, Zenon
<1>. QED
  BY <1>4, <1>5, Zenon

\* What uint64 of a number of seconds cuts off is less than a second.
LEMMA SecondsBound ==
    ASSUME NEW x \in Nat
    PROVE  /\ Seconds(x) \in Nat /\ HZ * Seconds(x) <= x
           /\ \A n \in Nat : HZ * n <= x => n <= Seconds(x)
<1>1. HZ \in Nat \ {0}
  BY HostSampleAssumption, Zenon
<1>. DEFINE q == x \div HZ
<1>2. q \in Int /\ HZ * q <= x /\ x < HZ * (q + 1)
  BY <1>1
<1>. HIDE DEF q
<1>3. q \in Nat
  BY <1>1, <1>2
<1>4. \A n \in Nat : HZ * n <= x => n <= q
  BY <1>1, <1>2, <1>3
<1>. QED
  BY <1>2, <1>3, <1>4, Zenon DEF Seconds, q

SampleType ==
    [step : {"perCpu", "total", "rest", "write", "returned"}, PerCpu : [CPUs -> Nat],
     Total : Nat, User : Nat, System : Nat]

\* The times of the processors are those of an earlier moment, and the total covers its
\* parts from the moment it is taken.
HostInv ==
    /\ times \in [CPUs -> [Modes -> Nat]] /\ root \in SampleType
    /\ root.step = "total" =>
         \A c \in CPUs : HZ * root.PerCpu[c] <= times[c]["user"] + times[c]["system"]
    /\ root.step \in {"rest", "write"} =>
         root.User + root.System <= root.Total /\ SumFunction(root.PerCpu) <= root.Total

\* A sample without readings.
LEMMA EmptySampleTyped ==
    ASSUME NEW st \in {"perCpu", "returned"}
    PROVE  EmptySample(st) \in SampleType /\ EmptySample(st).step = st
BY Zenon DEF EmptySample, SampleType

\* The processors one by one.
LEMMA PerCpuStep ==
    ASSUME HostInv, PerCpuTimes
    PROVE  HostInv'
<1>. DEFINE p == [c \in CPUs |-> Seconds(times[c]["user"] + times[c]["system"])]
<1>1. times \in [CPUs -> [Modes -> Nat]] /\ root \in SampleType /\ times' = times
  BY Zenon DEF HostInv, PerCpuTimes
<1>2. root' = [root EXCEPT !.step = "total", !.PerCpu = p]
  BY Zenon DEF PerCpuTimes
<1>3. \A c \in CPUs : times[c]["user"] + times[c]["system"] \in Nat
  BY <1>1 DEF Modes
<1>4. /\ p \in [CPUs -> Nat]
      /\ \A c \in CPUs : HZ * p[c] <= times[c]["user"] + times[c]["system"]
  BY <1>3, SecondsBound, Zenon
<1>. HIDE DEF p
<1>5. root' \in SampleType /\ root'.step = "total" /\ root'.PerCpu = p
  BY <1>1, <1>2, <1>4, Zenon DEF SampleType
<1>6. root'.step \notin {"rest", "write"}
  BY <1>5, Zenon
<1>. QED
  BY <1>1, <1>4, <1>5, <1>6, Zenon DEF HostInv

\* All processors together, later than one by one.
LEMMA TotalStep ==
    ASSUME HostInv, TotalTimes
    PROVE  HostInv'
<1>. DEFINE f(mode) == [c \in CPUs |-> times[c][mode]]
            u == AllTicks("user")
            s == AllTicks("system")
            i == AllTicks("idle")
<1>1. /\ times \in [CPUs -> [Modes -> Nat]] /\ root \in SampleType /\ times' = times
      /\ root.step = "total"
  BY Zenon DEF HostInv, TotalTimes
<1>2. root' = [root EXCEPT !.step = "rest", !.Total = Seconds(u + s + i),
                           !.User = Seconds(u), !.System = Seconds(s)]
  BY Zenon DEF TotalTimes
<1>3. root.PerCpu \in [CPUs -> Nat]
  BY <1>1, Zenon DEF SampleType
<1>4. /\ f("user") \in [CPUs -> Nat] /\ f("system") \in [CPUs -> Nat]
      /\ f("idle") \in [CPUs -> Nat]
  BY <1>1, Zenon DEF Modes
<1>5. \A c \in CPUs : HZ * root.PerCpu[c] <= f("user")[c] + f("system")[c]
  BY <1>1, Zenon DEF HostInv
<1>6. u = SumFunction(f("user")) /\ s = SumFunction(f("system")) /\ i = SumFunction(f("idle"))
  BY Zenon DEF AllTicks
<1>7. IsFiniteSet(CPUs) /\ HZ \in Nat /\ HZ \in Nat \ {0}
  BY HostSampleAssumption, Zenon
<1>. DEFINE p == SumFunction(root.PerCpu)
<1>8. p \in Nat /\ u \in Nat /\ s \in Nat /\ HZ * p <= u + s
  <2>. DEFINE a == root.PerCpu
              b == f("user")
              d == f("system")
  <2>1. /\ a \in [CPUs -> Nat] /\ b \in [CPUs -> Nat] /\ d \in [CPUs -> Nat]
        /\ \A c \in CPUs : HZ * a[c] <= b[c] + d[c]
    BY <1>3, <1>4, <1>5, Zenon
  <2>. HIDE DEF a, b, d
  <2>2. /\ SumFunction(a) \in Nat /\ SumFunction(b) \in Nat /\ SumFunction(d) \in Nat
        /\ HZ * SumFunction(a) <= SumFunction(b) + SumFunction(d)
    BY <1>7, <2>1, SumBound, Zenon
  <2>. QED
    BY <1>6, <2>2, Zenon DEF a, b, d
<1>9. i \in Nat
  <2>1. 0 \in Nat /\ \A c \in CPUs : 0 * f("idle")[c] <= f("idle")[c] + f("idle")[c]
    BY <1>1 DEF Modes
  <2>. HIDE DEF f, u, s, i
  <2>. QED
    BY <1>4, <1>6, <1>7, <2>1, SumBound, Zenon
<1>. HIDE DEF f, u, s, i, p
<1>10. u + s + i \in Nat /\ HZ * p <= u + s + i
  <2>. DEFINE hp == HZ * p
  <2>1. hp \in Nat
    BY <1>7, <1>8
  <2>. HIDE DEF hp
  <2>2. hp <= u + s + i
    BY <1>8, <1>9, <2>1 DEF hp
  <2>. QED
    BY <1>8, <1>9, <2>2 DEF hp
<1>11. p <= Seconds(u + s + i) /\ Seconds(u + s + i) \in Nat
  BY <1>8, <1>10, SecondsBound, Zenon
<1>12. Seconds(u) + Seconds(s) <= Seconds(u + s + i)
  <2>1. /\ Seconds(u) \in Nat /\ HZ * Seconds(u) <= u
        /\ Seconds(s) \in Nat /\ HZ * Seconds(s) <= s
    BY <1>8, SecondsBound, Zenon
  <2>. DEFINE a == Seconds(u)
              b == Seconds(s)
  <2>2. a \in Nat /\ b \in Nat /\ HZ * a <= u /\ HZ * b <= s
    BY <2>1, Zenon
  <2>. HIDE DEF a, b
  <2>3. HZ * (a + b) = HZ * a + HZ * b /\ HZ * a \in Nat /\ HZ * b \in Nat /\ a + b \in Nat
    BY <1>7, <2>2
  <2>4. HZ * (a + b) <= u + s + i
    BY <1>8, <1>9, <2>2, <2>3
  <2>5. a + b <= Seconds(u + s + i)
    BY <1>10, <2>3, <2>4, SecondsBound, Zenon
  <2>. QED
    BY <2>5, Zenon DEF a, b
<1>13. Seconds(u) \in Nat /\ Seconds(s) \in Nat
  BY <1>8, SecondsBound, Zenon
<1>. DEFINE x == Seconds(u + s + i)
            y == Seconds(u)
            z == Seconds(s)
<1>14. x \in Nat /\ y \in Nat /\ z \in Nat /\ y + z <= x /\ p <= x
  BY <1>11, <1>12, <1>13, Zenon
<1>15. root' = [root EXCEPT !.step = "rest", !.Total = x, !.User = y, !.System = z]
  BY <1>2, Zenon
<1>. HIDE DEF x, y, z
<1>16. /\ root' \in SampleType /\ root'.step = "rest" /\ root'.PerCpu = root.PerCpu
       /\ root'.Total = x /\ root'.User = y /\ root'.System = z
  BY <1>1, <1>14, <1>15, Zenon DEF SampleType
<1>17. root'.step # "total"
  BY <1>16, Zenon
<1>. QED
  BY <1>1, <1>14, <1>16, <1>17, Zenon DEF HostInv, p

\* A tick only adds to the times.
LEMMA TickStep ==
    ASSUME HostInv, NEW d \in CPUs, NEW mode \in Modes, Tick(d, mode)
    PROVE  HostInv'
<1>1. times \in [CPUs -> [Modes -> Nat]] /\ root \in SampleType /\ root' = root
  BY Zenon DEF HostInv, Tick
<1>2. times' = [times EXCEPT ![d][mode] = @ + 1]
  BY Zenon DEF Tick
<1>3. \A c \in CPUs : times[c] \in [Modes -> Nat]
  BY <1>1, Zenon
<1>. DEFINE r == [times[d] EXCEPT ![mode] = @ + 1]
<1>4. times' = [times EXCEPT ![d] = r]
  BY <1>2, Zenon
<1>5. times[d] \in [Modes -> Nat] /\ times[d][mode] \in Nat
  BY <1>3, Zenon
<1>6. r \in [Modes -> Nat] /\ \A n \in Modes : times[d][n] <= r[n]
  BY <1>5
<1>. HIDE DEF r
<1>7. times' \in [CPUs -> [Modes -> Nat]]
  BY <1>1, <1>4, <1>6, Zenon
<1>8. \A c \in CPUs : \A n \in Modes : times[c][n] <= times'[c][n]
  <2>. SUFFICES ASSUME NEW c \in CPUs, NEW n \in Modes
                PROVE  times[c][n] <= times'[c][n]
    BY Zenon
  <2>1. CASE c = d
    BY <1>1, <1>4, <1>6, <2>1, Zenon
  <2>2. CASE c # d
    <3>1. times'[c] = times[c]
      BY <1>1, <1>4, <2>2, Zenon
    <3>2. times[c][n] \in Nat
      BY <1>3, Zenon
    <3>3. times[c][n] <= times[c][n]
      BY <3>2
    <3>. QED
      BY <3>1, <3>3, Zenon
  <2>. QED
    BY <2>1, <2>2, Zenon
<1>9. root.step = "total" =>
        \A c \in CPUs : HZ * root.PerCpu[c] <= times'[c]["user"] + times'[c]["system"]
  <2>. SUFFICES ASSUME root.step = "total", NEW c \in CPUs
                PROVE  HZ * root.PerCpu[c] <= times'[c]["user"] + times'[c]["system"]
    BY Zenon
  <2>. DEFINE h == HZ * root.PerCpu[c]
              a == times[c]["user"]
              b == times[c]["system"]
              e == times'[c]["user"]
              g == times'[c]["system"]
  <2>1. h <= a + b /\ a <= e /\ b <= g
    BY <1>8, Zenon DEF HostInv, Modes
  <2>2. a \in Nat /\ b \in Nat /\ e \in Nat /\ g \in Nat
    BY <1>1, <1>7, Zenon DEF Modes
  <2>3. h \in Nat
    <3>1. root.PerCpu \in [CPUs -> Nat]
      BY <1>1, Zenon DEF SampleType
    <3>. DEFINE n == root.PerCpu[c]
    <3>2. n \in Nat
      BY <3>1, Zenon
    <3>. HIDE DEF n
    <3>3. HZ * n \in Nat
      BY <3>2, HostSampleAssumption
    <3>. QED
      BY <3>3, Zenon DEF n
  <2>. HIDE DEF h, a, b, e, g
  <2>4. h <= e + g
    BY <2>1, <2>2, <2>3
  <2>. QED
    BY <2>4, Zenon DEF h, e, g
<1>. QED
  BY <1>1, <1>7, <1>9, Zenon DEF HostInv

\* getRootContainerInfo: the parts of a sample never exceed its whole, for
\* any number of processors, any ticks per second and however the times go on between the
\* two readings.
THEOREM HostUsageIsConsistent == HostSpec => []HostUsageConsistent
<1>1. HostInit("perCpu") => HostInv
  <2>. SUFFICES ASSUME HostInit("perCpu")
                PROVE  HostInv
    BY Zenon
  <2>1. root \in SampleType /\ root.step = "perCpu"
    BY EmptySampleTyped, Zenon DEF HostInit
  <2>2. times \in [CPUs -> [Modes -> Nat]]
    BY Zenon DEF HostInit
  <2>. QED
    BY <2>1, <2>2, Zenon DEF HostInv
<1>2. HostInv /\ [HostNext]_hostVars => HostInv'
  <2>. SUFFICES ASSUME HostInv, [HostNext]_hostVars
                PROVE  HostInv'
    BY Zenon
  <2>1. CASE OtherReadings
    <3>1. root \in SampleType /\ root.step = "rest" /\ root' = [root EXCEPT !.step = "write"]
      BY <2>1, Zenon DEF HostInv, OtherReadings
    <3>2. /\ root' \in SampleType /\ root'.step = "write" /\ root'.PerCpu = root.PerCpu
          /\ root'.Total = root.Total /\ root'.User = root.User /\ root'.System = root.System
      BY <3>1, Zenon DEF SampleType
    <3>3. root'.step # "total" /\ root.step \in {"rest", "write"}
      BY <3>1, <3>2, Zenon
    <3>. QED
      BY <2>1, <3>2, <3>3, Zenon DEF HostInv, OtherReadings
  <2>2. ASSUME NEW st \in {"perCpu", "returned"}, root' = EmptySample(st), times' = times
        PROVE  HostInv'
    <3>1. root' \in SampleType /\ root'.step = st
      BY <2>2, EmptySampleTyped, Zenon
    <3>2. root'.step # "total" /\ root'.step \notin {"rest", "write"}
      BY <3>1, Zenon
    <3>. QED
      BY <2>2, <3>1, <3>2, Zenon DEF HostInv
  <2>3. CASE WriteHost
    BY <2>2, <2>3, Zenon DEF WriteHost
  <2>4. CASE HostReturns
    BY <2>2, <2>4, Zenon DEF HostReturns
  <2>5. CASE UNCHANGED hostVars
    <3>1. times' = times /\ root' = root
      BY <2>5, Zenon DEF hostVars
    <3>. QED
      BY <3>1, Zenon DEF HostInv
  <2>. QED
    BY <2>1, <2>3, <2>4, <2>5, PerCpuStep, TotalStep, TickStep, Zenon DEF HostNext
<1>3. HostInv => HostUsageConsistent
  BY Zenon DEF HostInv, HostUsageConsistent
<1>. QED
  BY <1>1, <1>2, <1>3, PTL DEF HostSpec
================================================================================
