------------------------------ MODULE LogFraming -------------------------------
(***************************************************************************)
(* How container logs become messages: wrapMessage puts a prefix and a     *)
(* separator around what Docker writes, the bytes go through a pipe that   *)
(* the scanner reads in pieces of any size, and customSplit cuts them at   *)
(* the separator. The prefix is a package level slice with spare capacity, *)
(* which append may write into for every session at once. Bytes are        *)
(* members of a small set, the separator and the prefix short words.       *)
(***************************************************************************)
EXTENDS Integers, Sequences, FiniteSetsExt

CONSTANTS
    Sessions,      \* log sessions of terminals, which all use bothPrefix
    Messages,      \* what Docker may write at a time
    MaxMessages,   \* bound on the messages of a session
    Spare          \* spare capacity behind the prefix (5 bytes in the code)

VARIABLES
    spare,   \* the bytes behind the prefix, shared by all sessions
    logs     \* per session: the writer, the pipe and the scanner

logVars == <<spare, logs>>

\* Mutant: a separator that overlaps itself.
borderedSeparator == <<"]", "R", "]">>

\* "[RANLOGS]"
messageSeparator == <<"[", "R", "]">>

bothPrefix == <<"0">>

messageOffset == Len(bothPrefix) + Len(messageSeparator)

\* The bytes behind the prefix that append leaves to a message of n bytes.
Spared(n) == SubSeq(spare, 1, n)

LogInit ==
    /\ spare = [i \in 1 .. Spare |-> "0"]
    /\ logs = [k \in Sessions |->
         [step    |-> "idle",   \* "idle", "append", "write", "failed" or "closed"
          written |-> <<>>,     \* the messages Docker has written
          pipe    |-> <<>>,     \* what the scanner has not read of a write
          n       |-> 0,        \* the bytes of that write
          data    |-> <<>>,     \* the scanner's buffer
          tokens  |-> <<>>]]    \* what was sent to the client

--------------------------------------------------------------------------------
Message(k) == logs[k].written[Len(logs[k].written)]

\* Mutant: the prefix has room for any message.
SharesPrefixAlways(message) == TRUE

\* append(prefix, message...) needs no new array.
SharesPrefix(message) == Len(message) <= Spare

\* The first append of wrapMessage.
AppendMessage(k) ==
    /\ logs[k].step = "idle" /\ Len(logs[k].written) < MaxMessages
    /\ \E message \in Messages :
         /\ logs' = [logs EXCEPT ![k].step = "append", ![k].written = Append(@, message)]
         /\ spare' = IF SharesPrefix(message)
                     THEN [i \in 1 .. Max({Len(message), Len(spare)}) |->
                             IF i <= Len(message) THEN message[i] ELSE spare[i]]
                     ELSE spare

\* The second append, which always needs a new array, and the start of the write.
WrapMessage(k) ==
    /\ logs[k].step = "append"
    /\ LET message == Message(k)
           content == IF SharesPrefix(message) THEN Spared(Len(message)) ELSE message
           msg == bothPrefix \o content \o messageSeparator
       IN  logs' = [logs EXCEPT ![k].step = "write", ![k].pipe = msg, ![k].n = Len(msg)]
    /\ UNCHANGED spare

\* bytes.Index: where the separator starts in data.
Separators(data) ==
    LET n == Len(messageSeparator)
    IN  { i \in 1 .. (Len(data) + 1) - n : SubSeq(data, i, i + n - 1) = messageSeparator }

\* No message has the separator in it.
ASSUME LogFramingAssumption ==
    /\ Spare \in Nat
    /\ \A message \in Messages : message \in Seq(STRING) /\ Separators(message) = {}

\* customSplit: the token and what is left; no token asks for more data.
customSplit(data, atEOF) ==
    CASE Separators(data) # {} ->
           LET i == Min(Separators(data))
           IN  [token |-> <<SubSeq(data, 1, i - 1)>>,
                rest  |-> SubSeq(data, i + Len(messageSeparator), Len(data))]
      [] Separators(data) = {} /\ atEOF /\ data # <<>> -> [token |-> <<data>>, rest |-> <<>>]
      [] OTHER -> [token |-> <<>>, rest |-> data]

\* The scanner has no token in its buffer and reads some of the pipe.
Read(k) ==
    /\ logs[k].pipe # <<>> /\ customSplit(logs[k].data, FALSE).token = <<>>
    /\ \E i \in 1 .. Len(logs[k].pipe) :
         logs' = [logs EXCEPT ![k].data = @ \o SubSeq(logs[k].pipe, 1, i),
                              ![k].pipe = SubSeq(@, i + 1, Len(@))]
    /\ UNCHANGED spare

\* The write is over; the copy ends with ErrShortWrite if it does not report the length
\* of the message.
WriteReturns(k) ==
    /\ logs[k].step = "write" /\ logs[k].pipe = <<>>
    /\ logs' = [logs EXCEPT ![k].step =
                  IF logs[k].n - messageOffset = Len(Message(k)) THEN "idle" ELSE "failed"]
    /\ UNCHANGED spare

\* The client leaves and the pipe is closed, in the middle of a write too.
ClosePipe(k) ==
    /\ logs[k].step # "closed"
    /\ logs' = [logs EXCEPT ![k].step = "closed", ![k].pipe = <<>>]
    /\ UNCHANGED spare

Scan(k) ==
    LET split == customSplit(logs[k].data, logs[k].step = "closed")
    IN  /\ split.token # <<>>
        /\ logs' = [logs EXCEPT ![k].data = split.rest, ![k].tokens = @ \o split.token]
        /\ UNCHANGED spare

LogNext ==
    \E k \in Sessions :
        \/ AppendMessage(k) \/ WrapMessage(k) \/ WriteReturns(k) \/ ClosePipe(k)
        \/ Read(k) \/ Scan(k)

LogSpec == LogInit /\ [][LogNext]_logVars

--------------------------------------------------------------------------------
\* Two sessions have written messages that fit behind the prefix: a data race.
Racing ==
    \E j, k \in Sessions : j # k /\ \A l \in {j, k} :
        \E i \in DOMAIN logs[l].written : Len(logs[l].written[i]) \in 1 .. Spare

\* The client gets the messages Docker wrote, each one whole with its prefix, in order and
\* none of another session, however the scanner's reads cut the bytes; only the last one
\* is torn when the pipe was closed in the middle of it. And no write is reported short,
\* which would end the log. It holds for messages without the separator, and unless two
\* sessions write messages short enough to share the array of the prefix.
FramesKept ==
    Racing \/ \A k \in Sessions :
        LET l == logs[k]
        IN  /\ l.step # "failed"
            /\ Len(l.tokens) <= Len(l.written)
            /\ \A i \in DOMAIN l.tokens :
                 \/ l.tokens[i] = bothPrefix \o l.written[i]
                 \/ l.step = "closed" /\ i = Len(l.written)
================================================================================
