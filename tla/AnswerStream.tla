----------------------------- MODULE AnswerStream -----------------------------
(***************************************************************************)
(* The way of one answer from the provider's bytes to the events of the    *)
(* chat stream.  The provider cuts the answer into deltas and frames each  *)
(* as a server-sent event; the network cuts the bytes anew; a first buffer *)
(* puts the frames together, a second one the citation tags.               *)
(*                                                                         *)
(* A text is a sequence of characters.  "[" followed by "c" stands for     *)
(* "[chunk:", "1" for any digit, "x" for any other character of one byte   *)
(* and "w" for a character of two.                                         *)
(***************************************************************************)
EXTENDS Naturals, Sequences, FiniteSets

CONSTANTS
  Answers,     \* the answers the model may give
  Excerpts,    \* the numbers of the excerpts in the prompt
  MaxDeltas,   \* bound: deltas the provider cuts the answer into
  MaxReads     \* bound: reads of the socket that return less than what is there

Chars == {"x", "w", "[", "c", "1", "]"}

ASSUME AnswersAssumption  == Answers \subseteq Seq(Chars)
ASSUME ExcerptsAssumption == Excerpts \subseteq Seq({"1"})
ASSUME BoundAssumption    == MaxDeltas \in Nat \ {0} /\ MaxReads \in Nat

VARIABLES
  reply,     \* what the model says, of which the first `said` characters are sent
  said,
  ended,     \* whether the frame with the finish_reason is sent
  wire,      \* bytes sent and not read
  deltas,    \* number of deltas sent
  reads,     \* number of short reads
  buffer,    \* of chat_stream_inner: what is read and is no complete event yet
  tagBuffer, \* of DeepseekTokenParser
  events,    \* texts and citations yielded
  at,        \* what the stream does next, or how it ended
  reason,    \* whether the Done event carries a finish_reason
  torn       \* history: a read ended inside a character

streamVars == <<reply, said, ended, wire, deltas, reads, buffer, tagBuffer, events, at, reason, torn>>

Marks == {"{", "}", "stop", "n", "r"}     \* around the text of a frame, and line ends
Bytes == (Chars \ {"w"}) \cup {"w1", "w2"} \cup Marks
Lost  == "?"                              \* U+FFFD

Texts  == [text : Seq(Chars \cup {Lost})]
Cites  == [cite : Seq({"1"})]

StreamTypeOK ==
  /\ reply \in Answers /\ said \in 0..Len(reply) /\ ended \in BOOLEAN
  /\ wire \in Seq(Bytes) /\ deltas \in 0..MaxDeltas /\ reads \in 0..MaxReads
  /\ buffer \in Seq(Chars \cup Marks \cup {Lost}) /\ tagBuffer \in Seq(Chars \cup {Lost})
  /\ events \in Seq(Texts \cup Cites)
  /\ at \in {"read", "drain", "finish", "flush", "done", "failed", "panicked"}
  /\ reason \in BOOLEAN /\ torn \in BOOLEAN

StreamInit ==
  /\ reply \in Answers /\ said = 0 /\ ended = FALSE /\ wire = <<>> /\ deltas = 0 /\ reads = 0
  /\ buffer = <<>> /\ tagBuffer = <<>> /\ events = <<>> /\ at = "read"
  /\ reason = FALSE /\ torn = FALSE

\* Where the sequence p starts in s, and the first such place.
PlacesOf(p, s) == {i \in 1..Len(s) - Len(p) + 1 : SubSeq(s, i, i + Len(p) - 1) = p}
First(S)     == CHOOSE i \in S : \A j \in S : i <= j
From(s, i)   == SubSeq(s, i, Len(s))
Upto(s, i)   == SubSeq(s, 1, i)
Concat(seqs) == LET f[i \in 0..Len(seqs)] == IF i = 0 THEN <<>> ELSE f[i - 1] \o seqs[i]
                IN  f[Len(seqs)]
Each(Op(_), s) == Concat([i \in 1..Len(s) |-> Op(s[i])])
Without(s, S)  == LET keep(c) == IF c \in S THEN <<>> ELSE <<c>>
                  IN  Each(keep, s)

-------------------------------------------------------------------------------
\* The provider and the network.

Encode(c)      == IF c = "w" THEN <<"w1", "w2">> ELSE <<c>>
Frame(s, last) == <<"{">> \o Each(Encode, s) \o (IF last THEN <<"stop">> ELSE <<>>) \o <<"}">>
LineEnds       == {<<"n", "n">>, <<"r", "n", "r", "n">>}

\* The next delta, perhaps with the finish_reason; the last delta allowed takes the rest.
Say(k, last) ==
  /\ ~ended /\ deltas < MaxDeltas /\ k <= Len(reply) - said
  /\ last => said + k = Len(reply)
  /\ deltas + 1 = MaxDeltas => last
  /\ \E e \in LineEnds : wire' = wire \o Frame(SubSeq(reply, said + 1, said + k), last) \o e
  /\ said' = said + k /\ ended' = last /\ deltas' = deltas + 1
  /\ UNCHANGED <<reply, reads, buffer, tagBuffer, events, at, reason, torn>>

\* String::from_utf8_lossy of one read: a character cut in two is lost.
Decode(bs) ==
  LET read(i) == CASE bs[i] = "w1" -> IF i < Len(bs) THEN <<"w">> ELSE <<Lost>>
                   [] bs[i] = "w2" -> IF i > 1 THEN <<>> ELSE <<Lost>>
                   [] OTHER        -> <<bs[i]>>
  IN  Concat([i \in 1..Len(bs) |-> read(i)])

\* A blank line ends an event, whichever line ends come first.
EventEnds(b) == {<<i, 2>> : i \in PlacesOf(<<"n", "n">>, b)}
                  \cup {<<i, 4>> : i \in PlacesOf(<<"r", "n", "r", "n">>, b)}

Read(n) ==
  /\ at = "read" /\ EventEnds(buffer) = {}
  /\ n \in 1..Len(wire)
  /\ n < Len(wire) => reads < MaxReads
  /\ reads' = IF n < Len(wire) THEN reads + 1 ELSE reads
  /\ buffer' = buffer \o Decode(Upto(wire, n))
  /\ torn' = (torn \/ wire[n] = "w1")
  /\ wire' = From(wire, n + 1)
  /\ UNCHANGED <<reply, said, ended, deltas, tagBuffer, events, at, reason>>

\* pop_next_sse_event, parse_sse_event and the push of its delta; the finish_reason ends
\* the stream, whatever follows it.
Content(e)  == Without(e, Marks)
Stops(e)    == "stop" \in {e[i] : i \in 1..Len(e)}
IsEvent(e)  == e[1] = "{" /\ PlacesOf(<<"}">>, e) # {}

Push(e, last) ==
  /\ tagBuffer' = tagBuffer \o Content(e)
  /\ reason' = Stops(e)
  /\ at' = CASE Content(e) # <<>> -> IF last THEN "finish" ELSE "drain"
             [] OTHER             -> IF last THEN "flush" ELSE "read"

PopEvent ==
  /\ at = "read" /\ EventEnds(buffer) # {}
  /\ LET end   == CHOOSE e \in EventEnds(buffer) : \A f \in EventEnds(buffer) : e[1] <= f[1]
         event == Upto(buffer, end[1] - 1)
     IN  /\ buffer' = From(buffer, end[1] + end[2])
         /\ Push(event, Stops(event))
  /\ UNCHANGED <<reply, said, ended, wire, deltas, reads, events, torn>>

\* The response ends, which need not be the end of the answer: what is left in the buffer
\* is an event without its blank line, or an error.
EndResponse ==
  /\ at = "read" /\ EventEnds(buffer) = {}
  /\ LET left == Without(buffer, {"n", "r"})
     IN  CASE left = <<>>   -> at' = "flush" /\ UNCHANGED <<tagBuffer, reason>>
           [] IsEvent(left) -> Push(left, TRUE)
           [] OTHER         -> at' = "failed" /\ UNCHANGED <<tagBuffer, reason>>
  /\ buffer' = <<>> /\ wire' = <<>>
  /\ UNCHANGED <<reply, said, ended, deltas, reads, events, torn>>

\* The connection breaks.
Break ==
  /\ at = "read" /\ EventEnds(buffer) = {}
  /\ at' = "failed"
  /\ UNCHANGED <<reply, said, ended, wire, deltas, reads, buffer, tagBuffer, events, reason, torn>>

-------------------------------------------------------------------------------
\* DeepseekTokenParser.

Prefix == <<"[", "c">>                    \* CHUNK_TAG_PREFIX

Text(s)  == IF s = <<>> THEN <<>> ELSE <<[text |-> s]>>

\* parse_chunk_tag
IsCitation(tag) ==
  /\ Upto(tag, Len(Prefix)) = Prefix /\ tag[Len(tag)] = "]"
  /\ Len(tag) > Len(Prefix) + 1
  /\ \A i \in Len(Prefix) + 1 .. Len(tag) - 1 : tag[i] = "1"
Tag(tag) == IF IsCitation(tag) THEN <<[cite |-> SubSeq(tag, 3, Len(tag) - 1)]>> ELSE Text(tag)

Opens(s)  == PlacesOf(Prefix, s)
Closes(s) == PlacesOf(<<"]">>, s)
HasTag(s) == Opens(s) # {} /\ \E j \in Closes(s) : j > First(Opens(s))

\* One turn of the loop: the text before the first tag, and the tag.
TakeTag ==
  /\ at \in {"drain", "finish"} /\ HasTag(tagBuffer)
  /\ LET i == First(Opens(tagBuffer))
         j == First({k \in Closes(tagBuffer) : k > i})
     IN  /\ events' = events \o Text(Upto(tagBuffer, i - 1)) \o Tag(SubSeq(tagBuffer, i, j))
         /\ tagBuffer' = From(tagBuffer, j + 1)
  /\ UNCHANGED <<reply, said, ended, wire, deltas, reads, buffer, at, reason, torn>>

\* Faulty: a tag that is not closed yet is not held back (CitationsSurviveCuts).
HeldPrefixOnly(s) ==
  {i \in 1..Len(s) : From(s, i) \in {Upto(Prefix, k) : k \in 1..Len(Prefix)}}

\* The suffixes of s that may be the start of a tag; the shortest is held back.
Held(s) ==
  {i \in 1..Len(s) : LET t == From(s, i) IN \/ t \in {Upto(Prefix, k) : k \in 1..Len(Prefix)}
                                            \/ i \in Opens(s) /\ t[Len(t)] # "]"}
Longest(S) == CHOOSE i \in S : \A j \in S : j <= i

\* holdback_len looks at one byte more at a time, from the end: it cuts the text inside a
\* character of two bytes unless a suffix after that character is held.
Panics(s) == \E i \in 1..Len(s) : s[i] \in {"w", Lost} /\ \A j \in Held(s) : j <= i

\* What is left after the last tag: the text before a tag that is still open is emitted,
\* and of the rest what cannot be the start of a tag.
HoldBack ==
  /\ at \in {"drain", "finish"} /\ ~HasTag(tagBuffer)
  /\ LET open == IF Opens(tagBuffer) = {} THEN 1 ELSE First(Opens(tagBuffer))
         rest == From(tagBuffer, open)
         cut  == IF Held(rest) = {} THEN Len(rest) + 1 ELSE Longest(Held(rest))
     IN  IF Panics(rest)
         THEN at' = "panicked" /\ UNCHANGED <<events, tagBuffer>>
         ELSE /\ events' = events \o Text(Upto(tagBuffer, open - 1)) \o Text(Upto(rest, cut - 1))
              /\ tagBuffer' = From(rest, cut)
              /\ at' = IF at = "drain" THEN "read" ELSE "flush"
  /\ UNCHANGED <<reply, said, ended, wire, deltas, reads, buffer, reason, torn>>

\* Faulty: Done without the text held back (WholeAnswerIsKept).
FlushNothing ==
  /\ at = "flush"
  /\ tagBuffer' = <<>>
  /\ at' = "done"
  /\ UNCHANGED <<reply, said, ended, wire, deltas, reads, buffer, events, reason, torn>>

\* DeepseekTokenParser::finish, and Done.
Flush ==
  /\ at = "flush"
  /\ events' = events \o Text(tagBuffer)
  /\ tagBuffer' = <<>>
  /\ at' = "done"
  /\ UNCHANGED <<reply, said, ended, wire, deltas, reads, buffer, reason, torn>>

StreamNext ==
  \/ \E k \in 0..Len(reply), last \in BOOLEAN : Say(k, last)
  \/ \E n \in 1..Len(wire) : Read(n)
  \/ PopEvent \/ EndResponse \/ Break \/ TakeTag \/ HoldBack \/ Flush

StreamSpec == StreamInit /\ [][StreamNext]_streamVars

-------------------------------------------------------------------------------
\* resolve_citation: a number that no excerpt of the prompt has is told to be unknown.
Resolve(cite) == [cite |-> cite, known |-> cite \in Excerpts]

\* enrich_stream_events, of each event before it is sent.
Enriched == [i \in 1..Len(events) |->
               IF "text" \in DOMAIN events[i] THEN events[i] ELSE Resolve(events[i].cite)]

\* What the client puts together from the events.
Shown ==
  LET show(e) == IF "text" \in DOMAIN e THEN e.text ELSE Prefix \o e.cite \o <<"]">>
  IN  Each(show, Enriched)

\* However deltas, events and reads are cut, the client sees the answer in order and
\* nothing else, and all of it once the provider said that it is finished
\* (streaming.rs:40-42, provider.rs:228-240).  A read that ends inside a character loses it.
WholeAnswerIsKept ==
  ~torn => LET seen == Shown \o tagBuffer
           IN  /\ seen = Upto(reply, Len(seen))
               /\ at = "done" /\ reason => seen = reply

\* A tag opens inside one that is not closed.
Nested(s) ==
  \E i \in Opens(s), j \in PlacesOf(<<"[">>, s) : i < j /\ ~\E k \in Closes(s) : i < k /\ k < j

\* Every tag of what was shown is a citation and not text, and the other way round, and it
\* is resolved when the prompt has its excerpt, wherever it was cut (streaming.rs:42).
CitationsSurviveCuts ==
  at = "done" /\ ~Nested(Shown) =>
    \A k \in BOOLEAN :
      Cardinality({i \in 1..Len(events) : "cite" \in DOMAIN Enriched[i] /\ Enriched[i].known = k}) =
        Cardinality({p \in Opens(Shown) \X Closes(Shown) :
                       /\ p[1] < p[2] /\ IsCitation(SubSeq(Shown, p[1], p[2]))
                       /\ (SubSeq(Shown, p[1] + 2, p[2] - 1) \in Excerpts) = k})
===============================================================================
