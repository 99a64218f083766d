-------------------------- MODULE ServerLoopProofs ---------------------------
(***************************************************************************)
(* What the transport reads is a parse of what the client wrote, also when *)
(* it resynchronises in the middle of a malformed frame.  Places are the   *)
(* states of an automaton that reads the pieces of whole frames; the       *)
(* invariant says that what is left of the stream leads the automaton from *)
(* the place the reader is at back to the start of a frame.                *)
(***************************************************************************)
EXTENDS ServerLoop, SequenceTheorems, FiniteSetTheorems, WellFoundedInduction, TLAPS

\* The start of a frame; after the length of n units; in front of a body of n
\* units; in a body of two; after a header that is no length, and after the
\* empty line that follows it; inside an over-long line.
Places == {"start", "length1", "length2", "body1", "body2", "half", "header", "headless", "overlong"}

\* How a piece leads from place to place.
Leads ==
  {<<"start", "length1", "length1">>, <<"length1", "blank", "body1">>,
   <<"body1", "body", "start">>, <<"body1", "unit", "start">>,
   <<"start", "length2", "length2">>, <<"length2", "blank", "body2">>,
   <<"body2", "unit", "half">>, <<"half", "unit", "start">>,
   <<"start", "header", "header">>, <<"header", "blank", "headless">>,
   <<"headless", "line", "start">>,
   <<"start", "unit", "overlong">>, <<"overlong", "line", "start">>}

\* Read from place q, the stream s consists of whole frames.
Parses(q, s) ==
  \E at \in [0 .. Len(s) -> Places] :
    /\ at[0] = q /\ at[Len(s)] = "start"
    /\ \A i \in 1 .. Len(s) : <<at[i - 1], s[i].k, at[i]>> \in Leads

\* The places where the reader may be.
ReaderAt(q) ==
  \/ phase = "headers" /\ length = 0 /\ buffered = 0 /\ q \in {"start", "header"}
  \/ phase = "headers" /\ 1 \in {length, buffered} /\ q = "length1"
  \/ phase = "headers" /\ 2 \in {length, buffered} /\ q = "length2"
  \/ phase = "body" /\ length = 1 /\ q = "body1"
  \/ phase \in {"body", "discard"} /\ length = 2 /\ q = "body2"
  \/ phase = "resync" /\ q \in {"start", "header", "headless", "overlong"}
  \/ phase = "dispatch" /\ q = "start"

Alive == phase \notin {"stopped", "terminated"}

\* The reader is where the rest of the stream can be parsed.
Aligned ==
  Alive /\ ~closed /\ ~stray => \E q \in Places : ReaderAt(q) /\ Parses(q, input)

\* What is buffered, counted and dispatched agrees with the phase.
PhaseSound ==
  /\ buffered # 0 => length = 0 /\ phase \in {"headers", "stopped"}
  /\ phase \in {"body", "discard"} => length # 0
  /\ phase = "discard" => length > MaxMessage
  /\ phase \in {"resync", "dispatch"} => length = 0
  /\ phase = "dispatch" => message \in Message
  /\ Alive => errors < MaxErrors

BeingServed(id) == phase = "dispatch" /\ message.method \in Requests /\ message.id = id

\* Every request without an answer is still in the stream or being served.
RequestsKept ==
  Alive /\ ~stray /\ ~closed /\ ~broken => \A id \in awaiting : InInput(id) \/ BeingServed(id)

Sound == TypeOK /\ PhaseSound /\ IsFiniteSet(cancelled_ids)

IInv == Sound /\ Aligned /\ RequestsKept /\ CancelsOnce

(***************************************************************************)
(* The stream                                                              *)
(***************************************************************************)
Rest(s, n) == SubSeq(s, n + 1, Len(s))

\* What is left of a sequence when its first elements are gone.
LEMMA RestOfSeq ==
  ASSUME NEW S, NEW s \in Seq(S), NEW n \in 0 .. Len(s)
  PROVE  /\ Rest(s, n) \in Seq(S)
         /\ Len(Rest(s, n)) = Len(s) - n
         /\ \A i \in 1 .. Len(s) - n : Rest(s, n)[i] = s[i + n]
<1>1. \A i \in (n + 1) .. Len(s) : s[i] \in S
  BY ElementOfSeq
<1> QED
  BY <1>1, SubSeqProperties, n + 1 \in Int, Len(s) \in Int DEF Rest

\* A parse of a stream visits places from which what is left can be parsed.
LEMMA ParsesRest ==
  ASSUME NEW s \in Seq(Pieces), NEW q, Parses(q, s)
  PROVE  \E at \in [0 .. Len(s) -> Places] :
           /\ at[0] = q /\ at[Len(s)] = "start"
           /\ \A i \in 1 .. Len(s) : <<at[i - 1], s[i].k, at[i]>> \in Leads
           /\ \A n \in 0 .. Len(s) : Parses(at[n], Rest(s, n))
<1>1. PICK at \in [0 .. Len(s) -> Places] :
        /\ at[0] = q /\ at[Len(s)] = "start"
        /\ \A i \in 1 .. Len(s) : <<at[i - 1], s[i].k, at[i]>> \in Leads
  BY DEF Parses
<1>2. ASSUME NEW n \in 0 .. Len(s)
      PROVE  Parses(at[n], Rest(s, n))
  <2> DEFINE to == [i \in 0 .. Len(s) - n |-> at[i + n]]
  <2>1. /\ Len(Rest(s, n)) = Len(s) - n
        /\ \A i \in 1 .. Len(s) - n : Rest(s, n)[i] = s[i + n]
    BY RestOfSeq
  <2>2. to \in [0 .. Len(s) - n -> Places]
    OBVIOUS
  <2>3. to[0] = at[n] /\ to[Len(s) - n] = "start"
    BY <1>1
  <2>4. ASSUME NEW i \in 1 .. Len(s) - n
        PROVE  <<to[i - 1], Rest(s, n)[i].k, to[i]>> \in Leads
    <3>1. <<at[i + n - 1], s[i + n].k, at[i + n]>> \in Leads
      BY <1>1, i + n \in 1 .. Len(s)
    <3>2. to[i - 1] = at[i + n - 1] /\ to[i] = at[i + n]
      OBVIOUS
    <3> QED
      BY <2>1, <3>1, <3>2
  <2> HIDE DEF to
  <2> QED
    BY <2>1, <2>2, <2>3, <2>4 DEF Parses
<1> QED
  BY <1>1, <1>2

\* Whole frames may follow whole frames.
LEMMA ParsesConcat ==
  ASSUME NEW s \in Seq(Pieces), NEW t \in Seq(Pieces), NEW q,
         Parses(q, s), Parses("start", t)
  PROVE  Parses(q, s \o t)
<1>1. PICK at \in [0 .. Len(s) -> Places] :
        /\ at[0] = q /\ at[Len(s)] = "start"
        /\ \A i \in 1 .. Len(s) : <<at[i - 1], s[i].k, at[i]>> \in Leads
  BY DEF Parses
<1>2. PICK on \in [0 .. Len(t) -> Places] :
        /\ on[0] = "start" /\ on[Len(t)] = "start"
        /\ \A i \in 1 .. Len(t) : <<on[i - 1], t[i].k, on[i]>> \in Leads
  BY DEF Parses
<1> DEFINE n == Len(s)
           m == Len(t)
           to == [i \in 0 .. n + m |-> IF i <= n THEN at[i] ELSE on[i - n]]
<1>3. n \in Nat /\ m \in Nat
  OBVIOUS
<1>4. /\ Len(s \o t) = n + m
      /\ \A i \in 1 .. n + m : (s \o t)[i] = IF i <= n THEN s[i] ELSE t[i - n]
  BY ConcatProperties
<1>5. to \in [0 .. n + m -> Places] /\ to[0] = q /\ to[n + m] = "start"
  BY <1>1, <1>2, <1>3
<1>6. ASSUME NEW i \in 1 .. n + m
      PROVE  <<to[i - 1], (s \o t)[i].k, to[i]>> \in Leads
  <2>1. CASE i <= n
    <3>1. to[i - 1] = at[i - 1] /\ to[i] = at[i] /\ (s \o t)[i] = s[i]
      BY <1>3, <1>4, <2>1
    <3> QED
      BY <1>1, <1>3, <2>1, <3>1
  <2>2. CASE i > n
    <3>1. to[i] = on[i - n] /\ (s \o t)[i] = t[i - n]
      BY <1>3, <1>4, <2>2
    <3>3. to[i - 1] = on[i - n - 1]
      <4>1. CASE i = n + 1
        BY <1>1, <1>2, <1>3, <4>1
      <4>2. CASE i > n + 1
        BY <1>3, <4>2
      <4>3. i = n + 1 \/ i > n + 1
        BY <1>3, <2>2
      <4> QED
        BY <4>1, <4>2, <4>3
    <3>2. i - n \in 1 .. m
      BY <1>3, <2>2
    <3> QED
      BY <1>2, <3>1, <3>2, <3>3
  <2>3. i <= n \/ i > n
    BY <1>3
  <2> QED
    BY <2>1, <2>2, <2>3
<1> HIDE DEF to
<1> QED
  BY <1>4, <1>5, <1>6 DEF Parses

\* What the client sends, apart from Unskippable frames, is whole frames.
LEMMA FramesParse ==
  /\ \A m \in Message : Frame(m) \in Seq(Pieces) /\ Parses("start", Frame(m))
  /\ \A k \in Kinds : Malformed(k) \in Seq(Pieces)
  /\ \A k \in Kinds \ Unskippable : Parses("start", Malformed(k))
<1> DEFINE path == [oversize     |-> <<"start", "length2", "body2", "half", "start">>,
                    invalid_json |-> <<"start", "length1", "body1", "start">>,
                    no_length_nl |-> <<"start", "header", "headless", "start">>,
                    long_header_first |->
                      <<"start", "overlong", "start", "length1", "body1", "start">>]
           At(p) == [i \in 0 .. Len(p) - 1 |-> p[i + 1]]
<1>1. ASSUME NEW m \in Message
      PROVE  Frame(m) \in Seq(Pieces) /\ Parses("start", Frame(m))
  <2>1. Frame(m) \in Seq(Pieces) /\ Len(Frame(m)) = 3
    BY <1>1 DEF Frame, Pieces
  <2>2. Frame(m)[1].k = "length1" /\ Frame(m)[2].k = "blank" /\ Frame(m)[3].k = "body"
    BY DEF Frame, Length, Blank, Piece
  <2> DEFINE at == At(path.invalid_json)
  <2>3. at \in [0 .. 3 -> Places]
    BY DEF Places
  <2>4. at[0] = "start" /\ at[1] = "length1" /\ at[2] = "body1" /\ at[3] = "start"
    OBVIOUS
  <2> HIDE DEF at
  <2>5. \A i \in 1 .. 3 : <<at[i - 1], Frame(m)[i].k, at[i]>> \in Leads
    <3>1. <<at[0], Frame(m)[1].k, at[1]>> \in Leads /\ <<at[1], Frame(m)[2].k, at[2]>> \in Leads
          /\ <<at[2], Frame(m)[3].k, at[3]>> \in Leads
      BY <2>2, <2>4 DEF Leads
    <3> QED
      BY <3>1
  <2> QED
    BY <2>1, <2>3, <2>4, <2>5 DEF Parses
<1>2. ASSUME NEW k \in Kinds \ Unskippable
      PROVE  Parses("start", Malformed(k))
  <2> DEFINE at == At(path[k])
             s == Malformed(k)
  <2>1. k \in {"oversize", "invalid_json", "no_length_nl", "long_header_first"}
    BY LoopAssumption DEF Unskippable
  <2>2. CASE k = "oversize"
    <3>1. /\ Len(s) = 4 /\ s[1].k = "length2" /\ s[2].k = "blank"
          /\ s[3].k = "unit" /\ s[4].k = "unit"
      BY <2>2 DEF Malformed, Length, Blank, Unit, Piece
    <3>2. at \in [0 .. 4 -> Places]
      BY <2>2 DEF Places
    <3>3. at[0] = "start" /\ at[1] = "length2" /\ at[2] = "body2" /\ at[3] = "half" /\ at[4] = "start"
      BY <2>2
    <3> HIDE DEF at, s
    <3>4. \A i \in 1 .. 4 : <<at[i - 1], s[i].k, at[i]>> \in Leads
      <4>1. /\ <<at[0], s[1].k, at[1]>> \in Leads /\ <<at[1], s[2].k, at[2]>> \in Leads
            /\ <<at[2], s[3].k, at[3]>> \in Leads /\ <<at[3], s[4].k, at[4]>> \in Leads
        BY <3>1, <3>3 DEF Leads
      <4> QED
        BY <4>1
    <3> QED
      BY <3>1, <3>2, <3>3, <3>4 DEF Parses, s
  <2>3. CASE k = "invalid_json"
    <3>1. Len(s) = 3 /\ s[1].k = "length1" /\ s[2].k = "blank" /\ s[3].k = "unit"
      BY <2>3 DEF Malformed, Length, Blank, Unit, Piece
    <3>2. at \in [0 .. 3 -> Places]
      BY <2>3 DEF Places
    <3>3. at[0] = "start" /\ at[1] = "length1" /\ at[2] = "body1" /\ at[3] = "start"
      BY <2>3
    <3> HIDE DEF at, s
    <3>4. \A i \in 1 .. 3 : <<at[i - 1], s[i].k, at[i]>> \in Leads
      <4>1. /\ <<at[0], s[1].k, at[1]>> \in Leads /\ <<at[1], s[2].k, at[2]>> \in Leads
            /\ <<at[2], s[3].k, at[3]>> \in Leads
        BY <3>1, <3>3 DEF Leads
      <4> QED
        BY <4>1
    <3> QED
      BY <3>1, <3>2, <3>3, <3>4 DEF Parses, s
  <2>4. CASE k = "no_length_nl"
    <3>1. Len(s) = 3 /\ s[1].k = "header" /\ s[2].k = "blank" /\ s[3].k = "line"
      BY <2>4 DEF Malformed, Header, Blank, Line, Piece
    <3>2. at \in [0 .. 3 -> Places]
      BY <2>4 DEF Places
    <3>3. at[0] = "start" /\ at[1] = "header" /\ at[2] = "headless" /\ at[3] = "start"
      BY <2>4
    <3> HIDE DEF at, s
    <3>4. \A i \in 1 .. 3 : <<at[i - 1], s[i].k, at[i]>> \in Leads
      <4>1. /\ <<at[0], s[1].k, at[1]>> \in Leads /\ <<at[1], s[2].k, at[2]>> \in Leads
            /\ <<at[2], s[3].k, at[3]>> \in Leads
        BY <3>1, <3>3 DEF Leads
      <4> QED
        BY <4>1
    <3> QED
      BY <3>1, <3>2, <3>3, <3>4 DEF Parses, s
  <2>5. CASE k = "long_header_first"
    <3>1. /\ Len(s) = 5 /\ s[1].k = "unit" /\ s[2].k = "line" /\ s[3].k = "length1"
          /\ s[4].k = "blank" /\ s[5].k = "unit"
      BY <2>5 DEF Malformed, Length, Blank, Unit, Line, Piece
    <3>2. at \in [0 .. 5 -> Places]
      BY <2>5 DEF Places
    <3>3. /\ at[0] = "start" /\ at[1] = "overlong" /\ at[2] = "start" /\ at[3] = "length1"
          /\ at[4] = "body1" /\ at[5] = "start"
      BY <2>5
    <3> HIDE DEF at, s
    <3>4. \A i \in 1 .. 5 : <<at[i - 1], s[i].k, at[i]>> \in Leads
      <4>1. /\ <<at[0], s[1].k, at[1]>> \in Leads /\ <<at[1], s[2].k, at[2]>> \in Leads
            /\ <<at[2], s[3].k, at[3]>> \in Leads /\ <<at[3], s[4].k, at[4]>> \in Leads
            /\ <<at[4], s[5].k, at[5]>> \in Leads
        BY <3>1, <3>3 DEF Leads
      <4> QED
        BY <4>1
    <3> QED
      BY <3>1, <3>2, <3>3, <3>4 DEF Parses, s
  <2> QED
    BY <2>1, <2>2, <2>3, <2>4, <2>5
<1>3. ASSUME NEW k \in Kinds
      PROVE  Malformed(k) \in Seq(Pieces)
  <2>1. {Length(1), Length(2), Header, Blank, Unit, Line} \subseteq Pieces
    BY DEF Pieces
  <2>2. \A a, b, c, d, e \in Pieces :
          /\ <<a, b, c>> \in Seq(Pieces) /\ <<a, b, c, d>> \in Seq(Pieces)
          /\ <<a, b, c, d, e>> \in Seq(Pieces)
    OBVIOUS
  <2>3. k \in {"oversize", "invalid_json", "no_length", "no_length_nl",
              "long_header_first", "long_header_last"}
    BY LoopAssumption
  <2> QED
    BY <2>1, <2>2, <2>3 DEF Malformed
<1> QED
  BY <1>1, <1>2, <1>3

\* What a line reads as when it is read from a place, and where that leads: the
\* first line of a frame may be over-long, and is then taken in part or whole.
LineReads ==
  {<<"start", "length1", "length1">>, <<"length1", "blank", "body1">>,
   <<"start", "length2", "length2">>, <<"length2", "blank", "body2">>,
   <<"start", "header", "header">>, <<"header", "blank", "headless">>,
   <<"headless", "line", "start">>, <<"overlong", "line", "start">>,
   <<"start", "text", "start">>, <<"start", "too_long", "start">>,
   <<"start", "too_long", "overlong">>}

LinePlaces == Places \ {"body1", "body2", "half"}

\* Away from a body, read_line takes at most two pieces and no body, and what it
\* leaves can be parsed from the place its line leads to.
LEMMA LinesKeepBodies ==
  ASSUME input \in Seq(Pieces), ~closed, NEW q \in LinePlaces, Parses(q, input),
         NEW r \in read_line
  PROVE  /\ r.take \in 1 .. Len(input)
         /\ \A i \in 1 .. r.take : input[i].k # "body"
         /\ \E p \in Places : <<q, r.line, p>> \in LineReads /\ Parses(p, Rest(input, r.take))
<1>1. PICK at \in [0 .. Len(input) -> Places] :
        /\ at[0] = q /\ at[Len(input)] = "start"
        /\ \A i \in 1 .. Len(input) : <<at[i - 1], input[i].k, at[i]>> \in Leads
        /\ \A n \in 0 .. Len(input) : Parses(at[n], Rest(input, n))
  BY ParsesRest
<1>2. Len(input) \in Nat /\ DOMAIN input = 1 .. Len(input)
  OBVIOUS
<1>3. CASE Len(input) = 0
  <2>1. LineEnd(input) = 0
    BY <1>2, <1>3 DEF LineEnd
  <2> QED
    BY <2>1 DEF read_line
<1>4. CASE Len(input) # 0 /\ EndsLine(input[1])
  <2>1. 1 \in 1 .. Len(input)
    BY <1>2, <1>4
  <2>2. LineEnd(input) = 1
    <3>1. \A i \in DOMAIN input : (\A j \in 1 .. i - 1 : ~EndsLine(input[j])) => i = 1
      BY <1>2, <1>4
    <3>2. \A j \in 1 .. 1 - 1 : ~EndsLine(input[j])
      OBVIOUS
    <3> QED
      BY <1>2, <1>4, <2>1, <3>1, <3>2 DEF LineEnd
  <2>3. r.line = input[1].k /\ r.take = 1
    BY <2>2 DEF read_line
  <2>4. <<q, input[1].k, at[1]>> \in Leads
    BY <1>1, <2>1
  <2>5. input[1].k \notin {"unit", "body"}
    BY <1>4 DEF EndsLine
  <2>6. <<q, r.line, at[1]>> \in LineReads
    BY <2>3, <2>4, <2>5 DEF Leads, LineReads
  <2>7. at[1] \in Places /\ Parses(at[1], Rest(input, 1))
    BY <1>1, <1>2, <2>1
  <2>8. \A i \in 1 .. r.take : input[i].k # "body"
    BY <2>3, <2>5
  <2> QED
    BY <2>1, <2>3, <2>6, <2>7, <2>8
<1>5. CASE Len(input) # 0 /\ ~EndsLine(input[1])
  <2>1. 1 \in 1 .. Len(input)
    BY <1>2, <1>5
  <2>2. <<q, input[1].k, at[1]>> \in Leads
    BY <1>1, <2>1
  <2>3. input[1].k \in {"unit", "body"}
    BY <1>5 DEF EndsLine
  <2>4. q = "start" /\ input[1].k = "unit" /\ at[1] = "overlong"
    BY <2>2, <2>3 DEF Leads, LinePlaces
  <2>5. 2 \in 1 .. Len(input)
    BY <1>1, <1>2, <2>1, <2>4
  <2>6. <<"overlong", input[2].k, at[2]>> \in Leads
    <3>1. \A i \in 1 .. Len(input), j \in 0 .. Len(input) :
            j = i - 1 => <<at[j], input[i].k, at[i]>> \in Leads
      BY <1>1
    <3>2. 1 \in 0 .. Len(input) /\ 1 = 2 - 1
      BY <1>2, <2>1
    <3>3. <<at[1], input[2].k, at[2]>> \in Leads
      BY <2>5, <3>1, <3>2
    <3> QED
      BY <2>4, <3>3
  <2>7. input[2].k = "line" /\ at[2] = "start"
    BY <2>6 DEF Leads
  <2>8. LineEnd(input) = 2
    <3>1. EndsLine(input[2]) /\ ~EndsLine(input[1])
      BY <1>5, <2>7 DEF EndsLine
    <3>2. \A i \in DOMAIN input :
            EndsLine(input[i]) /\ (\A j \in 1 .. i - 1 : ~EndsLine(input[j])) <=> i = 2
      <4>1. ASSUME NEW i \in 1 .. Len(input), EndsLine(input[i]),
                   \A j \in 1 .. i - 1 : ~EndsLine(input[j])
            PROVE  i = 2
        BY <1>2, <3>1, <4>1
      <4>2. \A j \in 1 .. 2 - 1 : ~EndsLine(input[j])
        BY <3>1
      <4> QED
        BY <1>2, <3>1, <4>1, <4>2
    <3>3. \E i \in DOMAIN input : EndsLine(input[i])
      BY <1>2, <2>5, <3>1
    <3> QED
      BY <1>2, <2>5, <3>2, <3>3 DEF LineEnd
  <2>9. /\ r.take \in 1 .. 2
        /\ r.line = "too_long" \/ (r.line = "text" /\ r.take = 2)
        /\ r.take = 1 \/ r.take = 2
    BY <2>8 DEF read_line
  <2>10. \A i \in 1 .. r.take : input[i].k # "body"
    BY <2>4, <2>7, <2>9
  <2>11. Parses(at[1], Rest(input, 1)) /\ Parses(at[2], Rest(input, 2))
    BY <1>1, <1>2, <2>1, <2>5
  <2>12. CASE r.take = 2
    <3>1. <<q, r.line, "start">> \in LineReads
      BY <2>4, <2>9 DEF LineReads
    <3> QED
      BY <2>5, <2>7, <2>10, <2>11, <2>12, <3>1 DEF Places
  <2>13. CASE r.take = 1
    <3>1. <<q, r.line, "overlong">> \in LineReads
      BY <2>4, <2>9, <2>13 DEF LineReads
    <3> QED
      BY <2>1, <2>4, <2>10, <2>11, <2>13, <3>1 DEF Places
  <2> QED
    BY <2>9, <2>12, <2>13
<1> QED
  BY <1>3, <1>4, <1>5

\* The end of the first line is there whenever there is a line.
LEMMA LineEndSound ==
  ASSUME NEW s \in Seq(Pieces)
  PROVE  LineEnd(s) \in 0 .. Len(s) /\ (LineEnd(s) # 0 => EndsLine(s[LineEnd(s)]))
<1> DEFINE T == {i \in 1 .. Len(s) : EndsLine(s[i])}
<1>1. DOMAIN s = 1 .. Len(s) /\ Len(s) \in Nat
  OBVIOUS
<1>2. CASE T = {}
  BY <1>1, <1>2 DEF LineEnd
<1>3. CASE T # {}
  <2>1. T \subseteq Nat
    BY <1>1
  <2>2. PICK n \in T : \A y \in T : ~(<<y, n>> \in OpToRel(<, Nat))
    BY <1>3, <2>1, NatLessThanWellFounded, WFMin
  <2>3. \A y \in T : ~(y < n)
    BY <2>1, <2>2 DEF OpToRel
  <2>4. n \in DOMAIN s /\ EndsLine(s[n]) /\ \A j \in 1 .. n - 1 : ~EndsLine(s[j])
    <3>1. n \in 1 .. Len(s) /\ EndsLine(s[n])
      BY <2>2
    <3>2. ASSUME NEW j \in 1 .. n - 1, EndsLine(s[j])
          PROVE  FALSE
      <4>1. j \in T /\ j < n
        BY <1>1, <3>1, <3>2
      <4> QED
        BY <2>3, <4>1
    <3> QED
      BY <1>1, <3>1, <3>2
  <2> QED
    BY <1>1, <2>4 DEF LineEnd
<1> QED
  BY <1>2, <1>3

\* What read_line may return, in any state.
LEMMA ReadLineSound ==
  ASSUME input \in Seq(Pieces), NEW r \in read_line
  PROVE  /\ r.take \in 0 .. Len(input)
         /\ r.line = "eof" => closed
         /\ r.line \in {"text", "too_long", "eof", "length1", "length2", "header", "blank", "line"}
<1>1. LineEnd(input) \in 0 .. Len(input) /\ Len(input) \in Nat
  BY LineEndSound
<1>2. CASE LineEnd(input) = 1
  <2>1. r.line = input[1].k /\ r.take = 1 /\ 1 \in DOMAIN input
    BY <1>1, <1>2 DEF read_line
  <2>2. EndsLine(input[1])
    BY <1>2, LineEndSound
  <2>3. input[1] \in Pieces
    BY <2>1
  <2>4. input[1].k \in {"length1", "length2", "header", "blank", "line"}
    BY <2>2, <2>3 DEF EndsLine, Pieces, Length, Header, Blank, Unit, Line, Piece
  <2> QED
    BY <1>1, <1>2, <2>1, <2>4
<1>3. CASE LineEnd(input) > 1
  BY <1>1, <1>3 DEF read_line
<1>4. CASE LineEnd(input) = 0
  BY <1>1, <1>4 DEF read_line
<1> QED
  BY <1>1, <1>2, <1>3, <1>4

\* A piece that is no body is not a request.
LEMMA PieceSound ==
  ASSUME NEW p \in Pieces
  PROVE  /\ p.k = "body" => p.m \in Message
         /\ p.k # "body" => p.m.method \notin Requests
<1>1. None.method \notin Requests
  BY DEF None, Requests
<1> QED
  BY <1>1 DEF Pieces, Length, Header, Blank, Unit, Line, Piece

\* What the client sent stays in the stream until its body is read.
LEMMA RequestsStay ==
  ASSUME input \in Seq(Pieces), NEW n \in 0 .. Len(input), input' = Rest(input, n),
         NEW id, InInput(id),
         \A i \in 1 .. n : input[i].k # "body" \/ input[i].m.method \notin Requests \/ input[i].m.id # id
  PROVE  InInput(id)'
<1>1. /\ Len(input') = Len(input) - n /\ DOMAIN input' = 1 .. Len(input) - n
      /\ \A i \in 1 .. Len(input) - n : input'[i] = input[i + n]
  BY RestOfSeq
<1>2. PICK i \in 1 .. Len(input) : input[i].m.method \in Requests /\ input[i].m.id = id
  BY DEF InInput
<1>3. input[i].k = "body"
  BY <1>2, PieceSound, input[i] \in Pieces
<1>4. i > n
  BY <1>2, <1>3
<1>5. i - n \in 1 .. Len(input) - n /\ input'[i - n] = input[i]
  BY <1>1, <1>4
<1> QED
  BY <1>1, <1>2, <1>5 DEF InInput

\* In front of a body of n units there is a body of n units.
LEMMA BodiesParse ==
  ASSUME input \in Seq(Pieces)
  PROVE  /\ Parses("body1", input) /\ Len(input) >= 1
            => input[1].k \in {"body", "unit"} /\ Parses("start", Rest(input, 1))
         /\ Parses("body2", input) /\ Len(input) >= 2
            => /\ input[1].k = "unit" /\ input[2].k = "unit"
               /\ Parses("start", Rest(input, 2))
<1>1. ASSUME Parses("body1", input), Len(input) >= 1
      PROVE  input[1].k \in {"body", "unit"} /\ Parses("start", Rest(input, 1))
  <2>1. PICK at \in [0 .. Len(input) -> Places] :
          /\ at[0] = "body1"
          /\ \A i \in 1 .. Len(input) : <<at[i - 1], input[i].k, at[i]>> \in Leads
          /\ \A n \in 0 .. Len(input) : Parses(at[n], Rest(input, n))
    BY <1>1, ParsesRest
  <2>2. <<"body1", input[1].k, at[1]>> \in Leads /\ Parses(at[1], Rest(input, 1))
    BY <1>1, <2>1
  <2> QED
    BY <2>2 DEF Leads
<1>2. ASSUME Parses("body2", input), Len(input) >= 2
      PROVE  /\ input[1].k = "unit" /\ input[2].k = "unit"
             /\ Parses("start", Rest(input, 2))
  <2>1. PICK at \in [0 .. Len(input) -> Places] :
          /\ at[0] = "body2"
          /\ \A i \in 1 .. Len(input) : <<at[i - 1], input[i].k, at[i]>> \in Leads
          /\ \A n \in 0 .. Len(input) : Parses(at[n], Rest(input, n))
    BY <1>2, ParsesRest
  <2>2. /\ <<at[0], input[1].k, at[1]>> \in Leads /\ <<at[1], input[2].k, at[2]>> \in Leads
        /\ Parses(at[2], Rest(input, 2))
    BY <1>2, <2>1
  <2>3. input[1].k = "unit" /\ at[1] = "half"
    BY <2>1, <2>2 DEF Leads
  <2>4. input[2].k = "unit" /\ at[2] = "start"
    BY <2>2, <2>3 DEF Leads
  <2> QED
    BY <2>2, <2>3, <2>4
<1> QED
  BY <1>1, <1>2

(***************************************************************************)
(* Types, and the phases of the reader                                     *)
(***************************************************************************)
\* The client adds whole frames and may cut the last piece when it goes.
LEMMA ClientSound ==
  ASSUME Sound, SendMessage \/ SendMalformed \/ CloseInput \/ BreakOutput
  PROVE  Sound'
<1>1. \A s \in Seq(Pieces) : input \o s \in Seq(Pieces)
  BY ConcatProperties DEF Sound, TypeOK
<1>2. CASE SendMessage
  <2>1. PICK m \in Message :
          /\ Put(Frame(m))
          /\ awaiting' = IF m.method \in Requests THEN awaiting \cup {m.id} ELSE awaiting
          /\ UNCHANGED <<credit, stray, reader, server>>
    BY <1>2 DEF SendMessage
  <2>2. m.method \in Requests => m.id \in Id
    BY DEF Message, Requests, Notifications
  <2>3. input' \in Seq(Pieces) /\ frames' \in 0 .. MaxFrames /\ UNCHANGED <<closed, broken>>
    BY <1>1, <2>1, FramesParse, LoopAssumption DEF Put, Sound, TypeOK
  <2>4. awaiting' \subseteq Id
    BY <2>1, <2>2 DEF Sound, TypeOK
  <2> QED
    BY <2>1, <2>3, <2>4 DEF Sound, TypeOK, PhaseSound, Alive, reader, server
<1>3. CASE SendMalformed
  <2>1. PICK k \in Kinds :
          /\ Put(Malformed(k)) /\ stray' = (stray \/ k \in Unskippable)
          /\ UNCHANGED <<awaiting, credit, reader, server>>
    BY <1>3 DEF SendMalformed
  <2>2. input' \in Seq(Pieces) /\ frames' \in 0 .. MaxFrames /\ UNCHANGED <<closed, broken>>
    BY <1>1, <2>1, FramesParse, LoopAssumption DEF Put, Sound, TypeOK
  <2>3. stray' \in BOOLEAN
    BY <2>1
  <2> QED
    BY <2>1, <2>2, <2>3 DEF Sound, TypeOK, PhaseSound, Alive, reader, server
<1>4. CASE CloseInput
  <2>1. SubSeq(input, 1, Len(input) - 1) \in Seq(Pieces)
    <3>1. \A i \in 1 .. Len(input) - 1 : input[i] \in Pieces
      BY DEF Sound, TypeOK
    <3>2. Len(input) \in Nat
      BY DEF Sound, TypeOK
    <3>3. 1 \in Int /\ Len(input) - 1 \in Int
      BY <3>2
    <3> QED
      BY <3>1, <3>3, SubSeqProperties
  <2>2. <<>> \in Seq(Pieces)
    OBVIOUS
  <2>3. input' \in Seq(Pieces)
    BY <1>4, <2>1, <2>2 DEF CloseInput, Sound, TypeOK
  <2> QED
    BY <1>4, <2>3 DEF CloseInput, Sound, TypeOK, PhaseSound, Alive, reader, server
<1>5. CASE BreakOutput
  BY <1>5 DEF BreakOutput, Sound, TypeOK, PhaseSound, Alive, reader, server
<1> QED
  BY <1>2, <1>3, <1>4, <1>5

LEMMA DropSound ==
  ASSUME input \in Seq(Pieces), NEW n \in 0 .. Len(input), Drop(n)
  PROVE  input' \in Seq(Pieces)
BY RestOfSeq DEF Drop, Rest

\* A skipped message: below the limit the loop reads on, at the limit it ends.
LEMMA TransientSound ==
  ASSUME Sound, Alive, OnTransientError
  PROVE  /\ errors' \in 0 .. MaxErrors /\ length' = 0 /\ scanned' = 0
         /\ \/ phase' = "headers" /\ errors' < MaxErrors
            \/ phase' = "stopped"
BY LoopAssumption DEF Sound, TypeOK, PhaseSound, OnTransientError, StopSilently

LEMMA TransportSound ==
  ASSUME Sound, Transport
  PROVE  Sound'
<1> USE DEF Stop, Lengths
<1>0. input \in Seq(Pieces) /\ Len(input) \in Nat
  BY DEF Sound, TypeOK
<1>1. CASE parse_headers
  <2>1. PICK r \in read_line :
          /\ Drop(r.take)
          /\ \/ r.line = "eof" /\ Stop /\ UNCHANGED <<length, errors, scanned>>
             \/ /\ r.line = "blank" /\ length # 0
                /\ phase' = IF length > MaxMessage THEN "discard" ELSE "body"
                /\ UNCHANGED <<length, errors, scanned>>
             \/ phase' = "resync" /\ length' = 0 /\ scanned' = 0 /\ UNCHANGED errors
             \/ UNCHANGED <<phase, length, errors, scanned>>
             \/ /\ r.line \in DOMAIN Lengths /\ length' = Lengths[r.line]
                /\ UNCHANGED <<phase, errors, scanned>>
    BY <1>1 DEF parse_headers
  <2>2. input' \in Seq(Pieces)
    BY <1>0, <2>1, ReadLineSound, DropSound
  <2>3. r.line \in DOMAIN Lengths => Lengths[r.line] \in 1 .. 2
    OBVIOUS
  <2>4. /\ phase = "headers" /\ buffered = 0
        /\ UNCHANGED <<buffered, message, closed, frames, broken, awaiting, credit, stray, server>>
    BY <1>1 DEF parse_headers
  <2>5. TypeOK' /\ IsFiniteSet(cancelled_ids')
    BY <2>1, <2>2, <2>3, <2>4, LoopAssumption DEF Sound, TypeOK, server
  <2>6. PhaseSound'
    BY <2>1, <2>3, <2>4 DEF Sound, TypeOK, PhaseSound, Alive
  <2> QED
    BY <2>5, <2>6 DEF Sound
<1>2. CASE take_buffered_header
  BY <1>2 DEF take_buffered_header, Unbuffer, Sound, TypeOK, PhaseSound, Alive, client, server
<1>3. CASE connection_closed
  <2>1. <<>> \in Seq(Pieces)
    OBVIOUS
  <2> QED
    BY <1>3, <2>1 DEF connection_closed, Sound, TypeOK, PhaseSound, Alive, server
<1>4. CASE read_body
  <2>1. /\ phase = "body" /\ Len(input) >= length /\ Drop(length)
        /\ UNCHANGED <<buffered, closed, frames, broken, awaiting, credit, stray, server>>
    BY <1>4 DEF read_body, ReadExact
  <2>2. length \in 1 .. 2 /\ buffered = 0
    BY <2>1 DEF Sound, TypeOK, PhaseSound
  <2>3. input' \in Seq(Pieces) /\ input[1] \in Pieces
    BY <1>0, <2>1, <2>2, DropSound
  <2>4. CASE /\ input[1].k = "body"
             /\ phase' = "dispatch" /\ message' = input[1].m
             /\ errors' = 0 /\ length' = 0 /\ UNCHANGED scanned
    <3>1. message' \in Message
      BY <2>3, <2>4, PieceSound
    <3> QED
      BY <2>1, <2>2, <2>3, <2>4, <3>1, LoopAssumption DEF Sound, TypeOK, PhaseSound, Alive, server
  <2>5. CASE OnTransientError /\ UNCHANGED message
    <3>1. /\ errors' \in 0 .. MaxErrors /\ length' = 0 /\ scanned' = 0
          /\ \/ phase' = "headers" /\ errors' < MaxErrors
             \/ phase' = "stopped"
      BY <2>1, <2>5, TransientSound DEF Alive
    <3> QED
      BY <2>1, <2>2, <2>3, <2>5, <3>1, LoopAssumption DEF Sound, TypeOK, PhaseSound, Alive, server
  <2> QED
    BY <1>4, <2>4, <2>5 DEF read_body
<1>5. CASE discard_exact
  <2>1. /\ phase = "discard" /\ Len(input) >= length /\ Drop(length) /\ OnTransientError
        /\ UNCHANGED <<buffered, message, closed, frames, broken, awaiting, credit, stray, server>>
    BY <1>5 DEF discard_exact, ReadExact
  <2>2. length \in 1 .. 2 /\ buffered = 0
    BY <2>1 DEF Sound, TypeOK, PhaseSound
  <2>3. input' \in Seq(Pieces)
    BY <1>0, <2>1, <2>2, DropSound
  <2>4. /\ errors' \in 0 .. MaxErrors /\ length' = 0 /\ scanned' = 0
        /\ \/ phase' = "headers" /\ errors' < MaxErrors
           \/ phase' = "stopped"
    BY <2>1, TransientSound DEF Alive
  <2> QED
    BY <2>1, <2>2, <2>3, <2>4, LoopAssumption DEF Sound, TypeOK, PhaseSound, Alive, server
<1>6. CASE resync_to_next_message
  <2>1. /\ phase = "resync" /\ buffered = 0 /\ length = 0
        /\ UNCHANGED <<message, closed, frames, broken, awaiting, credit, stray, server>>
    BY <1>6 DEF resync_to_next_message, Sound, PhaseSound
  <2>2. CASE scanned = MaxResync /\ Stop /\ UNCHANGED <<input, length, buffered, scanned, errors>>
    BY <2>1, <2>2 DEF Sound, TypeOK, PhaseSound, Alive, server
  <2>3. ASSUME NEW r \in read_line, Drop(r.take), scanned < MaxResync,
               \/ UNCHANGED buffered /\ OnTransientError
               \/ /\ r.line \in DOMAIN Lengths /\ buffered' = Lengths[r.line]
                  /\ OnTransientError
               \/ /\ scanned' = scanned + 1
                  /\ UNCHANGED <<phase, length, buffered, errors>>
        PROVE  Sound'
    <3>1. input' \in Seq(Pieces)
      BY <1>0, <2>3, ReadLineSound, DropSound
    <3>2. r.line \in DOMAIN Lengths => Lengths[r.line] \in 1 .. 2
      OBVIOUS
    <3>3. OnTransientError =>
            /\ errors' \in 0 .. MaxErrors /\ length' = 0 /\ scanned' = 0
            /\ \/ phase' = "headers" /\ errors' < MaxErrors
               \/ phase' = "stopped"
      BY <2>1, TransientSound DEF Alive
    <3>4. scanned' \in 0 .. MaxResync /\ buffered' \in 0 .. 2 /\ length' = 0
      BY <2>1, <2>3, <3>2, <3>3, LoopAssumption DEF Sound, TypeOK
    <3>5. \/ phase' = "headers" /\ errors' < MaxErrors /\ errors' \in 0 .. MaxErrors
          \/ phase' = "stopped" /\ errors' \in 0 .. MaxErrors
          \/ phase' = "resync" /\ buffered' = 0 /\ UNCHANGED errors
      BY <2>1, <2>3, <3>3
    <3>6. TypeOK' /\ IsFiniteSet(cancelled_ids')
      BY <2>1, <3>1, <3>4, <3>5 DEF Sound, TypeOK, server
    <3>7. PhaseSound'
      BY <2>1, <3>4, <3>5 DEF Sound, PhaseSound, Alive
    <3> QED
      BY <3>6, <3>7 DEF Sound
  <2> QED
    BY <1>6, <2>2, <2>3 DEF resync_to_next_message
<1> QED
  BY <1>1, <1>2, <1>3, <1>4, <1>5, <1>6 DEF Transport

\* Every dispatch ends in one step, and the set of cancelled ids keeps its limit.
LEMMA DispatchSound ==
  ASSUME Sound, Dispatch
  PROVE  Sound'
<1> DEFINE Done == /\ phase' \in {"headers", "stopped", "terminated"}
                   /\ message' \in Message \cup {None}
                   /\ ClientQuiet
                   /\ awaiting' \subseteq awaiting
                   /\ initialize_received' \in BOOLEAN /\ initialized' \in BOOLEAN
                   /\ shutdown_requested' \in BOOLEAN /\ exit_code' \in {0, 1}
<1>0. phase = "dispatch"
  BY DEF Dispatch, dispatch_cancelled, IsRequest, dispatch_initialize, dispatch_shutdown,
         dispatch_feature, Uncancelled, dispatch_other, handle_initialized, dispatch_exit, cancel
<1>1. Answer => awaiting' \subseteq awaiting /\ phase' \in {"headers", "terminated"} /\ message' = None
  BY DEF Answer, Continue, WriteFails
<1>2. CASE Done /\ UNCHANGED <<credit, cancelled_ids>>
  BY <1>0, <1>2 DEF ClientQuiet, Sound, TypeOK, PhaseSound, Alive
<1>3. CASE dispatch_cancelled
  <2>1. Done
    BY <1>1, <1>3 DEF dispatch_cancelled, Sound, TypeOK
  <2>2. cancelled_ids' = cancelled_ids \ {message.id} /\ credit' = credit \ {message.id}
    BY <1>3 DEF dispatch_cancelled, ClearCancelled
  <2>3. /\ IsFiniteSet(cancelled_ids') /\ cancelled_ids' \subseteq Id
        /\ Cardinality(cancelled_ids') <= Cardinality(cancelled_ids)
    BY <2>2, FS_Subset DEF Sound, TypeOK
  <2>4. Cardinality(cancelled_ids') <= MaxCancelled
    BY <2>3, FS_CardinalityType, LoopAssumption DEF Sound, TypeOK
  <2> QED
    BY <1>0, <2>1, <2>2, <2>3, <2>4 DEF ClientQuiet, Sound, TypeOK, PhaseSound, Alive
<1>4. CASE dispatch_initialize \/ dispatch_shutdown \/ dispatch_feature
  <2>1. Done /\ UNCHANGED <<credit, cancelled_ids>>
    BY <1>1, <1>4 DEF dispatch_initialize, dispatch_shutdown, dispatch_feature, Uncancelled,
                      Sound, TypeOK
  <2> QED
    BY <1>2, <2>1
<1>5. CASE dispatch_other
  <2>1. Done /\ UNCHANGED <<credit, cancelled_ids>>
    BY <1>5 DEF dispatch_other, Continue, WriteFails, server, Sound, TypeOK
  <2> QED
    BY <1>2, <2>1
<1>6. CASE handle_initialized
  <2>1. Done /\ UNCHANGED <<credit, cancelled_ids>>
    BY <1>6 DEF handle_initialized, Sound, TypeOK
  <2> QED
    BY <1>2, <2>1
<1>7. CASE dispatch_exit
  <2>1. Done /\ UNCHANGED <<credit, cancelled_ids>>
    BY <1>7 DEF dispatch_exit, Stop, Sound, TypeOK
  <2> QED
    BY <1>2, <2>1
<1>8. CASE cancel
  <2> DEFINE all == cancelled_ids \cup {message.id}
  <2>1. Done
    BY <1>8 DEF cancel, Continue, Sound, TypeOK
  <2>2. message.id \in Id
    BY <1>8 DEF cancel, Sound, TypeOK, PhaseSound, Message, Requests, Notifications
  <2>3. credit' \subseteq Id
    BY <1>8, <2>2 DEF cancel, Sound, TypeOK
  <2>4. /\ IsFiniteSet(all) /\ all \subseteq Id /\ Cardinality(all) \in Nat
        /\ Cardinality(all) <= Cardinality(cancelled_ids) + 1
    <3>1. IsFiniteSet(cancelled_ids) /\ cancelled_ids \subseteq Id
      BY DEF Sound, TypeOK
    <3>2. /\ IsFiniteSet(all) /\ Cardinality(cancelled_ids) \in Nat
          /\ Cardinality(all) = IF message.id \in cancelled_ids
                                THEN Cardinality(cancelled_ids) ELSE Cardinality(cancelled_ids) + 1
      BY <3>1, FS_AddElement, FS_CardinalityType
    <3> QED
      BY <2>2, <3>1, <3>2
  <2>5. Cardinality(cancelled_ids) \in Nat /\ Cardinality(cancelled_ids) <= MaxCancelled
    BY FS_CardinalityType DEF Sound, TypeOK
  <2>6. /\ IsFiniteSet(cancelled_ids') /\ cancelled_ids' \subseteq Id
        /\ Cardinality(cancelled_ids') <= MaxCancelled
    <3>1. CASE Cardinality(all) > MaxCancelled
      <4>1. PICK id \in all : cancelled_ids' = all \ {id}
        BY <1>8, <3>1 DEF cancel
      <4>2. IsFiniteSet(all \ {id}) /\ Cardinality(all \ {id}) = Cardinality(all) - 1
        BY <2>4, FS_RemoveElement
      <4> HIDE DEF all
      <4> QED
        BY <2>4, <2>5, <4>1, <4>2, LoopAssumption
    <3>2. CASE ~(Cardinality(all) > MaxCancelled)
      <4>1. cancelled_ids' = all
        BY <1>8, <3>2 DEF cancel
      <4> HIDE DEF all
      <4> QED
        BY <2>4, <3>2, <4>1, LoopAssumption
    <3> QED
      BY <3>1, <3>2
  <2> QED
    BY <1>0, <2>1, <2>3, <2>6 DEF ClientQuiet, Sound, TypeOK, PhaseSound, Alive
<1> QED
  BY <1>3, <1>4, <1>5, <1>6, <1>7, <1>8 DEF Dispatch

\* Every step keeps the types and the bounds.
LEMMA SoundStep ==
  ASSUME Sound, [Next]_vars
  PROVE  Sound'
<1>1. CASE UNCHANGED vars
  BY <1>1 DEF vars, client, reader, server, Sound, TypeOK, PhaseSound, Alive
<1> QED
  BY <1>1, ClientSound, TransportSound, DispatchSound DEF Next, Loop

(***************************************************************************)
(* The reader stays aligned with the frames                                *)
(***************************************************************************)
\* The step takes n pieces and no body among them, but for the one it goes on to
\* dispatch.
Consumes(n) ==
  /\ input' = Rest(input, n)
  /\ \A i \in 1 .. n :
       input[i].k = "body" => i = n /\ phase' = "dispatch" /\ message' = input[i].m

\* Transport: wherever the reader is among whole frames, a step leaves it among
\* whole frames, and the only body it takes is the next message.
LEMMA TransportAligned ==
  ASSUME Sound, ~closed, NEW q \in Places, ReaderAt(q), Parses(q, input), Transport
  PROVE  /\ Alive' => \E p \in Places : ReaderAt(p)' /\ Parses(p, input)'
         /\ \E n \in 0 .. Len(input) : Consumes(n)
<1>0. input \in Seq(Pieces) /\ Len(input) \in Nat
  BY DEF Sound, TypeOK
<1>1. ASSUME phase \in {"headers", "resync"}, NEW r \in read_line, Drop(r.take)
      PROVE  /\ \E n \in 0 .. Len(input) : Consumes(n)
             /\ \E p \in Places : <<q, r.line, p>> \in LineReads /\ Parses(p, input)'
  <2>1. q \in LinePlaces
    BY <1>1 DEF ReaderAt, LinePlaces
  <2>2. /\ r.take \in 1 .. Len(input)
        /\ \A i \in 1 .. r.take : input[i].k # "body"
        /\ \E p \in Places : <<q, r.line, p>> \in LineReads /\ Parses(p, Rest(input, r.take))
    BY <1>0, <1>1, <2>1, LinesKeepBodies
  <2>3. input' = Rest(input, r.take)
    BY <1>1 DEF Drop, Rest
  <2>4. Consumes(r.take) /\ r.take \in 0 .. Len(input)
    BY <2>2, <2>3 DEF Consumes
  <2>5. PICK p \in Places : <<q, r.line, p>> \in LineReads /\ Parses(p, Rest(input, r.take))
    BY <2>2
  <2>6. Parses(p, input)' <=> Parses(p, input')
    BY DEF Parses
  <2> QED
    BY <2>3, <2>4, <2>5, <2>6
<1>2. CASE parse_headers
  <2>1. PICK r \in read_line :
          /\ Drop(r.take)
          /\ \/ r.line = "eof"
             \/ /\ r.line = "blank" /\ length # 0
                /\ phase' = IF length > MaxMessage THEN "discard" ELSE "body"
                /\ UNCHANGED length
             \/ /\ r.line = "too_long" \/ (r.line = "blank" /\ length = 0)
                /\ phase' = "resync" /\ length' = 0
             \/ /\ r.line \in {"header", "line", "text"}
                /\ UNCHANGED <<phase, length>>
             \/ /\ r.line \in DOMAIN Lengths /\ length' = Lengths[r.line]
                /\ UNCHANGED phase
    BY <1>2 DEF parse_headers
  <2>2. phase = "headers" /\ buffered = 0 /\ buffered' = 0
    BY <1>2 DEF parse_headers
  <2>3. /\ \E n \in 0 .. Len(input) : Consumes(n)
        /\ \E p \in Places : <<q, r.line, p>> \in LineReads /\ Parses(p, input)'
    BY <1>1, <2>1, <2>2
  <2>4. PICK p \in Places : <<q, r.line, p>> \in LineReads /\ Parses(p, input)'
    BY <2>3
  <2>5. \/ length = 0 /\ q \in {"start", "header"}
        \/ length = 1 /\ q = "length1"
        \/ length = 2 /\ q = "length2"
    BY <2>2 DEF ReaderAt, Sound, TypeOK
  <2>6. ReaderAt(p)'
    <3>1. CASE r.line = "blank" /\ length # 0
      <4>1. \/ length = 1 /\ p = "body1"
            \/ length = 2 /\ p = "body2"
        BY <2>4, <2>5, <3>1 DEF LineReads
      <4>2. /\ phase' = IF length > MaxMessage THEN "discard" ELSE "body"
            /\ length' = length
        BY <2>1, <3>1 DEF Lengths
      <4>3. length = 1 => phase' = "body"
        BY <4>2, LoopAssumption
      <4> QED
        BY <4>1, <4>2, <4>3 DEF ReaderAt
    <3>2. CASE r.line = "too_long" \/ (r.line = "blank" /\ length = 0)
      <4>1. p \in {"start", "headless", "overlong"}
        BY <2>4, <2>5, <3>2 DEF LineReads
      <4>2. phase' = "resync"
        BY <2>1, <3>2 DEF Lengths
      <4> QED
        BY <4>1, <4>2 DEF ReaderAt
    <3>3. CASE r.line \in {"header", "line", "text"}
      <4>1. p \in {"start", "header"} /\ length = 0
        BY <2>4, <2>5, <3>3 DEF LineReads
      <4>2. UNCHANGED <<phase, length>>
        BY <2>1, <3>3 DEF Lengths
      <4> QED
        BY <2>2, <4>1, <4>2 DEF ReaderAt
    <3>4. CASE r.line \in DOMAIN Lengths
      <4>1. \/ r.line = "length1" /\ p = "length1"
            \/ r.line = "length2" /\ p = "length2"
        BY <2>4, <3>4 DEF LineReads, Lengths
      <4>2. length' = Lengths[r.line] /\ UNCHANGED phase
        BY <2>1, <3>4 DEF Lengths
      <4> QED
        BY <2>2, <4>1, <4>2 DEF ReaderAt, Lengths
    <3>5. r.line # "eof"
      BY <2>4 DEF LineReads
    <3> QED
      BY <2>1, <3>1, <3>2, <3>3, <3>4, <3>5
  <2> QED
    BY <2>3, <2>4, <2>6
<1>3. ASSUME UNCHANGED input
      PROVE  Consumes(0) /\ 0 \in 0 .. Len(input) /\ (Parses(q, input)' <=> Parses(q, input))
  <2>1. Rest(input, 0) = input
    BY <1>0, SubSeqFull DEF Rest
  <2> QED
    BY <1>0, <1>3, <2>1 DEF Consumes, Parses
<1>4. CASE take_buffered_header
  <2>1. ReaderAt(q)'
    BY <1>4 DEF take_buffered_header, Unbuffer, ReaderAt, Sound, PhaseSound, TypeOK
  <2> QED
    BY <1>3, <1>4, <2>1 DEF take_buffered_header, client
<1>5. CASE connection_closed
  BY <1>5 DEF connection_closed
<1>6. ASSUME NEW n \in 1 .. 2, n <= Len(input), Drop(n), Parses("start", Rest(input, n)),
             n = 2 => input[1].k # "body", input[n].k = "body" => phase' = "dispatch" /\ message' = input[n].m,
             Alive' => phase' \in {"headers", "dispatch"}, length' = 0, buffered' = 0
      PROVE  /\ Alive' => \E p \in Places : ReaderAt(p)' /\ Parses(p, input)'
             /\ \E m \in 0 .. Len(input) : Consumes(m)
  <2>1. input' = Rest(input, n)
    BY <1>6 DEF Drop, Rest
  <2>2. Consumes(n) /\ n \in 0 .. Len(input)
    BY <1>0, <1>6, <2>1 DEF Consumes
  <2>3. Parses("start", input)'
    BY <1>6, <2>1 DEF Parses
  <2>4. Alive' => ReaderAt("start")'
    BY <1>6 DEF ReaderAt
  <2> QED
    BY <2>2, <2>3, <2>4 DEF Places
<1>7. CASE read_body
  <2>1. /\ phase = "body" /\ Len(input) >= length /\ Drop(length) /\ buffered' = buffered
        /\ \/ input[1].k = "body" /\ phase' = "dispatch" /\ message' = input[1].m /\ length' = 0
           \/ input[1].k # "body" /\ OnTransientError
    BY <1>7 DEF read_body, ReadExact
  <2>2. length' = 0 /\ buffered' = 0 /\ (Alive' => phase' \in {"headers", "dispatch"})
    BY <2>1 DEF OnTransientError, StopSilently, Alive, Sound, PhaseSound
  <2>3. CASE length = 1
    <3>1. Parses("start", Rest(input, 1))
      BY <1>0, <2>1, <2>3, BodiesParse DEF ReaderAt
    <3> QED
      BY <1>6, <2>1, <2>2, <2>3, <3>1
  <2>4. CASE length = 2
    <3>1. input[1].k = "unit" /\ input[2].k = "unit" /\ Parses("start", Rest(input, 2))
      BY <1>0, <2>1, <2>4, BodiesParse DEF ReaderAt
    <3> QED
      BY <1>6, <2>1, <2>2, <2>4, <3>1
  <2> QED
    BY <2>1, <2>3, <2>4 DEF Sound, TypeOK, PhaseSound
<1>8. CASE discard_exact
  <2>1. phase = "discard" /\ Len(input) >= length /\ Drop(length) /\ buffered' = buffered /\ OnTransientError
    BY <1>8 DEF discard_exact, ReadExact
  <2>2. length' = 0 /\ buffered' = 0 /\ (Alive' => phase' \in {"headers", "dispatch"})
    BY <2>1 DEF OnTransientError, StopSilently, Alive, Sound, PhaseSound
  <2>3. length = 2 /\ q = "body2"
    BY <2>1 DEF ReaderAt
  <2>4. input[1].k = "unit" /\ input[2].k = "unit" /\ Parses("start", Rest(input, 2))
    BY <1>0, <2>1, <2>3, BodiesParse
  <2> QED
    BY <1>6, <2>1, <2>2, <2>3, <2>4
<1>9. CASE resync_to_next_message
  <2>1. phase = "resync" /\ buffered = 0 /\ length = 0
    BY <1>9 DEF resync_to_next_message, Sound, PhaseSound
  <2>2. CASE Stop /\ UNCHANGED input
    BY <1>3, <2>2 DEF Stop, Alive
  <2>3. ASSUME NEW r \in read_line, Drop(r.take),
               \/ r.line = "eof"
               \/ /\ r.line \in DOMAIN Lengths /\ buffered' = Lengths[r.line]
                  /\ OnTransientError
               \/ /\ r.line \notin {"eof"} \cup DOMAIN Lengths
                  /\ UNCHANGED phase
        PROVE  /\ Alive' => \E p \in Places : ReaderAt(p)' /\ Parses(p, input)'
               /\ \E n \in 0 .. Len(input) : Consumes(n)
    <3>1. /\ \E n \in 0 .. Len(input) : Consumes(n)
          /\ \E p \in Places : <<q, r.line, p>> \in LineReads /\ Parses(p, input)'
      BY <1>1, <2>1, <2>3
    <3>2. PICK p \in Places : <<q, r.line, p>> \in LineReads /\ Parses(p, input)'
      BY <3>1
    <3>3. Alive' => ReaderAt(p)'
      <4>1. r.line # "eof"
        BY <3>2 DEF LineReads
      <4>2. CASE r.line \in DOMAIN Lengths
        <5>1. \/ r.line = "length1" /\ p = "length1"
              \/ r.line = "length2" /\ p = "length2"
          BY <3>2, <4>2 DEF LineReads, Lengths
        <5>2. buffered' = Lengths[r.line] /\ (Alive' => phase' = "headers")
          BY <2>3, <4>1, <4>2 DEF OnTransientError, StopSilently, Alive
        <5> QED
          BY <5>1, <5>2 DEF ReaderAt, Lengths
      <4>3. CASE r.line \notin DOMAIN Lengths
        <5>1. p \in {"start", "header", "headless", "overlong"}
          BY <2>1, <3>2, <4>3 DEF LineReads, Lengths, ReaderAt
        <5>2. phase' = "resync"
          BY <2>1, <2>3, <4>1, <4>3
        <5> QED
          BY <5>1, <5>2 DEF ReaderAt
      <4> QED
        BY <4>2, <4>3
    <3> QED
      BY <3>1, <3>2, <3>3
  <2> QED
    BY <1>9, <2>2, <2>3 DEF resync_to_next_message
<1> QED
  BY <1>2, <1>4, <1>5, <1>7, <1>8, <1>9 DEF Transport

\* Every step keeps the reader aligned: frames are added whole, the transport
\* reads on, and a dispatch leaves the stream alone.
LEMMA AlignedStep ==
  ASSUME Sound, Aligned, Next, ~closed', ~stray', Alive'
  PROVE  \E q \in Places : ReaderAt(q)' /\ Parses(q, input)'
<1>1. input \in Seq(Pieces)
  BY DEF Sound, TypeOK
<1>2. ASSUME ~closed, ~stray, Alive, UNCHANGED <<phase, length, buffered>>,
             NEW s \in Seq(Pieces), Parses("start", s), input' = input \o s
      PROVE  \E q \in Places : ReaderAt(q)' /\ Parses(q, input)'
  <2>1. PICK q \in Places : ReaderAt(q) /\ Parses(q, input)
    BY <1>2 DEF Aligned
  <2>2. Parses(q, input \o s)
    BY <1>1, <1>2, <2>1, ParsesConcat
  <2>3. Parses(q, input)'
    BY <1>2, <2>2 DEF Parses
  <2>4. ReaderAt(q)'
    BY <1>2, <2>1 DEF ReaderAt
  <2> QED
    BY <2>3, <2>4
<1>3. CASE SendMessage
  <2>1. PICK m \in Message : Put(Frame(m)) /\ UNCHANGED <<stray, reader>>
    BY <1>3 DEF SendMessage
  <2> QED
    BY <1>2, <2>1, FramesParse DEF Put, reader, Alive
<1>4. CASE SendMalformed
  <2>1. PICK k \in Kinds : /\ Put(Malformed(k)) /\ stray' = (stray \/ k \in Unskippable)
                           /\ UNCHANGED reader
    BY <1>4 DEF SendMalformed
  <2>2. ~stray /\ k \in Kinds \ Unskippable
    BY <2>1
  <2> QED
    BY <1>2, <2>1, <2>2, FramesParse DEF Put, reader, Alive
<1>5. CASE CloseInput
  BY <1>5 DEF CloseInput
<1>6. CASE BreakOutput
  <2>1. PICK q \in Places : ReaderAt(q) /\ Parses(q, input)
    BY <1>6 DEF BreakOutput, Aligned, Alive, reader
  <2> QED
    BY <1>6, <2>1 DEF BreakOutput, ReaderAt, Parses, reader
<1>7. CASE Transport
  <2>1. UNCHANGED <<closed, stray>> /\ Alive
    BY <1>7 DEF Transport, parse_headers, take_buffered_header, connection_closed, read_body,
                discard_exact, resync_to_next_message, client, Alive
  <2>2. PICK q \in Places : ReaderAt(q) /\ Parses(q, input)
    BY <2>1 DEF Aligned
  <2> QED
    BY <1>7, <2>1, <2>2, TransportAligned
<1>8. CASE Dispatch
  <2>1. phase = "dispatch" /\ ClientQuiet
    BY <1>8 DEF Dispatch, dispatch_cancelled, IsRequest, dispatch_initialize, dispatch_shutdown,
           dispatch_feature, Uncancelled, dispatch_other, handle_initialized, dispatch_exit, cancel
  <2>2. phase' \in {"headers", "stopped", "terminated"}
    BY <1>8 DEF Dispatch, dispatch_cancelled, dispatch_initialize, dispatch_shutdown, dispatch_feature,
           dispatch_other, handle_initialized, dispatch_exit, cancel, Answer, Continue, WriteFails, Stop
  <2>3. PICK q \in Places : ReaderAt(q) /\ Parses(q, input)
    BY <2>1 DEF Aligned, Alive, ClientQuiet
  <2>4. q = "start" /\ length = 0 /\ buffered = 0
    BY <2>1, <2>3 DEF ReaderAt, Sound, PhaseSound
  <2>5. ReaderAt(q)'
    BY <2>1, <2>2, <2>4 DEF ReaderAt, Alive, ClientQuiet
  <2>6. Parses(q, input)'
    BY <2>1, <2>3 DEF Parses, ClientQuiet
  <2> QED
    BY <2>5, <2>6
<1> QED
  BY <1>3, <1>4, <1>5, <1>6, <1>7, <1>8 DEF Next, Loop

(***************************************************************************)
(* Requests and cancellations                                              *)
(***************************************************************************)
\* A request leaves the stream to be dispatched, and a dispatch answers it.
LEMMA RequestsKeptStep ==
  ASSUME IInv, Next
  PROVE  RequestsKept'
<1> SUFFICES ASSUME Alive', ~stray', ~closed', ~broken', NEW id \in awaiting'
             PROVE  InInput(id)' \/ BeingServed(id)'
  BY DEF RequestsKept
<1>0. input \in Seq(Pieces) /\ Len(input) \in Nat
  BY DEF IInv, Sound, TypeOK
<1>1. ASSUME NEW s \in Seq(Pieces), input' = input \o s
      PROVE  InInput(id) => InInput(id)'
  <2>1. /\ DOMAIN input' = 1 .. Len(input) + Len(s)
        /\ \A i \in 1 .. Len(input) : input'[i] = input[i] /\ i \in DOMAIN input'
    BY <1>0, <1>1, ConcatProperties
  <2> QED
    BY <1>0, <2>1 DEF InInput
<1>2. ASSUME ~stray, ~closed, ~broken, Alive, id \in awaiting
      PROVE  InInput(id) \/ BeingServed(id)
  BY <1>2 DEF IInv, RequestsKept
<1>3. CASE SendMessage
  <2>1. PICK m \in Message :
          /\ Put(Frame(m)) /\ UNCHANGED <<stray, reader>>
          /\ awaiting' = IF m.method \in Requests THEN awaiting \cup {m.id} ELSE awaiting
    BY <1>3 DEF SendMessage
  <2>2. Frame(m) \in Seq(Pieces) /\ input' = input \o Frame(m)
    BY <2>1, FramesParse DEF Put
  <2>3. CASE id \in awaiting
    BY <1>1, <1>2, <2>1, <2>2, <2>3 DEF Put, reader, Alive, BeingServed
  <2>4. CASE id \notin awaiting
    <3>1. m.method \in Requests /\ m.id = id
      BY <2>1, <2>4
    <3>2. Len(Frame(m)) = 3 /\ Frame(m)[3].m = m
      BY DEF Frame, Piece
    <3>3. /\ Len(input') = Len(input) + 3
          /\ input'[Len(input) + 3] = Frame(m)[3]
      <4>1. /\ Len(input') = Len(input) + 3
            /\ \A i \in 1 .. Len(input) + 3 :
                 input'[i] = IF i <= Len(input) THEN input[i] ELSE Frame(m)[i - Len(input)]
        <5>1. /\ Len(input \o Frame(m)) = Len(input) + Len(Frame(m))
              /\ \A i \in 1 .. Len(input) + Len(Frame(m)) :
                   (input \o Frame(m))[i]
                     = IF i <= Len(input) THEN input[i] ELSE Frame(m)[i - Len(input)]
          BY <1>0, <2>2, ConcatProperties
        <5> QED
          BY <2>2, <3>2, <5>1
      <4>2. Len(input) + 3 \in 1 .. Len(input) + 3 /\ Len(input) + 3 - Len(input) = 3
        BY <1>0
      <4>3. ~(Len(input) + 3 <= Len(input))
        BY <1>0
      <4> QED
        BY <4>1, <4>2, <4>3
    <3>4. input' \in Seq(Pieces)
      BY <1>0, <2>2, ConcatProperties
    <3>5. Len(input) + 3 \in DOMAIN input'
      BY <1>0, <3>3, <3>4
    <3> QED
      BY <3>1, <3>2, <3>3, <3>5 DEF InInput
  <2> QED
    BY <2>3, <2>4
<1>4. CASE SendMalformed
  <2>1. PICK k \in Kinds : /\ Put(Malformed(k)) /\ stray' = (stray \/ k \in Unskippable)
                           /\ UNCHANGED <<awaiting, reader>>
    BY <1>4 DEF SendMalformed
  <2> QED
    BY <1>1, <1>2, <2>1, FramesParse DEF Put, reader, Alive, BeingServed
<1>5. CASE CloseInput
  BY <1>5 DEF CloseInput
<1>6. CASE BreakOutput
  BY <1>6 DEF BreakOutput
<1>7. CASE Transport
  <2>1. UNCHANGED <<closed, stray, broken, awaiting>> /\ Alive /\ phase # "dispatch"
    BY <1>7 DEF Transport, parse_headers, take_buffered_header, connection_closed, read_body,
                discard_exact, resync_to_next_message, client, Alive
  <2>2. InInput(id)
    BY <1>2, <2>1 DEF BeingServed
  <2>3. PICK q \in Places : ReaderAt(q) /\ Parses(q, input)
    BY <2>1 DEF IInv, Aligned
  <2>4. PICK n \in 0 .. Len(input) : Consumes(n)
    BY <1>7, <2>1, <2>3, TransportAligned DEF IInv
  <2>5. CASE \E i \in 1 .. n : /\ input[i].k = "body" /\ input[i].m.method \in Requests
                               /\ input[i].m.id = id
    BY <2>4, <2>5 DEF Consumes, BeingServed
  <2>6. CASE ~\E i \in 1 .. n : /\ input[i].k = "body" /\ input[i].m.method \in Requests
                                /\ input[i].m.id = id
    BY <1>0, <2>2, <2>4, <2>6, RequestsStay DEF Consumes
  <2> QED
    BY <2>5, <2>6
<1>8. CASE Dispatch
  <2>1. phase = "dispatch" /\ ClientQuiet
    BY <1>8 DEF Dispatch, dispatch_cancelled, IsRequest, dispatch_initialize, dispatch_shutdown,
           dispatch_feature, Uncancelled, dispatch_other, handle_initialized, dispatch_exit, cancel
  <2>2. message.method \in Requests => awaiting' = awaiting \ {message.id}
    BY <1>8, <2>1 DEF Dispatch, dispatch_cancelled, dispatch_initialize, dispatch_shutdown,
           dispatch_feature, dispatch_other, handle_initialized, dispatch_exit, cancel,
           Answer, WriteFails, ClientQuiet, Uncancelled, Requests
  <2>3. awaiting' \subseteq awaiting
    BY <1>8 DEF Dispatch, dispatch_cancelled, dispatch_initialize, dispatch_shutdown,
           dispatch_feature, dispatch_other, handle_initialized, dispatch_exit, cancel, Answer
  <2>4. InInput(id) \/ BeingServed(id)
    BY <1>2, <2>1, <2>3 DEF ClientQuiet, Alive
  <2>5. ~BeingServed(id)
    BY <2>2 DEF BeingServed
  <2> QED
    BY <2>1, <2>4, <2>5 DEF ClientQuiet, InInput
<1> QED
  BY <1>3, <1>4, <1>5, <1>6, <1>7, <1>8 DEF Next, Loop

\* An id leaves the credit only together with the set of cancelled ids.
LEMMA CancelsOnceStep ==
  ASSUME CancelsOnce, Next
  PROVE  CancelsOnce'
<1>1. CASE dispatch_cancelled
  BY <1>1 DEF dispatch_cancelled, ClearCancelled, CancelsOnce
<1>2. CASE cancel
  BY <1>2 DEF cancel, CancelsOnce
<1>3. CASE UNCHANGED <<credit, cancelled_ids>>
  BY <1>3 DEF CancelsOnce
<1>4. Next => dispatch_cancelled \/ cancel \/ UNCHANGED <<credit, cancelled_ids>>
  <2>1. SendMessage \/ SendMalformed \/ CloseInput \/ BreakOutput => UNCHANGED <<credit, cancelled_ids>>
    BY DEF SendMessage, SendMalformed, CloseInput, BreakOutput, server
  <2>2. Transport => UNCHANGED <<credit, cancelled_ids>>
    BY DEF Transport, parse_headers, take_buffered_header, connection_closed, read_body,
           discard_exact, resync_to_next_message, client, server
  <2>3. Dispatch => dispatch_cancelled \/ cancel \/ UNCHANGED <<credit, cancelled_ids>>
    BY DEF Dispatch, dispatch_initialize, dispatch_shutdown, dispatch_feature, Uncancelled,
           dispatch_other, handle_initialized, dispatch_exit, server
  <2> QED
    BY <2>1, <2>2, <2>3 DEF Next, Loop
<1> QED
  BY <1>1, <1>2, <1>3, <1>4

LEMMA IInvInit ==
  Init => IInv
<1> SUFFICES ASSUME Init PROVE IInv
  OBVIOUS
<1>1. input = <<>> /\ <<>> \in Seq(Pieces) /\ Len(input) = 0
  BY DEF Init
<1>2. IsFiniteSet(cancelled_ids) /\ Cardinality(cancelled_ids) = 0
  BY FS_EmptySet DEF Init
<1>3. Sound
  <2>1. input \in Seq(Pieces) /\ Cardinality(cancelled_ids) <= MaxCancelled
    BY <1>1, <1>2, LoopAssumption
  <2>2. TypeOK
    <3>1. /\ frames \in 0 .. MaxFrames /\ scanned \in 0 .. MaxResync /\ errors \in 0 .. MaxErrors
          /\ length \in 0 .. 2 /\ buffered \in 0 .. 2
      BY LoopAssumption DEF Init
    <3> QED
      BY <2>1, <3>1 DEF Init, TypeOK
  <2>3. PhaseSound
    BY LoopAssumption DEF Init, PhaseSound, Alive
  <2> QED
    BY <1>2, <2>2, <2>3 DEF Sound
<1>4. Parses("start", input)
  <2> DEFINE at == [i \in 0 .. 0 |-> "start"]
  <2>1. at \in [0 .. Len(input) -> Places] /\ at[0] = "start"
    BY <1>1 DEF Places
  <2> HIDE DEF at
  <2> QED
    BY <1>1, <2>1 DEF Parses
<1>5. Aligned
  BY <1>4 DEF Init, Aligned, ReaderAt, Places
<1> QED
  BY <1>3, <1>5 DEF Init, IInv, RequestsKept, CancelsOnce

LEMMA IInvStep ==
  IInv /\ [Next]_vars => IInv'
<1> SUFFICES ASSUME IInv, [Next]_vars PROVE IInv'
  OBVIOUS
<1>1. CASE UNCHANGED vars
  BY <1>1, SoundStep DEF vars, client, reader, server, IInv, Aligned, RequestsKept, CancelsOnce,
     Alive, ReaderAt, Parses, InInput, BeingServed
<1>2. CASE Next
  <2>1. Sound'
    BY SoundStep DEF IInv
  <2>2. Aligned'
    BY <1>2, AlignedStep DEF IInv, Aligned
  <2>3. RequestsKept'
    BY <1>2, RequestsKeptStep
  <2>4. CancelsOnce'
    BY <1>2, CancelsOnceStep DEF IInv
  <2> QED
    BY <2>1, <2>2, <2>3, <2>4 DEF IInv
<1> QED
  BY <1>1, <1>2

\* LspServer::run: whenever the loop reads, every request it has read has been
\* answered, and one $/cancelRequest stops at most one request, for any number
\* of ids, frames and limits.
THEOREM RequestsServed == Spec => []RequestsServedOnce
<1>1. IInv => RequestsServedOnce
  BY DEF IInv, Sound, RequestsServedOnce, EveryRequestAnswered, RequestsKept, Reading, Alive, BeingServed
<1> QED
  BY <1>1, IInvInit, IInvStep, PTL DEF Spec

\* Transport::read_message: as long as no Unskippable frame was sent, what the
\* transport skips never costs a message that was sent whole.
THEOREM FramesKept == Spec => NoFrameLost
<1>1. IInv /\ [Next]_vars => [~stray => LosesNoFrame]_vars
  <2> SUFFICES ASSUME IInv, Next, ~stray, Reading, ~closed', Len(input') < Len(input)
               PROVE  Lossless(Len(input) - Len(input'))
    BY DEF LosesNoFrame
  <2>1. input \in Seq(Pieces) /\ Len(input) \in Nat
    BY DEF IInv, Sound, TypeOK
  <2>2. \A s \in Seq(Pieces) : input' = input \o s => ~(Len(input') < Len(input))
    BY <2>1, ConcatProperties
  <2>3. ~(SendMessage \/ SendMalformed)
    BY <2>2, FramesParse DEF SendMessage, SendMalformed, Put
  <2>4. ~CloseInput /\ ~BreakOutput
    BY <2>1 DEF CloseInput, BreakOutput
  <2>5. ~Dispatch
    BY DEF Reading, Dispatch, dispatch_cancelled, IsRequest, dispatch_initialize, dispatch_shutdown,
           dispatch_feature, Uncancelled, dispatch_other, handle_initialized, dispatch_exit, cancel
  <2>6. Transport
    BY <2>3, <2>4, <2>5 DEF Next, Loop
  <2>7. ~closed
    BY <2>6 DEF Transport, parse_headers, take_buffered_header, connection_closed, read_body,
                discard_exact, resync_to_next_message, client
  <2>8. PICK q \in Places : ReaderAt(q) /\ Parses(q, input)
    BY <2>7 DEF IInv, Aligned, Reading, Alive
  <2>9. PICK n \in 0 .. Len(input) : Consumes(n)
    BY <2>6, <2>7, <2>8, TransportAligned DEF IInv
  <2>10. Len(input) - Len(input') = n
    BY <2>1, <2>9, RestOfSeq DEF Consumes
  <2> QED
    BY <2>9, <2>10 DEF Consumes, Lossless
<1> QED
  BY <1>1, IInvInit, IInvStep, PTL DEF Spec, NoFrameLost
=============================================================================
