----------------------- MODULE ProviderAdapterProofs -----------------------
(***************************************************************************)
(* Proofs about the stream of ProviderAdapter, for any answers, any size   *)
(* of the channel, and any reader.                                         *)
(***************************************************************************)
EXTENDS ProviderAdapter, TLAPS

-----------------------------------------------------------------------------
(* Sequences.                                                              *)

LEMMA Indices == ASSUME NEW S, NEW s \in Seq(S) PROVE Len(s) \in Nat /\ DOMAIN s = 1 .. Len(s)
OBVIOUS

LEMMA After ==
  ASSUME NEW S, NEW s \in Seq(S), NEW x \in S, NEW t, t = <<x>> \o s
  PROVE  /\ t \in Seq(S) /\ Len(t) = Len(s) + 1 /\ t[1] = x
         /\ \A i \in 1 .. Len(s) : t[i + 1] = s[i]
OBVIOUS

LEMMA Before ==
  ASSUME NEW S, NEW s \in Seq(S), NEW y \in S, NEW z \in S, NEW t, t = s \o <<y, z>>
  PROVE  /\ t \in Seq(S) /\ Len(t) = Len(s) + 2
         /\ t[Len(s) + 1] = y /\ t[Len(s) + 2] = z
         /\ \A i \in 1 .. Len(s) : t[i] = s[i]
OBVIOUS

LEMMA Vacant == ASSUME NEW S, NEW s \in Seq(S), s # <<>> PROVE Len(s) # 0
OBVIOUS

\* What moves from the channel to the reader stays where it is among what
\* was sent, and what is sent comes last.
LEMMA Moved ==
  ASSUME NEW S, NEW d \in Seq(S), NEW b \in Seq(S), b # <<>>
  PROVE  /\ Append(d, Head(b)) \o Tail(b) = d \o b
         /\ Append(d, Head(b)) \in Seq(S) /\ Tail(b) \in Seq(S)
         /\ Len(Tail(b)) < Len(b)
<1>1. Append(d, Head(b)) \o Tail(b) \in Seq(S) /\ d \o b \in Seq(S)
  OBVIOUS
<1>2. Len(Append(d, Head(b)) \o Tail(b)) = Len(d \o b)
  OBVIOUS
<1>3. \A i \in 1 .. Len(d \o b) : (Append(d, Head(b)) \o Tail(b))[i] = (d \o b)[i]
  OBVIOUS
<1>4. QED  BY <1>1, <1>2, <1>3

LEMMA Sending ==
  ASSUME NEW S, NEW d \in Seq(S), NEW b \in Seq(S), NEW x \in S
  PROVE  /\ d \o Append(b, x) = Append(d \o b, x)
         /\ d \o b \in Seq(S) /\ Append(b, x) \in Seq(S)
<1>1. d \o Append(b, x) \in Seq(S) /\ Append(d \o b, x) \in Seq(S)
  OBVIOUS
<1>2. Len(d \o Append(b, x)) = Len(Append(d \o b, x))
  OBVIOUS
<1>3. \A i \in 1 .. Len(Append(d \o b, x)) : (d \o Append(b, x))[i] = Append(d \o b, x)[i]
  OBVIOUS
<1>4. QED  BY <1>1, <1>2, <1>3

-----------------------------------------------------------------------------
(* The lines of a stream.                                                  *)

\* The part i of an answer, 0 where there is none.
PartAt(a, i) == IF i \in 1 .. Len(a.parts) THEN Part(a, i) ELSE 0

LEMMA AnswerType ==
  ASSUME NEW a \in Answers
  PROVE  /\ Len(a.parts) \in Nat /\ DOMAIN a.parts = 1 .. Len(a.parts)
         /\ a.stop \in {"stop", "length"} /\ a.in \in Nat /\ a.out \in Nat
<1>1. a \in [parts : Seq({"", "text"}), stop : {"stop", "length"}, in : Nat, out : Nat]
  BY AnswersAssumption, Zenon
<1>2. a.parts \in Seq({"", "text"})
  BY <1>1
<1>3. a.stop \in {"stop", "length"}
  BY <1>1
<1>4. a.in \in Nat /\ a.out \in Nat
  BY <1>1
<1>5. Len(a.parts) \in Nat /\ DOMAIN a.parts = 1 .. Len(a.parts)
  BY <1>2, Indices, Zenon
<1>6. QED  BY <1>3, <1>4, <1>5

LEMMA PartType ==
  ASSUME NEW a \in Answers, NEW i
  PROVE  PartAt(a, i) \in Nat /\ (i \notin 1 .. Len(a.parts) => PartAt(a, i) = 0)
<1>1. i \in 1 .. Len(a.parts) => i \in Nat
  BY AnswerType
<1>2. Part(a, i) = 0 \/ Part(a, i) = i
  BY Zenon DEF Part
<1>3. QED  BY <1>1, <1>2 DEF PartAt

LEMMA DeltaEvent ==
  ASSUME NEW part \in Nat, NEW finish \in Finishes, NEW usage \in Usages
  PROVE  LET e == Event("delta", part, finish, usage)
         IN  e \in Events /\ e.type = "delta" /\ e.part = part /\ e.usage = usage
BY DEF Event, Events, Finishes

LEMMA UsageType ==
  ASSUME NEW m \in Nat, NEW n \in Nat
  PROVE  [in |-> m, out |-> n] \in Usages /\ NoUsage \in Usages
BY DEF Usages, NoUsage

LEMMA DeltaType ==
  ASSUME NEW a \in Answers, NEW i \in 1 .. Len(a.parts)
  PROVE  /\ Delta(a, i) \in Events /\ Delta(a, i).type = "delta"
         /\ Delta(a, i).part = PartAt(a, i)
<1>1. PartAt(a, i) \in Nat /\ NoUsage \in Usages
  BY AnswerType, UsageType, PartType
<1>2. Delta(a, i) = Event("delta", PartAt(a, i), "", NoUsage)
  BY DEF Delta, PartAt
<1>3. "" \in Finishes
  BY DEF Finishes
<1> DEFINE part == PartAt(a, i)
           e == Event("delta", part, "", NoUsage)
<1>4. part \in Nat
  BY <1>1
<1> HIDE DEF part
<1>5. e \in Events /\ e.type = "delta" /\ e.part = part
  BY <1>1, <1>3, <1>4 DEF Event, Events
<1>6. Delta(a, i) = e
  BY <1>2 DEF part
<1> HIDE DEF e
<1>7. QED  BY <1>5, <1>6 DEF part

LEMMA DeltasType ==
  ASSUME NEW a \in Answers
  PROVE  /\ Deltas(a) \in Seq(Events) /\ Len(Deltas(a)) = Len(a.parts)
         /\ \A i \in 1 .. Len(a.parts) : Deltas(a)[i] = Delta(a, i)
<1>1. DOMAIN a.parts = 1 .. Len(a.parts) /\ Len(a.parts) \in Nat
  BY AnswerType
<1>2. \A i \in 1 .. Len(a.parts) : Delta(a, i) \in Events
  BY DeltaType
<1>3. QED  BY <1>1, <1>2 DEF Deltas

\* What the proofs need to know of the lines of a stream.
LEMMA OpenAILines ==
  ASSUME NEW a \in Answers, NEW L, L = Lines("openai", a)
  PROVE  /\ L \in Seq(Events) /\ Len(L) = Len(a.parts) + 2
         /\ \A i \in 1 .. Len(L) : L[i].part = PartAt(a, i)
         /\ \A i \in 1 .. Len(L) : L[i].type = "done" => L[i].part = 0
<1> DEFINE y == Event("delta", 0, a.stop, NoUsage)
           z == Event("done", 0, "", NoUsage)
           n == Len(a.parts)
<1>1. /\ y \in Events /\ y.type = "delta" /\ y.part = 0
      /\ z \in Events /\ z.part = 0
  BY AnswerType, UsageType DEF Event, Events, Finishes
<1>2. L = Deltas(a) \o <<y, z>>
  BY DEF Lines
<1>3. Deltas(a) \in Seq(Events) /\ Len(Deltas(a)) = n /\ n \in Nat
  BY DeltasType, AnswerType
<1> HIDE DEF y, z
<1>4. /\ L \in Seq(Events) /\ Len(L) = n + 2
      /\ \A i \in 1 .. n : L[i] = Deltas(a)[i]
      /\ L[n + 1] = y /\ L[n + 2] = z
  <2>1. /\ L \in Seq(Events) /\ Len(L) = Len(Deltas(a)) + 2
        /\ \A i \in 1 .. Len(Deltas(a)) : L[i] = Deltas(a)[i]
        /\ L[Len(Deltas(a)) + 1] = y /\ L[Len(Deltas(a)) + 2] = z
    <3> DEFINE d == Deltas(a)
    <3>1. d \in Seq(Events) /\ L = d \o <<y, z>>
      BY <1>2, <1>3
    <3> HIDE DEF d
    <3>2. /\ L \in Seq(Events) /\ Len(L) = Len(d) + 2
          /\ \A i \in 1 .. Len(d) : L[i] = d[i]
          /\ L[Len(d) + 1] = y /\ L[Len(d) + 2] = z
      BY <1>1, <3>1, Before, SMTT(30)
    <3>3. QED  BY <3>2 DEF d
  <2>2. QED  BY <1>3, <2>1
<1>5. \A i \in 1 .. n : L[i].part = PartAt(a, i) /\ L[i].type = "delta"
  BY <1>4, DeltasType, DeltaType
<1>6. PartAt(a, n + 1) = 0 /\ PartAt(a, n + 2) = 0
  BY <1>3, PartType
<1>7. \A i \in 1 .. Len(L) : i \in 1 .. n \/ i = n + 1 \/ i = n + 2
  BY <1>3, <1>4
<1>8. ASSUME NEW i \in 1 .. Len(L)
      PROVE  L[i].part = PartAt(a, i) /\ (L[i].type = "done" => L[i].part = 0)
  <2>1. CASE i \in 1 .. n
    BY <1>5, <2>1
  <2>2. CASE i = n + 1
    BY <1>1, <1>4, <1>6, <2>2
  <2>3. CASE i = n + 2
    BY <1>1, <1>4, <1>6, <2>3
  <2>4. QED  BY <1>7, <2>1, <2>2, <2>3
<1>9. QED  BY <1>4, <1>8

LEMMA AnthropicLines ==
  ASSUME NEW a \in Answers, NEW L, L = Lines("anthropic", a)
  PROVE  /\ L \in Seq(Events) /\ Len(L) = Len(a.parts) + 3
         /\ \A i \in 1 .. Len(L) : L[i].part = PartAt(a, i - 1)
         /\ L[1].type = "start" /\ L[1].usage.in = a.in
         /\ \A i \in 2 .. Len(L) - 2 : L[i].type = "delta"
         /\ L[Len(L) - 1].type = "usage" /\ L[Len(L) - 1].usage.out = a.out
         /\ L[Len(L)].type = "stop"
<1> DEFINE U == [in |-> a.in, out |-> 0]
           V == [in |-> 0, out |-> a.out]
           x == Event("start", 0, "", U)
           y == Event("usage", 0, a.stop, V)
           z == Event("stop", 0, "", NoUsage)
           n == Len(a.parts)
<1>1. U \in Usages /\ V \in Usages /\ U.in = a.in /\ V.out = a.out
  BY AnswerType, UsageType
<1> HIDE DEF U, V
<1>2. /\ x \in Events /\ x.type = "start" /\ x.part = 0 /\ x.usage = U
      /\ y \in Events /\ y.type = "usage" /\ y.part = 0 /\ y.usage = V
      /\ z \in Events /\ z.type = "stop" /\ z.part = 0
  BY <1>1, AnswerType, UsageType DEF Event, Events, Finishes
<1>3. x.usage.in = a.in /\ y.usage.out = a.out
  BY <1>1, <1>2
<1>4. L = <<x>> \o Deltas(a) \o <<y, z>>
  BY DEF Lines, U, V
<1>5. Deltas(a) \in Seq(Events) /\ Len(Deltas(a)) = n /\ n \in Nat
  BY DeltasType, AnswerType
<1> HIDE DEF x, y, z
<1>6. /\ L \in Seq(Events) /\ Len(L) = n + 3
      /\ L[1] = x /\ \A i \in 1 .. n : L[i + 1] = Deltas(a)[i]
      /\ L[n + 2] = y /\ L[n + 3] = z
  <2>1. /\ L \in Seq(Events) /\ Len(L) = Len(Deltas(a)) + 3
        /\ L[1] = x /\ \A i \in 1 .. Len(Deltas(a)) : L[i + 1] = Deltas(a)[i]
        /\ L[Len(Deltas(a)) + 2] = y /\ L[Len(Deltas(a)) + 3] = z
    <3> DEFINE d == Deltas(a)
           t == <<x>> \o d
    <3>1. d \in Seq(Events) /\ L = t \o <<y, z>>
      BY <1>4, <1>5
    <3> HIDE DEF d
    <3>2. t \in Seq(Events) /\ Len(t) = Len(d) + 1 /\ t[1] = x
      BY <1>2, <3>1, After
    <3>3. \A i \in 1 .. Len(d) : t[i + 1] = d[i]
      BY <1>2, <3>1, After
    <3> HIDE DEF t
    <3>4. t \in Seq(Events) /\ L = t \o <<y, z>> /\ y \in Events /\ z \in Events
      BY <1>2, <3>1, <3>2
    <3>5. /\ L \in Seq(Events) /\ Len(L) = Len(t) + 2
          /\ \A i \in 1 .. Len(t) : L[i] = t[i]
          /\ L[Len(t) + 1] = y /\ L[Len(t) + 2] = z
      BY <3>4, Before, SMTT(30)
    <3>6. Len(d) \in Nat
      BY <3>1, Indices
    <3>7. QED  BY <3>2, <3>3, <3>5, <3>6 DEF d
  <2>2. QED  BY <1>5, <2>1
<1>7. \A i \in 1 .. n : L[i + 1].part = PartAt(a, i) /\ L[i + 1].type = "delta"
  BY <1>6, DeltasType, DeltaType
<1>8. ASSUME NEW i \in 2 .. n + 1 PROVE L[i].part = PartAt(a, i - 1) /\ L[i].type = "delta"
  <2>1. i - 1 \in 1 .. n /\ (i - 1) + 1 = i
    BY <1>5
  <2>2. QED  BY <1>7, <2>1
<1>9. PartAt(a, 1 - 1) = 0 /\ PartAt(a, n + 2 - 1) = 0 /\ PartAt(a, n + 3 - 1) = 0
  BY <1>5, PartType
<1>10. \A i \in 1 .. Len(L) : i = 1 \/ i \in 2 .. n + 1 \/ i = n + 2 \/ i = n + 3
  BY <1>5, <1>6
<1>11. \A i \in 1 .. Len(L) : L[i].part = PartAt(a, i - 1)
  <2> SUFFICES ASSUME NEW i \in 1 .. Len(L) PROVE L[i].part = PartAt(a, i - 1)
    OBVIOUS
  <2>1. CASE i \in 2 .. n + 1  BY <1>8, <2>1
  <2>2. CASE i = 1      BY <1>2, <1>6, <1>9, <2>2
  <2>3. CASE i = n + 2  BY <1>2, <1>6, <1>9, <2>3
  <2>4. CASE i = n + 3  BY <1>2, <1>6, <1>9, <2>4
  <2>5. QED  BY <1>10, <2>1, <2>2, <2>3, <2>4
<1>12. Len(L) - 1 = n + 2 /\ Len(L) - 2 = n + 1
  BY <1>5, <1>6
<1>13. QED  BY <1>2, <1>3, <1>6, <1>8, <1>11, <1>12

LEMMA GeminiLines ==
  ASSUME NEW a \in Answers, NEW L, L = Lines("gemini", a)
  PROVE  /\ L \in Seq(Events) /\ Len(L) = Len(a.parts)
         /\ \A i \in 1 .. Len(L) : L[i].part = PartAt(a, i)
         /\ Len(L) > 0 => L[Len(L)].usage = [in |-> a.in, out |-> a.out]
<1> DEFINE n == Len(a.parts)
           U == [in |-> a.in, out |-> a.out]
           e(i) == Event("delta", Part(a, i), a.stop, U)
<1>1. DOMAIN a.parts = 1 .. n /\ n \in Nat /\ U \in Usages
  BY AnswerType, UsageType
<1>2. ASSUME NEW i \in 1 .. n PROVE e(i) \in Events /\ e(i).part = PartAt(a, i) /\ e(i).usage = U
  <2>1. e(i) = Event("delta", PartAt(a, i), a.stop, U)
    BY DEF PartAt
  <2>2. PartAt(a, i) \in Nat /\ a.stop \in Finishes
    BY PartType, AnswerType DEF Finishes
  <2> HIDE DEF U
  <2> DEFINE f == Event("delta", PartAt(a, i), a.stop, U)
  <2>3. f \in Events /\ f.part = PartAt(a, i) /\ f.usage = U
    BY <1>1, <2>2, DeltaEvent
  <2> HIDE DEF e
  <2>4. QED  BY <2>1, <2>3
<1>3. L = [i \in 1 .. n |-> IF i < n THEN Delta(a, i) ELSE e(i)]
  BY <1>1 DEF Lines
<1> HIDE DEF e, U
<1>4. \A i \in 1 .. n : L[i] \in Events /\ L[i].part = PartAt(a, i)
  BY <1>2, <1>3, DeltaType
<1>5. L \in Seq(Events) /\ Len(L) = n
  BY <1>1, <1>3, <1>4
<1>6. n > 0 => L[n].usage = U
  BY <1>1, <1>2, <1>3
<1>7. QED  BY <1>4, <1>5, <1>6 DEF U

\* The parts of an answer are in its lines, in their order.
LEMMA LineParts ==
  ASSUME NEW k \in Kinds, NEW a \in Answers, NEW L, L = Lines(k, a)
  PROVE  /\ L \in Seq(Events) /\ Len(L) \in Nat
         /\ \A i, j \in 1 .. Len(L) : i < j /\ L[j].part # 0 => L[i].part < L[j].part
         /\ \A i \in 1 .. Len(L) : L[i].part # 0 => L[i].part \in Response(k, a).parts
         /\ \A p \in Response(k, a).parts : p # 0 /\ \E i \in 1 .. Len(L) : L[i].part = p
<1> DEFINE n == Len(a.parts)
<1>1. n \in Nat /\ DOMAIN a.parts = 1 .. n
  BY AnswerType
<1>2. PICK off \in {0, 1} : /\ L \in Seq(Events) /\ Len(L) \in Nat /\ Len(L) >= n + off
                           /\ \A i \in 1 .. Len(L) : L[i].part = PartAt(a, i - off)
  <2>1. CASE k = "openai"
    <3>1. \A i \in 1 .. Len(L) : L[i].part = PartAt(a, i - 0)
      BY <2>1, OpenAILines
    <3>2. L \in Seq(Events) /\ Len(L) = n + 2
      BY <2>1, OpenAILines
    <3>3. QED  BY <1>1, <3>1, <3>2
  <2>2. CASE k = "anthropic"
    <3>1. \A i \in 1 .. Len(L) : L[i].part = PartAt(a, i - 1)
      BY <2>2, AnthropicLines
    <3>2. L \in Seq(Events) /\ Len(L) = n + 3
      BY <2>2, AnthropicLines
    <3>3. QED  BY <1>1, <3>1, <3>2
  <2>3. CASE k = "gemini"
    <3>1. \A i \in 1 .. Len(L) : L[i].part = PartAt(a, i)
      BY <2>3, GeminiLines
    <3>2. L \in Seq(Events) /\ Len(L) = n
      BY <2>3, GeminiLines
    <3>3. \A i \in 1 .. Len(L) : i - 0 = i
      BY <1>1, <3>2
    <3>4. QED  BY <1>1, <3>1, <3>2, <3>3
  <2>4. QED  BY <2>1, <2>2, <2>3 DEF Kinds
<1>3. \A i : PartAt(a, i) # 0 => i \in 1 .. n /\ PartAt(a, i) = i
  <2>1. \A i : Part(a, i) = 0 \/ Part(a, i) = i
    BY Zenon DEF Part
  <2>2. QED  BY <2>1 DEF PartAt
<1>4. \A p : p \in Response(k, a).parts <=> p \in 1 .. n /\ PartAt(a, p) = p
  <2>1. Response(k, a).parts = {i \in DOMAIN a.parts : a.parts[i] # ""}
    BY DEF Response
  <2>2. \A p \in 1 .. n : PartAt(a, p) = IF a.parts[p] = "" THEN 0 ELSE p
    BY Zenon DEF PartAt, Part
  <2>3. \A p \in 1 .. n : p # 0
    BY <1>1
  <2>4. QED  BY <1>1, <2>1, <2>2, <2>3, Zenon
<1>5. \A i, j \in 1 .. Len(L) : i < j /\ L[j].part # 0 => L[i].part < L[j].part
  <2> SUFFICES ASSUME NEW i \in 1 .. Len(L), NEW j \in 1 .. Len(L), i < j, L[j].part # 0
               PROVE  L[i].part < L[j].part
    OBVIOUS
  <2>1. L[j].part = j - off /\ j - off \in 1 .. n
    BY <1>2, <1>3
  <2>2. L[i].part = 0 \/ L[i].part = i - off
    BY <1>2, <1>3
  <2>3. QED  BY <1>1, <1>2, <2>1, <2>2
<1>6. \A i \in 1 .. Len(L) : L[i].part # 0 => L[i].part \in Response(k, a).parts
  BY <1>2, <1>3, <1>4
<1>7. ASSUME NEW p \in Response(k, a).parts
      PROVE  p # 0 /\ \E i \in 1 .. Len(L) : L[i].part = p
  <2>1. p \in 1 .. n /\ PartAt(a, p) = p
    BY <1>4
  <2>2. p + off \in 1 .. Len(L) /\ (p + off) - off = p
    BY <1>1, <1>2, <2>1
  <2>3. L[p + off].part = p
    BY <1>2, <2>1, <2>2
  <2>4. QED  BY <1>1, <2>1, <2>2, <2>3
<1>8. QED  BY <1>2, <1>5, <1>6, <1>7

-----------------------------------------------------------------------------
(* The invariant.                                                          *)

Types ==
  /\ kind \in Kinds /\ answer \in Answers
  /\ read \in 0 .. Len(Lines(kind, answer))
  /\ tokens \in Usages
  /\ pending \in Chunks
  /\ buffer \in Seq(Chunks) /\ delivered \in Seq(Chunks)

AllWell == \A j \in DOMAIN Sent : Sent[j].err = "none"

\* Lines that are still to come are later than all that was sent.
InOrder ==
  LET L == Lines(kind, answer) IN
  /\ pc # "closed" => AllWell
  /\ SentInOrder
  /\ \A j \in DOMAIN Sent, i \in read + 1 .. Len(L) : L[i].part # 0 => Sent[j].part < L[i].part
  /\ pc = "sending" =>
       /\ pending.err = "none"
       /\ pending.part # 0 =>
            /\ pending.part \in Response(kind, answer).parts
            /\ \A j \in DOMAIN Sent : Sent[j].part < pending.part
       /\ \A i \in read + 1 .. Len(L) : L[i].part # 0 => pending.part < L[i].part

Live == ~cancelled

\* What has been read has been sent, or is about to be, and nothing else has.
NothingLost ==
  LET L == Lines(kind, answer) IN
  Live /\ AllWell =>
    /\ \A j \in DOMAIN Sent : Sent[j].part # 0 => Sent[j].part \in Response(kind, answer).parts
    /\ \A i \in 1 .. read : L[i].part # 0 =>
         \/ \E j \in DOMAIN Sent : Sent[j].part = L[i].part
         \/ pc = "sending" /\ pending.part = L[i].part

\* The usage is collected, and told with the last line.
UsageTold ==
  LET n == Len(Lines(kind, answer))
      usage == Response(kind, answer).usage IN
  /\ kind = "anthropic" =>
       /\ read >= 1 => tokens.in = answer.in
       /\ read >= n - 1 => tokens.out = answer.out
  /\ TellsUsage /\ Live /\ AllWell /\ read = n =>
       IF pc = "sending" THEN pending.usage = usage
       ELSE Sent # <<>> /\ Sent[Len(Sent)].usage = usage

Ended == reader = "done" => buffer = <<>> /\ pc = "closed"

IInv == Types /\ InOrder /\ NothingLost /\ UsageTold /\ Ended

LEMMA ChunkType ==
  ASSUME NEW c \in Chunks
  PROVE  c.part \in Nat /\ c.err \in {"none", "read"} /\ c.usage \in Usages
BY DEF Chunks

LEMMA SentType == ASSUME Types PROVE Sent \in Seq(Chunks) /\ DOMAIN Sent = 1 .. Len(Sent)
<1>1. Sent \in Seq(Chunks)
  BY DEF Types, Sent
<1>2. QED  BY <1>1, Indices

\* A step that sends and reads nothing.
LEMMA QuietInv ==
  ASSUME IInv, Sent' = Sent, Types', Ended',
         UNCHANGED <<kind, answer, read, tokens, pending>>,
         Live' => Live,
         pc = "closed" => pc' = "closed",
         pc' = pc \/ (pc # "sending" /\ pc' # "sending") \/ (~Live' /\ pc' = "closed")
  PROVE  IInv'
<1>1. AllWell' = AllWell /\ SentInOrder' = SentInOrder /\ TellsUsage' = TellsUsage
  BY DEF AllWell, SentInOrder, TellsUsage
<1>2. InOrder'
  BY <1>1 DEF IInv, InOrder
<1>3. NothingLost'
  BY <1>1 DEF IInv, NothingLost
<1>4. UsageTold'
  BY <1>1 DEF IInv, UsageTold
<1>5. QED  BY <1>2, <1>3, <1>4 DEF IInv

-----------------------------------------------------------------------------
(* What is sent.                                                           *)

LEMMA Appended ==
  ASSUME Types, NEW c \in Chunks, Sent' = Append(Sent, c), Types'
  PROVE  /\ Len(Sent) \in Nat /\ Len(Sent') = Len(Sent) + 1
         /\ DOMAIN Sent = 1 .. Len(Sent) /\ DOMAIN Sent' = 1 .. Len(Sent) + 1
         /\ \A j \in 1 .. Len(Sent) : Sent'[j] = Sent[j] /\ Sent[j] \in Chunks
         /\ Sent'[Len(Sent) + 1] = c /\ Sent' # <<>>
<1>1. Sent \in Seq(Chunks) /\ DOMAIN Sent = 1 .. Len(Sent)
  BY SentType
<1>2. QED  BY <1>1

LEMMA LineType ==
  ASSUME Types, NEW L, L = Lines(kind, answer), NEW i \in 1 .. Len(L)
  PROVE  L[i].part \in Nat
<1>1. L[i] \in Events
  BY LineParts DEF Types
<1>2. QED  BY <1>1 DEF Events

LEMMA SendInv == ASSUME IInv, Send PROVE IInv'
<1> DEFINE L == Lines(kind, answer)
           n == Len(Sent)
<1>1. /\ pc = "sending" /\ buffer' = Append(buffer, pending) /\ pc' \in {"closed", "reading"}
      /\ UNCHANGED <<kind, answer, read, tokens, pending, delivered, reader, cancelled>>
  BY DEF Send, Fixed
<1>2. Types'
  BY <1>1 DEF IInv, Types
<1>3. Sent' = Append(Sent, pending)
  BY <1>1, Sending DEF IInv, Types, Sent
<1>4. /\ n \in Nat /\ Len(Sent') = n + 1
      /\ DOMAIN Sent = 1 .. n /\ DOMAIN Sent' = 1 .. n + 1
      /\ \A j \in 1 .. n : Sent'[j] = Sent[j] /\ Sent[j] \in Chunks
      /\ Sent'[n + 1] = pending /\ Sent' # <<>>
  BY <1>2, <1>3, Appended DEF IInv, Types
<1> HIDE DEF n
<1>5. AllWell /\ pending.err = "none"
  BY <1>1 DEF IInv, InOrder
<1>6. AllWell'
  BY <1>4, <1>5 DEF AllWell
<1>7. SentInOrder'
  <2> SUFFICES ASSUME NEW i \in 1 .. n + 1, NEW j \in 1 .. n + 1, i < j
               PROVE  Sent'[i].err = "none" /\ (Sent'[j].part # 0 => Sent'[i].part < Sent'[j].part)
    BY <1>4 DEF SentInOrder
  <2>1. i \in 1 .. n /\ Sent'[i] = Sent[i] /\ Sent'[i].err = "none"
    BY <1>4, <1>5 DEF AllWell
  <2>2. CASE j \in 1 .. n
    BY <1>4, <2>1, <2>2 DEF IInv, InOrder, SentInOrder
  <2>3. CASE j = n + 1
    BY <1>1, <1>4, <2>1, <2>3 DEF IInv, InOrder
  <2>4. QED  BY <1>4, <2>2, <2>3
<1>8. InOrder'
  <2>1. \A j \in 1 .. n + 1, i \in read + 1 .. Len(L) : L[i].part # 0 => Sent'[j].part < L[i].part
    <3>1. \A j \in 1 .. n, i \in read + 1 .. Len(L) : L[i].part # 0 => Sent'[j].part < L[i].part
      BY <1>4 DEF IInv, InOrder
    <3>2. \A i \in read + 1 .. Len(L) : L[i].part # 0 => Sent'[n + 1].part < L[i].part
      BY <1>1, <1>4 DEF IInv, InOrder
    <3>3. QED  BY <1>4, <3>1, <3>2
  <2>2. L' = L
    BY <1>1
  <2>3. QED  BY <1>1, <1>4, <1>6, <1>7, <2>1, <2>2 DEF InOrder
<1>9. NothingLost'
  <2> SUFFICES ASSUME Live
               PROVE  /\ \A j \in 1 .. n + 1 : Sent'[j].part # 0 =>
                           Sent'[j].part \in Response(kind, answer).parts
                      /\ \A i \in 1 .. read : L[i].part # 0 =>
                           \E j \in 1 .. n + 1 : Sent'[j].part = L[i].part
    BY <1>1, <1>4 DEF NothingLost, Live
  <2>1. \A j \in 1 .. n : Sent[j].part # 0 => Sent[j].part \in Response(kind, answer).parts
    BY <1>4, <1>5 DEF IInv, NothingLost
  <2>2. pending.part # 0 => pending.part \in Response(kind, answer).parts
    BY <1>1 DEF IInv, InOrder
  <2>3. \A i \in 1 .. read : L[i].part # 0 =>
          (\E j \in 1 .. n : Sent[j].part = L[i].part) \/ pending.part = L[i].part
    BY <1>4, <1>5 DEF IInv, NothingLost
  <2>4. 1 .. n \subseteq 1 .. n + 1 /\ n + 1 \in 1 .. n + 1
    BY <1>4
  <2>5. \A j \in 1 .. n + 1 : j \in 1 .. n \/ j = n + 1
    BY <1>4
  <2> HIDE DEF L
  <2>6. QED  BY <1>4, <2>1, <2>2, <2>3, <2>4, <2>5
<1>10. UsageTold'
  BY <1>1, <1>4, <1>5 DEF IInv, UsageTold, TellsUsage, Live
<1>11. Ended'
  BY <1>1 DEF IInv, Ended
<1>12. QED  BY <1>2, <1>8, <1>9, <1>10, <1>11 DEF IInv

LEMMA SendErrorInv == ASSUME IInv, SendError PROVE IInv'
<1> DEFINE L == Lines(kind, answer)
           n == Len(Sent)
<1>1. /\ pc = "failing" /\ buffer' = Append(buffer, ErrorChunk) /\ pc' = "closed"
      /\ UNCHANGED <<kind, answer, read, tokens, pending, delivered, reader, cancelled>>
  BY DEF SendError, Fixed
<1>2. ErrorChunk \in Chunks /\ ErrorChunk.part = 0 /\ ErrorChunk.err = "read"
  BY DEF ErrorChunk, Chunks, Finishes, NoUsage, Usages
<1>3. Types'
  BY <1>1, <1>2 DEF IInv, Types
<1>4. Sent' = Append(Sent, ErrorChunk)
  BY <1>1, <1>2, Sending DEF IInv, Types, Sent
<1>5. /\ n \in Nat /\ DOMAIN Sent = 1 .. n /\ DOMAIN Sent' = 1 .. n + 1
      /\ \A j \in 1 .. n : Sent'[j] = Sent[j] /\ Sent[j] \in Chunks
      /\ Sent'[n + 1] = ErrorChunk
  BY <1>2, <1>3, <1>4, Appended DEF IInv
<1> HIDE DEF n
<1>6. AllWell
  BY <1>1 DEF IInv, InOrder
<1>7. ~AllWell'
  <2>1. n + 1 \in DOMAIN Sent' /\ Sent'[n + 1].err = "read"
    BY <1>2, <1>5
  <2>2. QED  BY <2>1 DEF AllWell
<1>8. SentInOrder'
  <2> SUFFICES ASSUME NEW i \in 1 .. n + 1, NEW j \in 1 .. n + 1, i < j
               PROVE  Sent'[i].err = "none" /\ (Sent'[j].part # 0 => Sent'[i].part < Sent'[j].part)
    BY <1>5 DEF SentInOrder
  <2>1. i \in 1 .. n /\ Sent'[i] = Sent[i] /\ Sent'[i].err = "none"
    BY <1>5, <1>6 DEF AllWell
  <2>2. CASE j \in 1 .. n
    BY <1>5, <2>1, <2>2 DEF IInv, InOrder, SentInOrder
  <2>3. CASE j = n + 1
    BY <1>2, <1>5, <2>1, <2>3
  <2>4. QED  BY <1>5, <2>2, <2>3
<1>9. InOrder'
  <2>1. \A j \in 1 .. n, i \in read + 1 .. Len(L) : L[i].part # 0 => Sent'[j].part < L[i].part
    BY <1>5 DEF IInv, InOrder
  <2>2. \A i \in read + 1 .. Len(L) : L[i].part # 0 => Sent'[n + 1].part < L[i].part
    <3> SUFFICES ASSUME NEW i \in read + 1 .. Len(L), L[i].part # 0 PROVE 0 < L[i].part
      BY <1>2, <1>5
    <3>1. i \in 1 .. Len(L)
      BY LineParts DEF IInv, Types
    <3>2. L[i].part \in Nat
      BY <3>1, LineType DEF IInv
    <3>3. QED  BY <3>2
  <2>3. L' = L
    BY <1>1
  <2>4. \A j \in 1 .. n + 1 : j \in 1 .. n \/ j = n + 1
    BY <1>5
  <2> HIDE DEF L
  <2>5. \A j \in DOMAIN Sent', i \in read' + 1 .. Len(L') : L'[i].part # 0 => Sent'[j].part < L'[i].part
    BY <1>1, <1>5, <2>1, <2>2, <2>3, <2>4
  <2>6. QED  BY <1>1, <1>8, <2>5 DEF InOrder, L
<1>10. NothingLost'
  BY <1>7 DEF NothingLost
<1>11. UsageTold'
  BY <1>1, <1>7 DEF IInv, UsageTold
<1>12. Ended'
  BY <1>1 DEF IInv, Ended
<1>13. QED  BY <1>3, <1>9, <1>10, <1>11, <1>12 DEF IInv

-----------------------------------------------------------------------------
(* What is read.                                                           *)

\* What a line does: a part is passed on, and the last line tells the usage.
LEMMA LineEffect ==
  ASSUME IInv, ReadLine, NEW L, L = Lines(kind, answer), NEW e, e = L[read + 1]
  PROVE  /\ pending' \in Chunks /\ tokens' \in Usages
         /\ \/ pc' = "sending" /\ pending'.err = "none" /\ pending'.part = e.part
            \/ pc' \in {"reading", "closed"} /\ e.part = 0
         /\ TellsUsage /\ read + 1 = Len(L) =>
              pc' = "sending" /\ pending'.usage = Response(kind, answer).usage
         /\ kind = "anthropic" =>
              tokens'.in = answer.in /\ (read + 1 >= Len(L) - 1 => tokens'.out = answer.out)
<1>1. /\ read \in Nat /\ read + 1 \in 1 .. Len(L) /\ L \in Seq(Events) /\ Len(L) \in Nat
      /\ e \in Events /\ answer \in Answers /\ kind \in Kinds
  BY LineParts DEF ReadLine, IInv, Types
<1>2. e.part \in Nat /\ e.finish \in Finishes /\ e.usage \in Usages
  BY <1>1 DEF Events
<1>3. NoUsage \in Usages /\ "" \in Finishes /\ "stop" \in Finishes /\ 0 \in Nat
  BY UsageType DEF Finishes
<1>4. ASSUME NEW p \in Nat, NEW f \in Finishes, NEW u \in Usages
      PROVE  /\ Chunk(p, f, u) \in Chunks /\ Chunk(p, f, u).err = "none"
             /\ Chunk(p, f, u).part = p /\ Chunk(p, f, u).usage = u
  BY DEF Chunk, Chunks
<1>5. Response(kind, answer).usage = [in |-> answer.in, out |-> answer.out]
  BY DEF Response
<1>6. tokens \in Usages /\ pending \in Chunks
  BY DEF IInv, Types
<1>7. CASE kind = "openai"
  <2>1. OpenAILine(e)
    BY <1>7 DEF ReadLine
  <2>2. e.type = "done" => e.part = 0
    BY <1>1, <1>7, OpenAILines
  <2>3. ~TellsUsage
    BY <1>7 DEF TellsUsage
  <2>4. CASE e.type = "done"
    BY <1>6, <1>7, <2>1, <2>2, <2>3, <2>4 DEF OpenAILine, Returns
  <2>5. CASE e.type # "done"
    <3>1. pc' = "sending" /\ pending' = Chunk(e.part, e.finish, e.usage) /\ tokens' = tokens
      BY <2>1, <2>5 DEF OpenAILine, Sends
    <3> DEFINE c == Chunk(e.part, e.finish, e.usage)
    <3>2. c \in Chunks /\ c.err = "none" /\ c.part = e.part
      BY <1>2, <1>4
    <3> HIDE DEF c
    <3>3. pending' = c
      BY <3>1 DEF c
    <3>4. QED  BY <1>6, <1>7, <2>3, <3>1, <3>2, <3>3
  <2>6. QED  BY <2>4, <2>5
<1>8. CASE kind = "gemini"
  <2>1. GeminiLine(e) /\ tokens' = tokens
    BY <1>8 DEF ReadLine, GeminiLine
  <2>2. CASE e.part = 0
    <3>1. pc' = "reading" /\ pending' = pending
      BY <2>1, <2>2 DEF GeminiLine, ReadsOn
    <3>2. ~(TellsUsage /\ read + 1 = Len(L))
      <4> SUFFICES ASSUME TellsUsage, read + 1 = Len(L) PROVE FALSE
        OBVIOUS
      <4>1. Len(L) = Len(answer.parts) /\ e.part = PartAt(answer, read + 1)
        BY <1>1, <1>8, GeminiLines, ZenonT(30)
      <4>2. answer.parts[Len(answer.parts)] # ""
        BY <1>8 DEF TellsUsage
      <4>3. Part(answer, Len(answer.parts)) = Len(answer.parts)
        BY <4>2, Zenon DEF Part
      <4>4. QED  BY <1>1, <2>2, <4>1, <4>3 DEF PartAt
    <3>3. QED  BY <1>6, <1>8, <2>1, <2>2, <3>1, <3>2
  <2>3. CASE e.part # 0
    <3>1. pc' = "sending" /\ pending' = Chunk(e.part, e.finish, e.usage)
      BY <2>1, <2>3 DEF GeminiLine, Sends
    <3>2. read + 1 = Len(L) => e.usage = Response(kind, answer).usage
      BY <1>1, <1>5, <1>8, GeminiLines
    <3>3. QED  BY <1>2, <1>4, <1>6, <1>8, <2>1, <3>1, <3>2
  <2>4. QED  BY <2>2, <2>3
<1>9. CASE kind = "anthropic"
  <2>1. AnthropicLine(e)
    BY <1>9 DEF ReadLine
  <2>2. /\ Len(L) >= 3
        /\ L[1].type = "start" /\ L[1].usage.in = answer.in /\ L[1].part = 0
        /\ \A i \in 2 .. Len(L) - 2 : L[i].type = "delta"
        /\ L[Len(L) - 1].type = "usage" /\ L[Len(L) - 1].usage.out = answer.out
        /\ L[Len(L) - 1].part = 0
        /\ L[Len(L)].type = "stop" /\ L[Len(L)].part = 0
    <3>1. /\ Len(L) = Len(answer.parts) + 3 /\ Len(answer.parts) \in Nat
          /\ \A i \in 1 .. Len(L) : L[i].part = PartAt(answer, i - 1)
          /\ L[1].type = "start" /\ L[1].usage.in = answer.in
          /\ \A i \in 2 .. Len(L) - 2 : L[i].type = "delta"
          /\ L[Len(L) - 1].type = "usage" /\ L[Len(L) - 1].usage.out = answer.out
          /\ L[Len(L)].type = "stop"
      BY <1>1, <1>9, AnthropicLines, AnswerType
    <3>2. /\ PartAt(answer, 1 - 1) = 0 /\ PartAt(answer, (Len(L) - 1) - 1) = 0
          /\ PartAt(answer, Len(L) - 1) = 0
      BY <1>1, <3>1, PartType, SMTT(30)
    <3>3. 1 \in 1 .. Len(L) /\ Len(L) - 1 \in 1 .. Len(L) /\ Len(L) \in 1 .. Len(L)
      BY <3>1
    <3>4. L[1].part = 0 /\ L[Len(L) - 1].part = 0 /\ L[Len(L)].part = 0
      <4>1. /\ L[1].part = PartAt(answer, 1 - 1)
            /\ L[Len(L) - 1].part = PartAt(answer, (Len(L) - 1) - 1)
            /\ L[Len(L)].part = PartAt(answer, Len(L) - 1)
        BY <3>1, <3>3
      <4>2. QED  BY <3>2, <4>1
    <3>5. Len(L) >= 3
      BY <3>1
    <3>6. QED  BY <3>1, <3>4, <3>5
  <2>3. read >= 1 => tokens.in = answer.in
    BY <1>9 DEF IInv, UsageTold
  <2>4. read >= Len(L) - 1 => tokens.out = answer.out
    BY <1>9 DEF IInv, UsageTold
  <2>5. CASE e.type = "start"
    <3>1. pc' = "reading" /\ pending' = pending /\ tokens' = [tokens EXCEPT !.in = e.usage.in]
      BY <2>1, <2>5 DEF AnthropicLine, ReadsOn
    <3>2. read + 1 = 1
      BY <1>1, <2>2, <2>5
    <3>3. tokens' \in Usages /\ tokens'.in = e.usage.in
      BY <1>2, <1>6, <3>1 DEF Usages
    <3>4. QED  BY <1>6, <2>2, <3>1, <3>2, <3>3
  <2>6. CASE e.type = "usage"
    <3>1. pc' = "reading" /\ pending' = pending /\ tokens' = [tokens EXCEPT !.out = e.usage.out]
      BY <2>1, <2>6 DEF AnthropicLine, ReadsOn
    <3>2. read + 1 = Len(L) - 1 /\ read >= 1
      BY <1>1, <2>2, <2>6
    <3>3. tokens' \in Usages /\ tokens'.out = e.usage.out /\ tokens'.in = tokens.in
      BY <1>2, <1>6, <3>1 DEF Usages
    <3>4. QED  BY <1>6, <2>2, <2>3, <3>1, <3>2, <3>3
  <2>7. CASE e.type = "delta"
    <3>1. tokens' = tokens /\ IF e.part = 0 THEN ReadsOn ELSE Sends(Chunk(e.part, "", NoUsage), FALSE)
      BY <2>1, <2>7 DEF AnthropicLine
    <3>2. read + 1 # Len(L) /\ read + 1 # Len(L) - 1 /\ read >= 1
      BY <1>1, <2>2, <2>7
    <3>3. CASE e.part = 0
      BY <1>1, <1>6, <2>3, <3>1, <3>2, <3>3 DEF ReadsOn
    <3>4. CASE e.part # 0
      <4>1. pc' = "sending" /\ pending' = Chunk(e.part, "", NoUsage)
        BY <3>1, <3>4 DEF Sends
      <4> DEFINE c == Chunk(e.part, "", NoUsage)
      <4>2. c \in Chunks /\ c.err = "none" /\ c.part = e.part
        <5> DEFINE part == e.part
                   usage == NoUsage
        <5>1. part \in Nat /\ usage \in Usages
          BY <1>2, <1>3
        <5>2. PICK f \in Finishes : f = ""
          BY <1>3
        <5>3. c = Chunk(part, f, usage)
          BY <5>2
        <5> HIDE DEF c, part, usage
        <5>4. c \in Chunks /\ c.err = "none" /\ c.part = part
          BY <1>4, <5>1, <5>2, <5>3, ZenonT(30)
        <5>5. QED  BY <5>4 DEF part
      <4>3. tokens' = tokens
        BY <3>1
      <4>4. tokens'.in = answer.in /\ ~(read + 1 >= Len(L) - 1)
        BY <1>1, <2>3, <3>2, <4>3
      <4>5. QED  BY <1>6, <3>2, <4>1, <4>2, <4>3, <4>4
    <3>5. QED  BY <3>3, <3>4
  <2>8. CASE e.type = "stop"
    <3>1. pc' = "sending" /\ pending' = Chunk(0, "stop", tokens) /\ tokens' = tokens
      BY <2>1, <2>8 DEF AnthropicLine, Sends
    <3>2. read + 1 = Len(L) /\ read >= 1
      BY <1>1, <2>2, <2>8
    <3>3. tokens.in = answer.in /\ tokens.out = answer.out
      BY <1>1, <2>3, <2>4, <3>2
    <3>4. tokens = [in |-> answer.in, out |-> answer.out]
      BY <1>6, <3>3 DEF Usages
    <3>5. /\ pending' \in Chunks /\ pending'.err = "none" /\ pending'.part = 0
          /\ pending'.usage = tokens
      <4>1. PICK f \in Finishes : f = "stop"
        BY <1>3
      <4> DEFINE c == Chunk(0, f, tokens)
      <4>2. 0 \in Nat /\ pending' = c
        BY <3>1, <4>1
      <4> HIDE DEF c
      <4>3. c \in Chunks /\ c.err = "none" /\ c.part = 0 /\ c.usage = tokens
        BY <1>4, <1>6, <4>1, <4>2 DEF c
      <4>4. QED  BY <4>2, <4>3
    <3>6. e.part = 0
      BY <2>2, <3>2
    <3>7. QED  BY <1>5, <1>6, <3>1, <3>3, <3>4, <3>5, <3>6
  <2>9. e.type \in {"start", "delta", "usage", "stop"}
    <3>1. read + 1 = 1 \/ read + 1 \in 2 .. Len(L) - 2 \/ read + 1 = Len(L) - 1 \/ read + 1 = Len(L)
      BY <1>1, <2>2
    <3>2. QED  BY <2>2, <3>1
  <2>10. QED  BY <2>5, <2>6, <2>7, <2>8, <2>9
<1>10. QED  BY <1>1, <1>7, <1>8, <1>9 DEF Kinds

LEMMA ReadLineInv == ASSUME IInv, ReadLine PROVE IInv'
<1> DEFINE L == Lines(kind, answer)
           e == L[read + 1]
           parts == Response(kind, answer).parts
<1>1. /\ pc = "reading" /\ read < Len(L) /\ read' = read + 1
      /\ UNCHANGED <<kind, answer, buffer, delivered, reader, cancelled>>
  BY DEF ReadLine, Fixed, Channel
<1>2. /\ pending' \in Chunks /\ tokens' \in Usages
      /\ \/ pc' = "sending" /\ pending'.err = "none" /\ pending'.part = e.part
         \/ pc' \in {"reading", "closed"} /\ e.part = 0
      /\ TellsUsage /\ read + 1 = Len(L) =>
           pc' = "sending" /\ pending'.usage = Response(kind, answer).usage
      /\ kind = "anthropic" =>
           tokens'.in = answer.in /\ (read + 1 >= Len(L) - 1 => tokens'.out = answer.out)
  BY LineEffect
<1>3. /\ read \in Nat /\ Len(L) \in Nat /\ read + 1 \in 1 .. Len(L)
      /\ L' = L /\ parts' = parts /\ Sent' = Sent /\ AllWell' = AllWell
      /\ SentInOrder' = SentInOrder /\ TellsUsage' = TellsUsage /\ Live' = Live
  BY <1>1, LineParts DEF IInv, Types, Sent, AllWell, SentInOrder, TellsUsage, Live
<1>4. Types'
  BY <1>1, <1>2, <1>3 DEF IInv, Types
<1>5. /\ \A i, j \in 1 .. Len(L) : i < j /\ L[j].part # 0 => L[i].part < L[j].part
      /\ \A i \in 1 .. Len(L) : L[i].part # 0 => L[i].part \in parts
  BY LineParts DEF IInv, Types
<1>6. \A i \in read + 2 .. Len(L) : i \in read + 1 .. Len(L) /\ i \in 1 .. Len(L) /\ read + 1 < i
  BY <1>3
<1>7. AllWell
  BY <1>1 DEF IInv, InOrder
<1>8. InOrder'
  <2>1. /\ SentInOrder
        /\ \A j \in DOMAIN Sent, i \in read + 1 .. Len(L) : L[i].part # 0 => Sent[j].part < L[i].part
    BY DEF IInv, InOrder
  <2>2. read + 1 \in read + 1 .. Len(L)
    BY <1>3
  <2> HIDE DEF L, parts
  <2>3. \A j \in DOMAIN Sent, i \in read + 2 .. Len(L) : L[i].part # 0 => Sent[j].part < L[i].part
    BY <1>6, <2>1
  <2>4. \A i \in read + 2 .. Len(L) : L[i].part # 0 => e.part < L[i].part
    BY <1>3, <1>5, <1>6
  <2>5. e.part # 0 => e.part \in parts /\ \A j \in DOMAIN Sent : Sent[j].part < e.part
    BY <1>3, <1>5, <2>1, <2>2
  <2>6. (read + 1) + 1 = read + 2
    BY <1>3
  <2> HIDE DEF e
  <2>7. pc' = "sending" =>
          /\ pending'.err = "none"
          /\ pending'.part # 0 =>
               pending'.part \in parts /\ \A j \in DOMAIN Sent : Sent[j].part < pending'.part
          /\ \A i \in read + 2 .. Len(L) : L[i].part # 0 => pending'.part < L[i].part
    BY <1>2, <2>4, <2>5
  <2>8. QED  BY <1>1, <1>3, <1>7, <2>1, <2>3, <2>6, <2>7 DEF InOrder, L, parts
<1>9. NothingLost'
  <2> SUFFICES ASSUME Live
               PROVE  /\ \A j \in DOMAIN Sent : Sent[j].part # 0 => Sent[j].part \in parts
                      /\ \A i \in 1 .. read + 1 : L[i].part # 0 =>
                           \/ \E j \in DOMAIN Sent : Sent[j].part = L[i].part
                           \/ pc' = "sending" /\ pending'.part = L[i].part
    BY <1>1, <1>3 DEF NothingLost
  <2>1. /\ \A j \in DOMAIN Sent : Sent[j].part # 0 => Sent[j].part \in parts
        /\ \A i \in 1 .. read : L[i].part # 0 => \E j \in DOMAIN Sent : Sent[j].part = L[i].part
    BY <1>1, <1>7 DEF IInv, NothingLost
  <2>2. \A i \in 1 .. read + 1 : i \in 1 .. read \/ i = read + 1
    BY <1>3
  <2> HIDE DEF L, parts
  <2>3. QED  BY <1>2, <2>1, <2>2
<1>10. UsageTold'
  BY <1>1, <1>2, <1>3 DEF UsageTold
<1>11. Ended'
  BY <1>1 DEF IInv, Ended
<1>12. QED  BY <1>4, <1>8, <1>9, <1>10, <1>11 DEF IInv

-----------------------------------------------------------------------------
(* Invariance.                                                             *)

LEMMA CallInv ==
  ASSUME IInv, CallFails \/ ChatBreaks \/ ChatAnswers \/ StreamOpens PROVE IInv'
<1>1. /\ pc = "calling" /\ pc' \in {"closed", "reading"}
      /\ UNCHANGED <<kind, answer, read, tokens, pending, buffer, delivered, reader, cancelled>>
  BY DEF CallFails, ChatBreaks, ChatAnswers, StreamOpens, Called
<1>2. Types' /\ Ended' /\ Sent' = Sent /\ Live' = Live
  BY <1>1 DEF IInv, Types, Ended, Sent, Live
<1>3. QED  BY <1>1, <1>2, QuietInv

LEMMA ReadStopsInv == ASSUME IInv, ReadEnds \/ ReadFails PROVE IInv'
<1>1. /\ pc = "reading" /\ pc' \in {"closed", "failing"}
      /\ UNCHANGED <<kind, answer, read, tokens, pending, buffer, delivered, reader, cancelled>>
  BY DEF ReadEnds, ReadFails, Returns, Fixed, Channel
<1>2. Types' /\ Ended' /\ Sent' = Sent /\ Live' = Live
  BY <1>1 DEF IInv, Types, Ended, Sent, Live
<1>3. QED  BY <1>1, <1>2, QuietInv

LEMMA SendCancelledInv == ASSUME IInv, SendCancelled PROVE IInv'
<1>1. /\ pc = "sending" /\ pc' = "closed" /\ ~Live /\ ~Live'
      /\ UNCHANGED <<kind, answer, read, tokens, pending, buffer, delivered, reader, cancelled>>
  BY DEF SendCancelled, Fixed, Channel, Live
<1>2. Types' /\ Ended' /\ Sent' = Sent
  BY <1>1 DEF IInv, Types, Ended, Sent
<1>3. QED  BY <1>1, <1>2, QuietInv

LEMMA ReaderInv == ASSUME IInv, Receive \/ SeesEnd \/ Leave \/ Cancel PROVE IInv'
<1>1. CASE Receive
  <2>1. /\ reader = "reading" /\ buffer # <<>> /\ delivered' = Append(delivered, Head(buffer))
        /\ buffer' = Tail(buffer)
        /\ UNCHANGED <<kind, answer, read, tokens, pending, pc, reader, cancelled>>
    BY <1>1 DEF Receive, Reading, Fixed
  <2>2. Sent' = Sent /\ buffer' \in Seq(Chunks) /\ delivered' \in Seq(Chunks)
    BY <2>1, Moved DEF IInv, Types, Sent
  <2>3. Types' /\ Ended' /\ Live' = Live
    BY <2>1, <2>2 DEF IInv, Types, Ended, Live
  <2>4. QED  BY <2>1, <2>2, <2>3, QuietInv
<1>2. CASE SeesEnd \/ Leave
  <2>1. /\ reader' = "gone" \/ (reader' = "done" /\ buffer = <<>> /\ pc = "closed")
        /\ UNCHANGED <<kind, answer, read, tokens, pending, pc, buffer, delivered, cancelled>>
    BY <1>2 DEF SeesEnd, Leave, Fixed
  <2>2. Types' /\ Ended' /\ Sent' = Sent /\ Live' = Live
    BY <2>1 DEF IInv, Types, Ended, Sent, Live
  <2>3. QED  BY <2>1, <2>2, QuietInv
<1>3. CASE Cancel
  <2>1. UNCHANGED <<kind, answer, read, tokens, pending, pc, buffer, delivered, reader>>
    BY <1>3 DEF Cancel, Fixed, Channel
  <2>2. Types' /\ Ended' /\ Sent' = Sent
    BY <2>1 DEF IInv, Types, Ended, Sent
  <2>3. ~Live'
    BY <1>3 DEF Cancel, Live
  <2>4. QED  BY <2>1, <2>2, <2>3, QuietInv
<1>4. QED  BY <1>1, <1>2, <1>3

LEMMA InitInv == Init => IInv
<1> SUFFICES ASSUME Init PROVE IInv
  OBVIOUS
<1>1. /\ kind \in Kinds /\ answer \in Answers /\ pc = "calling" /\ read = 0 /\ tokens = NoUsage
      /\ pending = ErrorChunk /\ buffer = <<>> /\ delivered = <<>> /\ reader = "reading"
  BY DEF Init
<1>2. Len(Lines(kind, answer)) \in Nat
  BY <1>1, LineParts
<1>3. Sent = <<>> /\ DOMAIN Sent = {}
  BY <1>1 DEF Sent
<1>4. ErrorChunk \in Chunks
  BY DEF ErrorChunk, Chunks, Finishes, NoUsage, Usages
<1>5. Types
  <2>1. NoUsage \in Usages
    BY DEF NoUsage, Usages
  <2>2. <<>> \in Seq(Chunks) /\ 0 \in 0 .. Len(Lines(kind, answer))
    BY <1>2
  <2>3. QED  BY <1>1, <1>4, <2>1, <2>2 DEF Types
<1>6. InOrder /\ NothingLost /\ Ended
  BY <1>1, <1>3 DEF InOrder, NothingLost, Ended, AllWell, SentInOrder
<1>7. UsageTold
  <2>1. kind = "anthropic" => Len(Lines(kind, answer)) >= 3
    <3>1. Len(answer.parts) \in Nat
      BY <1>1, AnswerType
    <3>2. kind = "anthropic" => Len(Lines(kind, answer)) = Len(answer.parts) + 3
      BY <1>1, AnthropicLines
    <3>3. QED  BY <3>1, <3>2
  <2>2. TellsUsage => Len(Lines(kind, answer)) # 0
    <3>1. CASE kind = "anthropic"  BY <2>1, <3>1
    <3>2. CASE kind = "gemini" /\ answer.parts # <<>>
      <4>1. Len(Lines(kind, answer)) = Len(answer.parts)
        BY <1>1, <3>2, GeminiLines
      <4>2. answer.parts \in Seq({"", "text"})
        BY <1>1, AnswersAssumption
      <4>3. Len(answer.parts) # 0
        BY <3>2, <4>2, Vacant
      <4>4. QED  BY <4>1, <4>3
    <3>3. QED  BY <3>1, <3>2 DEF TellsUsage
  <2>3. QED  BY <1>1, <2>1, <2>2 DEF UsageTold
<1>8. QED  BY <1>5, <1>6, <1>7 DEF IInv

LEMMA NextInv == IInv /\ [Next]_vars => IInv'
<1> SUFFICES ASSUME IInv, [Next]_vars PROVE IInv'
  OBVIOUS
<1>1. CASE CallFails \/ ChatBreaks \/ ChatAnswers \/ StreamOpens
  BY <1>1, CallInv
<1>2. CASE Stream
  BY <1>2, ReadLineInv, ReadStopsInv, SendInv, SendCancelledInv, SendErrorInv DEF Stream
<1>3. CASE Receive \/ SeesEnd \/ Leave \/ Cancel
  BY <1>3, ReaderInv
<1>4. CASE UNCHANGED vars
  <2>1. UNCHANGED <<kind, answer, read, tokens, pending, pc, buffer, delivered, reader, cancelled>>
    BY <1>4 DEF vars
  <2>2. Types' /\ Ended' /\ Sent' = Sent /\ Live' = Live
    BY <2>1 DEF IInv, Types, Ended, Sent, Live
  <2>3. QED  BY <2>1, <2>2, QuietInv
<1>5. QED  BY <1>1, <1>2, <1>3, <1>4 DEF Next

LEMMA Invariance == Spec => []IInv
BY InitInv, NextInv, PTL DEF Spec

-----------------------------------------------------------------------------
(* Theorem.                                                                *)

\* Whatever the answer, the channel and the reader, a stream delivers the
\* answer's parts in order, and one that was read to its end delivers all of
\* them and tells the usage.
THEOREM StreamsAreFaithful == Spec => []StreamIsFaithful
<1>1. IInv => StreamIsFaithful
  <2> SUFFICES ASSUME IInv, Complete
               PROVE  /\ PartsOf(delivered) = Response(kind, answer).parts
                      /\ TellsUsage => delivered[Len(delivered)].usage = Response(kind, answer).usage
    BY DEF StreamIsFaithful, IInv, InOrder
  <2> DEFINE L == Lines(kind, answer)
             parts == Response(kind, answer).parts
  <2>1. /\ buffer = <<>> /\ pc = "closed" /\ Live /\ read = Len(L)
        /\ \A i \in DOMAIN delivered : delivered[i].err = "none"
    BY DEF IInv, Ended, Complete, Live
  <2>2. Sent = delivered
    BY <2>1 DEF IInv, Types, Sent
  <2>3. AllWell
    BY <2>1, <2>2 DEF AllWell
  <2>4. /\ \A j \in DOMAIN delivered : delivered[j].part # 0 => delivered[j].part \in parts
        /\ \A i \in 1 .. Len(L) : L[i].part # 0 => \E j \in DOMAIN delivered : delivered[j].part = L[i].part
    BY <2>1, <2>2, <2>3 DEF IInv, NothingLost
  <2>5. \A p \in parts : p # 0 /\ \E i \in 1 .. Len(L) : L[i].part = p
    BY LineParts DEF IInv, Types
  <2> HIDE DEF L, parts
  <2>6. PartsOf(delivered) = parts
    BY <2>4, <2>5 DEF PartsOf
  <2>7. TellsUsage => delivered[Len(delivered)].usage = Response(kind, answer).usage
    BY <2>1, <2>2, <2>3 DEF IInv, UsageTold, L
  <2>8. QED  BY <2>6, <2>7 DEF parts
<1>2. QED  BY <1>1, Invariance, PTL

-----------------------------------------------------------------------------
(* Type correctness.                                                       *)

\* What the request asks for.
RequestOK == request \in [prompt : Prompts(kind), key : Keys(kind)]

\* The variables the stream's invariant leaves open.
RestOK ==
  /\ result \in {"none", "response", "stream"} \cup Errors
  /\ pc \in {"calling", "reading", "sending", "failing", "closed"}
  /\ last \in BOOLEAN
  /\ Len(buffer) <= Cap
  /\ reader \in {"reading", "gone", "done"}
  /\ cancelled \in BOOLEAN

\* Each adapter tells its provider the messages that are to reach it, in the
\* roles the provider knows, whatever the client's list is.
LEMMA PromptType ==
  ASSUME NEW k \in Kinds, NEW c \in Conversations PROVE Prompt(k, c) \in Prompts(k)
<1>1. c \in Seq(Roles)
  BY ConversationsAssumption
<1>2. \A i \in DOMAIN c : c[i] \in Roles
  BY <1>1
<1>3. c \in [DOMAIN c -> Roles]
  BY <1>1
<1>4. Prompt(k, c) \in [Heard(k, c) -> Told(k)]
  <2>1. CASE k = "openai"
    BY <1>3, <2>1 DEF Prompt, Heard, Told
  <2>2. CASE k = "anthropic"
    BY <1>2, <2>2 DEF Prompt, Heard, Told, Spoken, IsSystem, Restrict, Roles
  <2>3. CASE k = "gemini"
    BY <1>2, <2>3 DEF Prompt, Heard, Told, Spoken, IsSystem, Roles
  <2>4. QED  BY <2>1, <2>2, <2>3 DEF Kinds
<1>5. QED  BY <1>4 DEF Prompts

\* The key that goes along is the gateway's or the adapter's own kind; only
\* the OpenAI adapter is lent another's.
LEMMA KeyType ==
  ASSUME NEW k \in Kinds, NEW m, NEW custom PROVE ResolveAPIKey(k, m, custom) \in Keys(k)
BY DEF ResolveAPIKey, Keys

LEMMA InitRest == Init => RequestOK /\ RestOK
<1> SUFFICES ASSUME Init PROVE RequestOK /\ RestOK
  OBVIOUS
<1>1. PICK c \in Conversations, m \in Models, k \in Customs :
        request = [prompt |-> Prompt(kind, c), key |-> ResolveAPIKey(kind, m, k)]
  BY DEF Init
<1>2. Prompt(kind, c) \in Prompts(kind) /\ ResolveAPIKey(kind, m, k) \in Keys(kind)
  BY PromptType, KeyType DEF Init
<1>3. RequestOK
  BY <1>1, <1>2 DEF RequestOK
<1>4. RestOK
  <2>1. Len(buffer) = 0 /\ 0 <= Cap
    BY CapAssumption DEF Init
  <2>2. QED  BY <2>1 DEF Init, RestOK
<1>5. QED  BY <1>3, <1>4

\* What a line does to the control: it reads on, passes something on, or ends.
LEMMA LineControl ==
  ASSUME IInv, ReadLine, last \in BOOLEAN
  PROVE  pc' \in {"reading", "sending", "closed"} /\ last' \in BOOLEAN
<1> DEFINE L == Lines(kind, answer)
           e == L[read + 1]
<1>1. pc' \in {"reading", "sending", "closed"}
  BY LineEffect
<1>2. kind \in Kinds /\ answer \in Answers /\ read \in Nat /\ read + 1 \in 1 .. Len(L)
  BY LineParts DEF ReadLine, IInv, Types
<1>3. CASE kind = "openai"
  <2>1. OpenAILine(e)
    BY <1>3 DEF ReadLine
  <2> HIDE DEF e
  <2>2. QED  BY <1>1, <2>1 DEF OpenAILine, Sends, Returns
<1>4. CASE kind = "gemini"
  <2>1. GeminiLine(e)
    BY <1>4 DEF ReadLine
  <2> HIDE DEF e
  <2>2. QED  BY <1>1, <2>1 DEF GeminiLine, Sends, ReadsOn
<1>5. CASE kind = "anthropic"
  <2>1. AnthropicLine(e)
    BY <1>5 DEF ReadLine
  <2>2. e.type \in {"start", "delta", "usage", "stop"}
    <3>1. /\ L[1].type = "start" /\ \A i \in 2 .. Len(L) - 2 : L[i].type = "delta"
          /\ L[Len(L) - 1].type = "usage" /\ L[Len(L)].type = "stop"
          /\ Len(L) \in Nat
      BY <1>2, <1>5, AnthropicLines, AnswerType
    <3> HIDE DEF L
    <3>2. \/ read + 1 = 1 \/ read + 1 \in 2 .. Len(L) - 2
          \/ read + 1 = Len(L) - 1 \/ read + 1 = Len(L)
      BY <1>2, <3>1
    <3>3. QED  BY <3>1, <3>2
  <2> HIDE DEF e
  <2>3. QED  BY <1>1, <2>1, <2>2 DEF AnthropicLine, Sends, ReadsOn
<1>6. QED  BY <1>2, <1>3, <1>4, <1>5 DEF Kinds

LEMMA NextRest == IInv /\ RestOK /\ RequestOK /\ [Next]_vars => RestOK' /\ RequestOK'
<1> SUFFICES ASSUME IInv, RestOK, RequestOK, [Next]_vars PROVE RestOK' /\ RequestOK'
  OBVIOUS
<1> USE DEF RestOK, Fixed, Channel
<1>1. RequestOK'
  <2>1. UNCHANGED <<kind, request>>
    BY DEF Next, vars, CallFails, ChatBreaks, ChatAnswers, StreamOpens, Called, Stream, ReadLine,
           ReadEnds, ReadFails, Send, SendCancelled, SendError, Receive, SeesEnd, Leave, Cancel
  <2>2. QED  BY <2>1 DEF RequestOK
<1>2. CASE CallFails \/ ChatBreaks \/ ChatAnswers \/ StreamOpens
  BY <1>1, <1>2 DEF CallFails, ChatBreaks, ChatAnswers, StreamOpens, Called, StatusError, Errors
<1>3. CASE ReadLine
  <2>1. /\ UNCHANGED <<result, buffer, reader, cancelled>>
        /\ pc' \in {"reading", "sending", "closed"} /\ last' \in BOOLEAN
    BY <1>3, LineControl DEF ReadLine
  <2>2. QED  BY <1>1, <2>1
<1>4. CASE ReadEnds \/ ReadFails \/ SendCancelled
  BY <1>1, <1>4 DEF ReadEnds, ReadFails, SendCancelled, Returns
<1>5. CASE Send \/ SendError
  <2>1. /\ \E x \in Chunks : buffer' = Append(buffer, x)
        /\ Len(buffer) < Cap /\ pc' \in {"closed", "reading"}
        /\ UNCHANGED <<result, reader, cancelled, last>>
    BY <1>5 DEF Send, SendError, HasRoom, IInv, Types, ErrorChunk, Chunks, Finishes, NoUsage, Usages
  <2>2. buffer \in Seq(Chunks)
    BY DEF IInv, Types
  <2>3. Len(buffer') <= Cap
    BY <2>1, <2>2, CapAssumption
  <2>4. QED  BY <1>1, <2>1, <2>3
<1>6. CASE Receive
  <2>1. buffer \in Seq(Chunks) /\ buffer # <<>> /\ delivered \in Seq(Chunks)
    BY <1>6 DEF Receive, IInv, Types
  <2>2. Len(Tail(buffer)) < Len(buffer) /\ Tail(buffer) \in Seq(Chunks)
    BY <2>1, Moved
  <2>3. Len(buffer) \in Nat /\ Len(Tail(buffer)) \in Nat
    BY <2>1, <2>2
  <2>4. Len(buffer') <= Cap
    BY <1>6, <2>2, <2>3, CapAssumption DEF Receive
  <2>5. QED  BY <1>1, <1>6, <2>4 DEF Receive
<1>7. CASE SeesEnd \/ Leave \/ Cancel
  BY <1>1, <1>7 DEF SeesEnd, Leave, Cancel
<1>8. CASE UNCHANGED vars
  BY <1>1, <1>8 DEF vars
<1>9. QED  BY <1>1, <1>2, <1>3, <1>4, <1>5, <1>6, <1>7, <1>8 DEF Next, Stream

LEMMA RestInv == Spec => [](RestOK /\ RequestOK)
<1>1. Init => RestOK /\ RequestOK
  BY InitRest
<1>2. IInv /\ (RestOK /\ RequestOK) /\ [Next]_vars => (RestOK /\ RequestOK)'
  BY NextRest
<1>3. QED  BY <1>1, <1>2, Invariance, PTL DEF Spec

\* The request is in the provider's terms, the channel never holds more than
\* it has room for, and everything else has its type, for any conversation,
\* answer, channel and reader.
THEOREM TypeCorrect == Spec => []TypeOK
<1>1. IInv /\ RestOK /\ RequestOK => TypeOK
  BY DEF IInv, Types, RestOK, RequestOK, TypeOK
<1>2. QED  BY <1>1, Invariance, RestInv, PTL

-----------------------------------------------------------------------------
(* The safety half of StreamEnds.                                          *)

\* What a call and its goroutine can still do, without the reader's help.
Fuel ==
  LET left == Len(Lines(kind, answer)) - read IN
  CASE pc = "calling" -> 2 * left + 3
    [] pc = "sending" -> 2 * left + 3
    [] pc = "reading" -> 2 * left + 2
    [] pc = "failing" -> 1
    [] pc = "closed"  -> 0

RunsDown ==
  /\ Fuel \in Nat /\ Fuel' \in Nat
  /\ Fuel' <= Fuel
  /\ Stream => Fuel' < Fuel

\* Every step of the goroutine brings it nearer to its end, for any answer,
\* and nothing a reader, a provider or a context does takes it back: the
\* goroutine goes on for ever in no behaviour, it can only wait.
THEOREM StreamRunsDown == Spec => [][RunsDown]_vars
<1>1. IInv /\ RestOK /\ [Next]_vars => [RunsDown]_vars
  <2> SUFFICES ASSUME IInv, RestOK, Next PROVE RunsDown
    OBVIOUS
  <2> DEFINE n == Len(Lines(kind, answer))
  <2>1. n \in Nat /\ read \in 0 .. n
    <3>1. kind \in Kinds /\ answer \in Answers /\ read \in 0 .. n
      BY DEF IInv, Types
    <3>2. n \in Nat
      BY <3>1, LineParts
    <3>3. QED  BY <3>1, <3>2
  <2>3. UNCHANGED <<kind, answer>>
    BY DEF Next, Fixed, CallFails, ChatBreaks, ChatAnswers, StreamOpens, Called, Stream, ReadLine,
                ReadEnds, ReadFails, Send, SendCancelled, SendError, Receive, SeesEnd, Leave, Cancel
  <2>4. n' = n
    BY <2>3
  <2> HIDE DEF n
  <2> USE DEF RunsDown, Fuel, Fixed, Channel
  <2>5. CASE CallFails \/ ChatBreaks \/ ChatAnswers \/ StreamOpens
    <3>1. pc = "calling" /\ pc' \in {"closed", "reading"} /\ read' = read /\ ~Stream
      BY <2>5 DEF CallFails, ChatBreaks, ChatAnswers, StreamOpens, Called, Stream, ReadLine,
                  ReadEnds, ReadFails, Send, SendCancelled, SendError
    <3>2. QED  BY <2>1, <2>3, <2>4, <3>1 DEF n
  <2>6. CASE ReadLine
    <3>1. /\ pc = "reading" /\ read < n /\ read' = read + 1
          /\ pc' \in {"closed", "reading", "sending"}
      BY <2>6, LineControl DEF ReadLine, RestOK, n
    <3>2. QED  BY <2>1, <2>3, <2>4, <3>1 DEF n
  <2>7. CASE ReadEnds \/ ReadFails
    <3>1. pc = "reading" /\ pc' \in {"closed", "failing"} /\ read' = read
      BY <2>7 DEF ReadEnds, ReadFails, Returns
    <3>2. QED  BY <2>1, <2>3, <2>4, <3>1 DEF n
  <2>8. CASE Send \/ SendCancelled
    <3>1. pc = "sending" /\ pc' \in {"closed", "reading"} /\ read' = read
      BY <2>8 DEF Send, SendCancelled
    <3>2. QED  BY <2>1, <2>3, <2>4, <3>1 DEF n
  <2>9. CASE SendError
    <3>1. pc = "failing" /\ pc' = "closed" /\ read' = read
      BY <2>9 DEF SendError
    <3>2. QED  BY <2>1, <2>3, <2>4, <3>1 DEF n
  <2>10. CASE Receive \/ SeesEnd \/ Leave \/ Cancel
    <3>1. UNCHANGED <<pc, read, kind, answer>>
      BY <2>10 DEF Receive, SeesEnd, Leave, Cancel
    <3>2. Fuel' = Fuel
      BY <3>1
    <3>3. Fuel \in Nat
      BY <2>1 DEF RestOK, n
    <3> HIDE DEF Fuel
    <3>4. Stream => pc' # pc \/ read' # read
      <4>1. ReadLine => read' # read
        BY <2>1 DEF ReadLine
      <4>2. ReadEnds \/ ReadFails \/ Send \/ SendCancelled \/ SendError => pc' # pc
        BY DEF ReadEnds, ReadFails, Send, SendCancelled, SendError, Returns
      <4>3. QED  BY <4>1, <4>2 DEF Stream
    <3>5. ~Stream
      BY <3>1, <3>4
    <3>6. Fuel' <= Fuel
      BY <3>2, <3>3
    <3>7. QED  BY <3>2, <3>3, <3>5, <3>6
  <2>11. QED  BY <2>5, <2>6, <2>7, <2>8, <2>9, <2>10 DEF Next, Stream
<1>2. QED  BY <1>1, Invariance, RestInv, PTL DEF Spec
=============================================================================
